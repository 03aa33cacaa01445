----------------------------- MODULE LoadStore -----------------------------
(***************************************************************************)
(* arm_load_store.c: single, halfword, doubleword and multiple transfers.  *)
(*                                                                         *)
(* A transfer reads and writes both the registers r and the memory m; its  *)
(* outcome is the record of both and of the result the code returns.       *)
(* What the code reads uninitialised is given by "junk": junk.address for  *)
(* an address no addressing mode computes, junk.word for a word that no    *)
(* successful read filled in.                                              *)
(***************************************************************************)
EXTENDS DataProcessing, Memory

FAULT == 255            \* the -1 of a failed access, returned as an uint8_t
ABORT == 257            \* the process dies on an assert of the code
SEGV == 258             \* the process dies on an access far out of its memory

Outcome(r, m, result) == [regs |-> r, mem |-> m, result |-> result]

\* How an access of n bytes ends.
Access(address, n) ==
    IF ~InBounds(address, n) THEN FAULT ELSE IF Wild(address, n) THEN SEGV ELSE 0

---------------------------------------------------------------------------
\* The table of condition_passed, for the flags that are 1.  An odd condition
\* is the negation of the even one before it.
EvenCondition(cond, flags) ==
    CASE cond = {} -> Z \in flags                                        \* EQ
      [] cond = {1} -> C \in flags                                       \* CS
      [] cond = {2} -> N \in flags                                       \* MI
      [] cond = {2, 1} -> V \in flags                                    \* VS
      [] cond = {3} -> C \in flags /\ Z \notin flags                     \* HI
      [] cond = {3, 1} -> N \in flags <=> V \in flags                    \* GE
      [] cond = {3, 2} -> Z \notin flags /\ (N \in flags <=> V \in flags)   \* GT
      [] cond = {3, 2, 1} -> TRUE                                        \* AL

\* Mutant: the flag test of condition LS is that of HI, and so for every pair.
ConditionTableEvenOnly(cond, flags) == EvenCondition(cond \ {0}, flags)

ConditionTable(cond, flags) ==
    IF 0 \in cond THEN ~EvenCondition(cond \ {0}, flags) ELSE EvenCondition(cond, flags)

\* The CPSR is copied into a byte, which has none of the flags.
condition_passed(r, ins) ==
    ConditionTable(get_bits(ins, 31, 28), (read_cpsr(r) \cap (0..7)) \cap Flags)

op(ins, left, right) == IF get_bit(ins, 23) THEN Add(left, right) ELSE Sub(left, right)

P_bit(ins) == get_bit(ins, 24)
W_bit(ins) == get_bit(ins, 21)
Rd(ins) == ToNat(get_bits(ins, 15, 12))
Rn(ins) == ToNat(get_bits(ins, 19, 16))

\* The scaled offset: rm has been truncated to a byte by the parameter.
set_index(r, ins, rm) ==
    LET shift == get_bits(ins, 6, 5)
        imm   == ToNat(get_bits(ins, 11, 7))
        byte  == rm \cap (0..7)
        carry == IF C \in read_cpsr(r) THEN {31} ELSE {}
    IN  CASE shift = {} -> lsl(byte, imm)
          [] shift = {0} -> IF imm = 0 THEN {} ELSE lsr(byte, imm)
          [] shift = {1} -> IF imm = 0 THEN {} ELSE asr(byte, imm)
          [] shift = {1, 0} -> IF imm = 0 THEN carry \cup lsr(byte, 1) ELSE ror(byte, imm)

\* addrmode_load_store.  The new base it computes is a local of the caller:
\* no transfer writes its base register back.
WordAddress(r, ins, offset, junk) ==
    LET rn == arm_read_register(r, Rn(ins))
    IN  IF P_bit(ins) THEN op(ins, rn, offset)
        ELSE IF ~W_bit(ins) THEN rn ELSE junk.address

\* addrmode_load_store_miscellaneous: the caller passes rm for the offset, so
\* the immediate of these instructions is never used.
MiscAddress(r, ins) ==
    LET rn == arm_read_register(r, Rn(ins))
        rm == arm_read_register(r, ToNat(get_bits(ins, 3, 0)))
    IN  IF P_bit(ins) THEN op(ins, rn, rm) ELSE rn

---------------------------------------------------------------------------
\* A word loaded into the pc puts its bit 0 in the T bit of the CPSR.
LoadPc(r, word) ==
    write_register(
        write_cpsr(r, IF 0 \in word THEN set_bit(read_cpsr(r), 5) ELSE clr_bit(read_cpsr(r), 5)),
        PC, clr_bit(word, 0))

\* ldr: when the read fails rd is written all the same, with an uninitialised word.
LDR(r, m, rd, address, junk) ==
    CASE Access(address, 4) = SEGV -> Outcome(r, m, SEGV)
      [] Access(address, 4) = FAULT -> Outcome(write_register(r, rd, junk.word), m, 0)
      [] OTHER ->
            LET word == memory_read(m, address, 4)
            IN  Outcome(IF rd = PC THEN LoadPc(r, word) ELSE write_register(r, rd, word), m, 0)

\* ldrb: the byte's read status, an uint8_t, is compared with -1, so that rd is
\* never written.
LDRB(r, m, address) == Outcome(r, m, Access(address, 1))

Store(r, m, address, n, value) ==
    Outcome(r, memory_write(m, address, n, value), Access(address, n))

executeInstr_word_byte(r, m, ins, address, junk) ==
    LET l == get_bit(ins, 20)
        b == get_bit(ins, 22)
        stored == IF condition_passed(r, ins)
                  THEN Store(r, m, address, IF b THEN 1 ELSE 4, arm_read_register(r, Rd(ins)))
                  ELSE Outcome(r, m, 0)
    IN  CASE l /\ b -> LDRB(r, m, address)
          [] l /\ ~b -> LDR(r, m, Rd(ins), address, junk)
          [] ~l /\ b -> [stored EXCEPT !.result = IF @ = SEGV THEN SEGV ELSE 0]
          [] ~l /\ ~b -> stored

---------------------------------------------------------------------------
LDRH(r, m, rd, address) ==
    LET status == Access(address, 2)
    IN  Outcome(IF status = 0 THEN write_register(r, rd, memory_read(m, address, 2)) ELSE r,
                m, status)

\* ldrd and strd only run for an odd rd and an unaligned address; rd + 1 may be
\* 16, which reads as 0 and is not written.  A failed ldrd returns 0.
LDRD(r, m, rd, address) ==
    LET second == Add(address, FromNat(4))
        first  == write_register(r, rd, memory_read(m, address, 4))
        status == IF Access(address, 4) # 0 THEN Access(address, 4) ELSE Access(second, 4)
    IN  IF rd % 2 = 0 \/ rd = LR \/ address \cap {0, 1} = {} THEN Outcome(r, m, 0)
        ELSE Outcome(IF Access(address, 4) # 0 THEN r
                     ELSE IF status # 0 THEN first
                     ELSE write_register(first, rd + 1, memory_read(m, second, 4)),
                     m, IF status = SEGV THEN SEGV ELSE 0)

STRD(r, m, rd, address) ==
    LET second == Add(address, FromNat(4))
        first  == Store(r, m, address, 4, arm_read_register(r, rd))
    IN  IF rd % 2 = 0 \/ rd = LR \/ address \cap {0, 1} = {} \/ 2 \notin address
        THEN Outcome(r, m, 0)
        ELSE IF first.result # 0 THEN first
        ELSE Store(r, first.mem, second, 4, arm_read_register(r, rd + 1))

executeInstr_miscellaneous(r, m, ins, address) ==
    LET lsh == {b \in {2} : get_bit(ins, 20)} \cup get_bits(ins, 6, 5)
    IN  CASE lsh = {0} -> IF condition_passed(r, ins)
                          THEN Store(r, m, address, 2, arm_read_register(r, Rd(ins)))
                          ELSE Outcome(r, m, 0)
          [] lsh = {1} -> LDRD(r, m, Rd(ins), address)
          [] lsh = {1, 0} -> STRD(r, m, Rd(ins), address)
          [] lsh = {2, 0} -> LDRH(r, m, Rd(ins), address)
          [] OTHER -> Outcome(r, m, UNDEFINED_INSTRUCTION)

---------------------------------------------------------------------------
(* ldm and stm.  The register list is a set of register numbers; register  *)
(* i is transferred at start + 4 * (how many of the list come before i),   *)
(* in increasing order, up to the first access that fails.                 *)

RegisterList(ins) == get_bits(ins, 15, 0)

StartAddress(r, ins) ==
    LET rn   == arm_read_register(r, Rn(ins))
        size == FromNat(4 * Cardinality(RegisterList(ins)))
        four == FromNat(4)
    IN  CASE P_bit(ins) /\ get_bit(ins, 23) -> Add(rn, four)                    \* IB
          [] P_bit(ins) /\ ~get_bit(ins, 23) -> Sub(rn, size)                   \* DB
          [] ~P_bit(ins) /\ get_bit(ins, 23) -> rn                              \* IA
          [] ~P_bit(ins) /\ ~get_bit(ins, 23) -> Add(Sub(rn, size), four)       \* DA

TransferAddress(start, list, i) ==
    Add(start, FromNat(4 * Cardinality({j \in list : j < i})))

Failing(start, list) == {i \in list : Access(TransferAddress(start, list, i), 4) # 0}

\* The registers transferred before the first failure, and the one that fails
\* (16 if none does).
Transferred(start, list) == {i \in list : \A j \in Failing(start, list) : i < j}
FirstFailing(start, list) ==
    IF Failing(start, list) = {} THEN 16
    ELSE CHOOSE i \in Failing(start, list) : \A j \in Failing(start, list) : i <= j

\* Mutant: without the assert.
MultipleResultUnchecked(start, list) ==
    IF FirstFailing(start, list) = 16 THEN 0 ELSE FAULT

\* The result of a transfer: the assert on the end address fails when an
\* access other than the last one of the list does.
MultipleResult(start, list) ==
    LET failed == FirstFailing(start, list)
    IN  IF failed = 16 THEN 0
        ELSE IF Access(TransferAddress(start, list, failed), 4) = SEGV THEN SEGV
        ELSE IF \E j \in list : j > failed THEN ABORT ELSE FAULT

\* The registers of "set" written in increasing order with values[i]: in a mode
\* without a bank of its own several of them share a slot and the last one stays.
write_registers(r, set, values) ==
    [slot \in Slots |->
        LET writers == {i \in set : Slot(r, i) = slot}
        IN  IF writers = {} THEN r[slot]
            ELSE values[CHOOSE i \in writers : \A j \in writers : j <= i]]

\* A pc whose read fails is loaded with the last word that was read, if any.
LDM(r, m, list, start, junk) ==
    LET done   == Transferred(start, list)
        word   == [i \in list |-> memory_read(m, TransferAddress(start, list, i), 4)]
        loaded == write_registers(r, done \ {PC}, word)
        last   == IF done = {} THEN junk.word ELSE word[CHOOSE i \in done : \A j \in done : j <= i]
        pcRead == PC \in list /\ FirstFailing(start, list) >= PC
    IN  Outcome(IF pcRead THEN LoadPc(loaded, last) ELSE loaded, m, MultipleResult(start, list))

STM(r, m, list, start) ==
    Outcome(r,
            StoreBytes(m, UNION {BytesOf(TransferAddress(start, list, i), 4, arm_read_register(r, i))
                                 : i \in Transferred(start, list)}),
            MultipleResult(start, list))

---------------------------------------------------------------------------
(* The two entry points.                                                   *)

arm_load_store(r, m, ins, junk) ==
    LET rm       == arm_read_register(r, ToNat(get_bits(ins, 3, 0)))
        plain    == get_bits(ins, 11, 4) = {}
        decoded  == plain \/ (~get_bit(ins, 4) /\ (P_bit(ins) \/ ~W_bit(ins)))
        offset   == IF plain THEN rm ELSE set_index(r, ins, rm)
    IN  CASE get_bits(ins, 27, 25) = {} ->
                executeInstr_miscellaneous(r, m, ins, MiscAddress(r, ins))
          [] get_bits(ins, 27, 25) = {1} ->
                executeInstr_word_byte(r, m, ins,
                    WordAddress(r, ins, get_bits(ins, 11, 0), junk), junk)
          [] get_bits(ins, 27, 25) = {1, 0} /\ decoded ->
                executeInstr_word_byte(r, m, ins, WordAddress(r, ins, offset, junk), junk)
          [] OTHER -> Outcome(r, m, 0)

arm_load_store_multiple(r, m, ins, junk) ==
    LET list  == RegisterList(ins)
        start == StartAddress(r, ins)
    IN  IF get_bit(ins, 20) THEN LDM(r, m, list, start, junk)
                            ELSE STM(r, m, list, start)

=============================================================================
