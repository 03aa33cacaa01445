------------------------------ MODULE CoreLemmas ------------------------------
(***************************************************************************)
(* What the operators of the instruction set keep: words stay words, and a *)
(* register write reaches the bank of the mode it is made in.              *)
(***************************************************************************)
EXTENDS CoreOperations, WellFoundedInduction, TLAPS

---------------------------------------------------------------------------
(* Words.                                                                  *)

\* In the core a word has 32 bits, numbered 0 to 31.
LEMMA WordWidth == WordBits = 32 /\ Bits = 0..31 /\ SignBit = 31
BY ArmCoreAssumption DEF Bits, SignBit

\* The sum and the difference of anything are words: carries and borrows out of
\* bit 31 are lost, as in uint32_t.
LEMMA SumsAreWords ==
    ASSUME NEW x, NEW y
    PROVE  Add(x, y) \in Word /\ Sub(x, y) \in Word
BY DEF Add, AddCarry, Sub, Word

\* The number of a field of four or five bits.
LEMMA ToNatIsNat ==
    ASSUME NEW x
    PROVE  /\ ToNat(x) \in Nat
           /\ x \subseteq 0..3 => ToNat(x) \in 0..15
           /\ x \subseteq 0..4 => ToNat(x) \in 0..31
<1>1. \A i : \A w \in Nat : BitValue(x, i, w) \in {0, w}
    BY DEF BitValue
<1>2. ToNat(x) \in Nat
    BY <1>1 DEF ToNat
<1>3. ASSUME x \subseteq 0..3  PROVE ToNat(x) \in 0..15
    <2>1. \A i \in 4..7 : i \notin x
        BY <1>3
    <2> QED
        BY <1>1, <2>1 DEF ToNat, BitValue
<1>4. ASSUME x \subseteq 0..4  PROVE ToNat(x) \in 0..31
    <2>1. \A i \in 5..7 : i \notin x
        BY <1>4
    <2> QED
        BY <1>1, <2>1 DEF ToNat, BitValue
<1> QED
    BY <1>2, <1>3, <1>4

\* The set_bits macro keeps a word a word, even if the value overflows its field.
LEMMA FieldsAreWords ==
    ASSUME NEW x \in Word, NEW bits, NEW h \in Nat, NEW l \in Nat
    PROVE  set_bits(x, h, l, bits) \in Word
BY DEF set_bits, Word

\* A field that is read has no bit above its width.
LEMMA GetBitsInField ==
    ASSUME NEW x \in Word, NEW h \in Nat, NEW l \in Nat, h >= l
    PROVE  get_bits(x, h, l) \subseteq 0..(h - l)
BY WordWidth DEF get_bits, Word

\* Shifts by the counts the host sees keep the width.
LEMMA ShiftsAreWords ==
    ASSUME NEW x \in Word, NEW n \in 0..31
    PROVE  /\ lsl(x, n) \in Word
           /\ sar(x, n) \in Word
           /\ asr(x, n) \in Word
<1>1. lsl(x, n) \in Word
    BY DEF lsl, Word
<1>2. lsr(x, n) \in Word
    BY WordWidth DEF lsr, Word
<1>3. SignFill(x, n) \in Word
    BY WordWidth DEF SignFill, Word
<1>4. sar(x, n) \in Word
    BY <1>2, <1>3 DEF sar, Word
<1>5. asr(x, n) \in Word
    BY WordWidth, <1>4 DEF asr, Word
<1> QED
    BY <1>1, <1>4, <1>5

\* A rotation keeps the width.
LEMMA RotationsAreWords ==
    ASSUME NEW x \in Word, NEW n \in Nat
    PROVE  ror(x, n) \in Word
<1>1. \A b \in x : (b - n) \in Int
    BY WordWidth DEF Word
<1>2. \A k \in Int : k % 32 \in 0..31
    OBVIOUS
<1> QED
    BY WordWidth, <1>1, <1>2 DEF ror, Word

---------------------------------------------------------------------------
(* Registers.                                                              *)

\* The modes whose banks are told apart are different words.
LEMMA ModesDiffer ==
    /\ USR # FIQ /\ USR # IRQ /\ USR # SVC /\ USR # ABT /\ USR # UND
    /\ SYS # FIQ /\ SYS # IRQ /\ SYS # SVC /\ SYS # ABT /\ SYS # UND
    /\ FIQ # IRQ /\ FIQ # SVC /\ FIQ # ABT /\ FIQ # UND
BY DEF USR, FIQ, IRQ, SVC, ABT, UND, SYS

\* A mode is one of the seven or none of them.
LEMMA ModeCases ==
    ASSUME NEW mode
    PROVE  \/ mode \in {USR, SYS}
           \/ mode \in {SVC, ABT, UND, IRQ}
           \/ mode = FIQ
           \/ mode \notin {USR, SYS, SVC, ABT, UND, IRQ, FIQ}
OBVIOUS

\* The table of registers.c, filled by init(): a register of a mode is in the
\* bank of the mode, or is slot 0 or the pc.
LEMMA ModeSlotInBank ==
    ASSUME NEW mode, NEW reg \in 0..15
    PROVE  ModeSlot(mode, reg) \in Bank(mode) \cup {0, PC}
<1>1. CASE mode \in {USR, SYS}
    <2>1. ModeSlot(mode, reg) = reg
        BY <1>1, ModesDiffer DEF ModeSlot
    <2>2. Bank(mode) = UserBank
        BY <1>1, ModesDiffer DEF Bank
    <2> QED
        BY <2>1, <2>2 DEF UserBank, PC
<1>2. CASE mode \in {SVC, ABT, UND, IRQ}
    <2>1. ModeSlot(mode, reg) =
            IF reg <= 12 \/ reg >= 15 THEN reg ELSE R13_IRQ + (reg - 13)
        BY <1>2, ModesDiffer DEF ModeSlot
    <2>2. Bank(mode) = SharedBank
        BY <1>2, ModesDiffer DEF Bank
    <2> QED
        BY <2>1, <2>2 DEF SharedBank, PC, R13_IRQ
<1>3. CASE mode = FIQ
    <2>1. ModeSlot(mode, reg) =
            IF reg <= 7 \/ reg >= 15 THEN reg ELSE R8_FIQ + (reg - 8)
        BY <1>3, ModesDiffer DEF ModeSlot
    <2>2. Bank(mode) = FiqBank
        BY <1>3, ModesDiffer DEF Bank
    <2> QED
        BY <2>1, <2>2 DEF FiqBank, PC, R8_FIQ
<1>4. CASE mode \notin {USR, SYS, SVC, ABT, UND, IRQ, FIQ}
    <2>1. ModeSlot(mode, reg) = 0
        BY <1>4 DEF ModeSlot
    <2> QED
        BY <2>1
<1> QED
    BY <1>1, <1>2, <1>3, <1>4, ModeCases


---------------------------------------------------------------------------
(* What a write reaches.                                                   *)

\* The slots a step that starts in the mode of r may write, exceptions aside.
Reach(r) == Bank(get_mode(r)) \cup CommonSlots

\* s is a register file that differs from r within the reach of r only.
StaysIn(r, s) ==
    /\ s \in RegisterFile
    /\ \A slot \in Slots \ Reach(r) : s[slot] = r[slot]

\* No bank holds the CPSR.
LEMMA BanksAreSlots ==
    ASSUME NEW mode
    PROVE  Bank(mode) \subseteq Slots \ {CPSR}
<1>1. CASE mode \in {USR, SYS}
    BY <1>1, ModesDiffer DEF Bank, UserBank, Slots, NB_REGISTER, CPSR
<1>2. CASE mode \in {SVC, ABT, UND, IRQ}
    BY <1>2, ModesDiffer DEF Bank, SharedBank, Slots, NB_REGISTER, CPSR
<1>3. CASE mode = FIQ
    BY <1>3, ModesDiffer DEF Bank, FiqBank, Slots, NB_REGISTER, CPSR
<1>4. CASE mode \notin {USR, SYS, SVC, ABT, UND, IRQ, FIQ}
    BY <1>4 DEF Bank
<1> QED
    BY <1>1, <1>2, <1>3, <1>4, ModeCases

\* The slot of a register, for modes below 16 too, is within reach and is not the
\* CPSR; the slot of the pc is common to all modes.
LEMMA SlotInReach ==
    ASSUME NEW r \in RegisterFile, NEW reg \in 0..15
    PROVE  /\ Slot(r, reg) \in Reach(r)
           /\ Slot(r, reg) \in Slots \ {CPSR}
           /\ Slot(r, PC) \in CommonSlots
<1>1. ModeSlot(get_mode(r), reg) \in Bank(get_mode(r)) \cup {0, PC}
    BY ModeSlotInBank
<1>2. ModeSlot(get_mode(r), PC) \in {0, PC}
    BY ModeCases DEF ModeSlot, PC
<1>3. Bank(get_mode(r)) \subseteq Slots \ {CPSR}
    BY BanksAreSlots
<1>4. {0, PC, StraySlot} \subseteq Slots \ {CPSR}
    BY StraySlotAssumption DEF Slots, NB_REGISTER, PC, CPSR
<1> QED
    BY <1>1, <1>2, <1>3, <1>4 DEF Slot, Reach, CommonSlots

\* The SPSR of every mode is a common slot, because the table has no column for it.
LEMMA SpsrSlotCommon ==
    ASSUME NEW r
    PROVE  SpsrSlot(r) \in CommonSlots /\ SpsrSlot(r) \in Slots \ {CPSR}
BY StraySlotAssumption DEF SpsrSlot, SpsrColumn, CommonSlots, Slots, NB_REGISTER, CPSR

\* Every register read yields a word.
LEMMA ReadsAreWords ==
    ASSUME NEW r \in RegisterFile, NEW reg
    PROVE  /\ read_register(r, reg) \in Word
           /\ arm_read_register(r, reg) \in Word
           /\ read_cpsr(r) \in Word
           /\ read_spsr(r) \in Word
<1>1. read_register(r, reg) \in Word
    <2>1. CASE reg \in 0..15
        <3>1. Slot(r, reg) \in Slots
            BY <2>1, SlotInReach
        <3> QED
            BY <2>1, <3>1 DEF read_register, is_valid, RegisterFile
    <2>2. CASE reg \notin 0..15
        BY <2>2 DEF read_register, is_valid, Word
    <2> QED
        BY <2>1, <2>2
<1>2. AheadOfFetch(read_register(r, reg)) \in Word
    <2>1. Add(read_register(r, reg), FromNat(4)) \in Word
        BY SumsAreWords
    <2> QED
        BY <2>1 DEF AheadOfFetch, clr_bit, Word
<1>3. read_cpsr(r) \in Word
    BY DEF read_cpsr, RegisterFile, Slots, NB_REGISTER, CPSR
<1>4. read_spsr(r) \in Word
    BY SpsrSlotCommon DEF read_spsr, RegisterFile, Word
<1> QED
    BY <1>1, <1>2, <1>3, <1>4 DEF arm_read_register

\* write_register stays within reach and leaves the mode alone.
LEMMA WriteRegisterStays ==
    ASSUME NEW r \in RegisterFile, NEW reg, NEW value \in Word
    PROVE  /\ StaysIn(r, write_register(r, reg, value))
           /\ read_cpsr(write_register(r, reg, value)) = read_cpsr(r)
<1>1. CASE reg \in 0..15
    <2>1. Slot(r, reg) \in Reach(r) /\ Slot(r, reg) \in Slots \ {CPSR}
        BY <1>1, SlotInReach
    <2>2. write_register(r, reg, value) = [r EXCEPT ![Slot(r, reg)] = value]
        BY <1>1 DEF write_register, is_valid
    <2> QED
        BY <2>1, <2>2 DEF StaysIn, RegisterFile, read_cpsr, Slots, NB_REGISTER, CPSR
<1>2. CASE reg \notin 0..15
    BY <1>2 DEF write_register, is_valid, StaysIn
<1> QED
    BY <1>1, <1>2

\* A write of the pc touches a common slot.
LEMMA WritePcStays ==
    ASSUME NEW r \in RegisterFile, NEW value \in Word
    PROVE  /\ write_register(r, PC, value) \in RegisterFile
           /\ \A slot \in Slots \ CommonSlots : write_register(r, PC, value)[slot] = r[slot]
           /\ read_cpsr(write_register(r, PC, value)) = read_cpsr(r)
<1>1. Slot(r, PC) \in CommonSlots /\ Slot(r, PC) \in Slots \ {CPSR}
    BY SlotInReach DEF PC
<1>2. write_register(r, PC, value) = [r EXCEPT ![Slot(r, PC)] = value]
    BY DEF write_register, is_valid, PC
<1> QED
    BY <1>1, <1>2 DEF RegisterFile, read_cpsr, Slots, NB_REGISTER, CPSR

\* write_cpsr touches the CPSR only.
LEMMA WriteCpsrStays ==
    ASSUME NEW r \in RegisterFile, NEW value \in Word
    PROVE  /\ write_cpsr(r, value) \in RegisterFile
           /\ \A slot \in Slots \ CommonSlots : write_cpsr(r, value)[slot] = r[slot]
           /\ read_cpsr(write_cpsr(r, value)) = value
BY DEF write_cpsr, read_cpsr, RegisterFile, CommonSlots, Slots, NB_REGISTER, CPSR

\* write_spsr touches a common slot and leaves the mode alone.
LEMMA WriteSpsrStays ==
    ASSUME NEW r \in RegisterFile, NEW value \in Word
    PROVE  /\ write_spsr(r, value) \in RegisterFile
           /\ \A slot \in Slots \ CommonSlots : write_spsr(r, value)[slot] = r[slot]
           /\ read_cpsr(write_spsr(r, value)) = read_cpsr(r)
BY SpsrSlotCommon DEF write_spsr, read_cpsr, RegisterFile, Slots, NB_REGISTER, CPSR

\* Reach depends on the CPSR only.
LEMMA SameModeSameReach ==
    ASSUME NEW r, NEW s, read_cpsr(s) = read_cpsr(r)
    PROVE  Reach(s) = Reach(r)
BY DEF Reach, get_mode, read_cpsr

\* A write of common slots after one that stays within the reach of r.
LEMMA StaysThenCommon ==
    ASSUME NEW r, NEW s, NEW t \in RegisterFile,
           StaysIn(r, s), \A slot \in Slots \ CommonSlots : t[slot] = s[slot]
    PROVE  StaysIn(r, t)
BY DEF StaysIn, Reach

---------------------------------------------------------------------------
(* Data processing.                                                        *)

\* The result of each of the sixteen opcodes is a word.
LEMMA ResultIsWord ==
    ASSUME NEW opcode, NEW rn \in Word, NEW so \in Word, NEW c
    PROVE  Result(opcode, rn, so, c) \in Word
<1>1. \A b : Truth(b) \in Word
    BY WordWidth DEF Truth, Word
<1>2. \A x, y : Add(x, y) \in Word /\ Sub(x, y) \in Word
    BY SumsAreWords
<1>3. \A x, y, b : SubWithCarry(x, y, b) \in Word
    BY <1>2 DEF SubWithCarry
<1>4. Complement(so) \in Word
    BY DEF Complement, Word
<1> QED
    BY <1>1, <1>2, <1>3, <1>4 DEF Result

\* executeInst: the result, then the flags or the saved status, stay within reach.
LEMMA ExecuteInstStays ==
    ASSUME NEW opcode, NEW r \in RegisterFile, NEW rd,
           NEW rn \in Word, NEW so \in Word, NEW updateCPSR
    PROVE  StaysIn(r, executeInst(opcode, r, rd, rn, so, updateCPSR))
<1> DEFINE cpsr    == read_cpsr(r)
           res     == Result(opcode, rn, so, C \in cpsr)
           written == IF opcode \in Tests THEN r ELSE write_register(r, rd, res)
           flags   == FlagsAfter(opcode, rn, so, cpsr \cap Flags)
           flagged == write_cpsr(written, (cpsr \ Flags) \cup flags)
           restored == write_cpsr(written, read_spsr(written))
<1>1. res \in Word
    BY ResultIsWord
<1>2. StaysIn(r, written)
    BY <1>1, WriteRegisterStays DEF StaysIn
<1>3. written \in RegisterFile
    BY <1>2 DEF StaysIn
<1>4. (cpsr \ Flags) \cup flags \in Word
    <2>1. cpsr \in Word
        BY ReadsAreWords
    <2>2. flags \subseteq Flags
        BY DEF FlagsAfter
    <2>3. Flags \subseteq Bits
        BY WordWidth DEF Flags, N, Z, C, V
    <2> QED
        BY <2>1, <2>2, <2>3 DEF Word
<1>5. StaysIn(r, flagged)
    <2>1. /\ flagged \in RegisterFile
          /\ \A slot \in Slots \ CommonSlots : flagged[slot] = written[slot]
        BY <1>3, <1>4, WriteCpsrStays
    <2> HIDE DEF flagged, written
    <2> QED
        BY <1>2, <2>1, StaysThenCommon
<1>6. StaysIn(r, restored)
    <2>1. read_spsr(written) \in Word
        BY <1>3, ReadsAreWords
    <2>2. /\ restored \in RegisterFile
          /\ \A slot \in Slots \ CommonSlots : restored[slot] = written[slot]
        BY <1>3, <2>1, WriteCpsrStays
    <2> HIDE DEF restored, written
    <2> QED
        BY <1>2, <2>2, StaysThenCommon
<1>7. executeInst(opcode, r, rd, rn, so, updateCPSR) \in {written, flagged, restored}
    BY DEF executeInst
<1> QED
    BY <1>2, <1>5, <1>6, <1>7

\* getShifterOperand yields a word for each kind of shift.
LEMMA ShifterOperandIsWord ==
    ASSUME NEW so \in Word, NEW count, NEW operand \in {"lsl", "lsr", "asr", "ror"}
    PROVE  getShifterOperand(so, count, operand) \in Word
<1> DEFINE n == ToNat(count \cap (0..4))
<1>1. n \in 0..31
    BY ToNatIsNat
<1>2. /\ lsl(so, n) \in Word
      /\ sar(so, n) \in Word
      /\ asr(so, n) \in Word
    BY <1>1, ShiftsAreWords
<1>3. ror(so, n) \in Word
    <2>1. n \in Nat
        BY ToNatIsNat
    <2> HIDE DEF n
    <2> QED
        BY <2>1, RotationsAreWords
<1> HIDE DEF n
<1>4. getShifterOperand(so, count, operand) \in {so, lsl(so, n), sar(so, n), asr(so, n), ror(so, n)}
    BY DEF getShifterOperand, n
<1> QED
    BY <1>2, <1>3, <1>4

\* A data processing instruction stays within reach.
LEMMA DataProcessingStays ==
    ASSUME NEW r \in RegisterFile, NEW ins \in Word
    PROVE  /\ StaysIn(r, arm_data_processing_shift(r, ins))
           /\ StaysIn(r, arm_data_processing_immediate_msr(r, ins))
<1>1. \A reg : arm_read_register(r, reg) \in Word
    BY ReadsAreWords
<1>2. StaysIn(r, arm_data_processing_shift(r, ins))
    <2> DEFINE rn == ToNat(get_bits(ins, 19, 16))
               rm == ToNat(get_bits(ins, 3, 0))
               valueRn == arm_read_register(r, rn)
               operand == IF rm = PC THEN Add(arm_read_register(r, rm), FromNat(8))
                          ELSE IF rn = PC THEN Add(valueRn, FromNat(8))
                          ELSE arm_read_register(r, rm)
    <2>1. operand \in Word
        BY <1>1, SumsAreWords
    <2>2. \A so \in Word : Shifted(r, ins, so) \in Word
        BY ShifterOperandIsWord DEF Shifted
    <2>3. Shifted(r, ins, operand) \in Word
        BY <2>1, <2>2
    <2> QED
        BY <1>1, <2>3, ExecuteInstStays DEF arm_data_processing_shift
<1>3. StaysIn(r, arm_data_processing_immediate_msr(r, ins))
    <2>1. get_bits(ins, 7, 0) \in Word
        BY GetBitsInField, WordWidth DEF Word
    <2>2. 2 * ToNat(get_bits(ins, 11, 8)) \in Nat
        BY ToNatIsNat
    <2>3. ror(get_bits(ins, 7, 0), 2 * ToNat(get_bits(ins, 11, 8))) \in Word
        BY <2>1, <2>2, RotationsAreWords
    <2> QED
        BY <1>1, <2>3, ExecuteInstStays DEF arm_data_processing_immediate_msr
<1> QED
    BY <1>2, <1>3

---------------------------------------------------------------------------
(* Branches and status registers.                                          *)

\* b and bl stay within reach: lr is written in the mode of the instruction.
LEMMA BranchStays ==
    ASSUME NEW r \in RegisterFile, NEW ins \in Word
    PROVE  StaysIn(r, arm_branch(r, ins))
<1> DEFINE linked == IF get_bit(ins, 24)
                     THEN write_register(r, LR, Sub(arm_read_register(r, PC), FromNat(4)))
                     ELSE r
           target == Add(arm_read_register(linked, PC), BranchOffset(ins))
<1>1. StaysIn(r, linked)
    BY SumsAreWords, WriteRegisterStays DEF StaysIn
<1>2. linked \in RegisterFile
    BY <1>1 DEF StaysIn
<1>3. target \in Word
    BY SumsAreWords
<1> HIDE DEF linked, target
<1>4. /\ write_register(linked, PC, target) \in RegisterFile
      /\ \A slot \in Slots \ CommonSlots : write_register(linked, PC, target)[slot] = linked[slot]
    BY <1>2, <1>3, WritePcStays
<1>5. arm_branch(r, ins) = write_register(linked, PC, target)
    BY DEF arm_branch, linked, target
<1> QED
    BY <1>1, <1>4, <1>5, StaysThenCommon

\* The status register an msr writes is a word.
LEMMA PsrAfterIsWord ==
    ASSUME NEW psr \in Word, NEW ins, NEW value
    PROVE  PsrAfter(psr, ins, value) \in Word
<1> DEFINE control   == IF get_bit(ins, 16) THEN set_bits(psr, 7, 0, value) ELSE psr
           extension == IF get_bit(ins, 17) THEN set_bits(control, 15, 8, value) ELSE control
           status    == IF get_bit(ins, 18) THEN set_bits(extension, 23, 16, value) ELSE extension
           withFlags == set_bits(status, 30, 24, value)
<1>1. control \in Word
    BY FieldsAreWords
<1>2. extension \in Word
    BY <1>1, FieldsAreWords
<1>3. status \in Word
    BY <1>2, FieldsAreWords
<1>4. withFlags \in Word
    BY <1>3, FieldsAreWords
<1>5. set_bit(withFlags, 31) \in Word /\ clr_bit(withFlags, 31) \in Word
    BY <1>4, WordWidth DEF set_bit, clr_bit, Word
<1>6. PsrAfter(psr, ins, value) \in {status, set_bit(withFlags, 31), clr_bit(withFlags, 31)}
    BY DEF PsrAfter
<1> HIDE DEF control, extension, status, withFlags
<1> QED
    BY <1>3, <1>5, <1>6

\* Writes of the status registers stay within reach.
LEMMA CommonWritesStay ==
    ASSUME NEW r \in RegisterFile, NEW value \in Word
    PROVE  StaysIn(r, write_cpsr(r, value)) /\ StaysIn(r, write_spsr(r, value))
<1>1. StaysIn(r, r)
    BY DEF StaysIn
<1> QED
    BY <1>1, WriteCpsrStays, WriteSpsrStays, StaysThenCommon

\* msr and mrs stay within reach.
LEMMA MiscellaneousStays ==
    ASSUME NEW r \in RegisterFile, NEW ins \in Word
    PROVE  StaysIn(r, arm_miscellaneous(r, ins))
<1>1. read_cpsr(r) \in Word /\ read_spsr(r) \in Word
    BY ReadsAreWords
<1>2. ASSUME NEW value, NEW toSpsr
      PROVE  StaysIn(r, write_psr(r, ins, value, toSpsr))
    <2>1. PsrAfter(read_spsr(r), ins, value) \in Word /\ PsrAfter(read_cpsr(r), ins, value) \in Word
        BY <1>1, PsrAfterIsWord
    <2> QED
        BY <2>1, CommonWritesStay DEF write_psr
<1>3. ASSUME NEW reg
      PROVE  /\ StaysIn(r, write_register(r, reg, read_spsr(r)))
             /\ StaysIn(r, write_register(r, reg, read_cpsr(r)))
    BY <1>1, WriteRegisterStays
<1> QED
    BY <1>2, <1>3 DEF arm_miscellaneous

---------------------------------------------------------------------------
(* Memory.                                                                 *)

\* A byte cut from a word has 8 bits.
LEMMA ByteOfIsByte ==
    ASSUME NEW value \in Word, NEW lane \in Int
    PROVE  ByteOf(value, lane) \in Byte
BY WordWidth DEF ByteOf, get_bits, Byte, Word

\* Storing bytes keeps a memory a memory.
LEMMA StoreBytesKeepsMemory ==
    ASSUME NEW m \in MemoryContent, NEW bytes, \A b \in bytes : b[2] \in Byte
    PROVE  StoreBytes(m, bytes) \in MemoryContent
<1>1. ASSUME NEW a \in MemAddress, \E b \in bytes : b[1] = a
      PROVE  (CHOOSE b \in bytes : b[1] = a)[2] \in Byte
    BY <1>1
<1>2. \A a \in MemAddress : m[a] \in Byte
    BY DEF MemoryContent
<1> QED
    BY <1>1, <1>2 DEF StoreBytes, MemoryContent

\* The bytes of a value are bytes, in both byte orders.
LEMMA BytesOfAreBytes ==
    ASSUME NEW address, NEW n \in Nat, NEW value \in Word
    PROVE  \A b \in BytesOf(address, n, value) : b[2] \in Byte
<1>1. \A i \in 0..(n - 1) : Lane(n, i) \in Int
    BY DEF Lane
<1> QED
    BY <1>1, ByteOfIsByte DEF BytesOf

\* memory_write keeps a memory a memory.
LEMMA WriteKeepsMemory ==
    ASSUME NEW m \in MemoryContent, NEW address, NEW n \in Nat, NEW value \in Word
    PROVE  memory_write(m, address, n, value) \in MemoryContent
BY BytesOfAreBytes, StoreBytesKeepsMemory DEF memory_write

\* memory_read yields a word.
LEMMA ReadIsWord ==
    ASSUME NEW m, NEW address, NEW n
    PROVE  memory_read(m, address, n) \in Word
BY DEF memory_read, Word

---------------------------------------------------------------------------
(* Loads and stores.                                                       *)

\* An outcome of a step that starts from the registers r: its registers stay
\* within the reach of r and its memory is a memory.
OutcomeStays(r, o) == StaysIn(r, o.regs) /\ o.mem \in MemoryContent

\* The fields of an outcome.
LEMMA OutcomeFields ==
    ASSUME NEW r, NEW m, NEW result
    PROVE  /\ Outcome(r, m, result).regs = r
           /\ Outcome(r, m, result).mem = m
           /\ Outcome(r, m, result).result = result
BY DEF Outcome

\* A set of register numbers that is not empty has a largest element.
LEMMA LargestRegister ==
    ASSUME NEW S \in SUBSET (0..15), S # {}
    PROVE  \E i \in S : \A j \in S : j <= i
<1> DEFINE HasLargest == \E i \in S : \A j \in S : j <= i
           below == [k \in -1..15 |-> S \subseteq 0..k]
<1>1. \A k \in 0..15 : below[k] => HasLargest \/ below[k - 1]
    <2> SUFFICES ASSUME NEW k \in 0..15, S \subseteq 0..k
                 PROVE  HasLargest \/ S \subseteq 0..(k - 1)
        OBVIOUS
    <2>1. CASE k \in S
        BY <2>1
    <2>2. CASE k \notin S
        BY <2>2
    <2> QED
        BY <2>1, <2>2
<1>2. below[15] /\ ~below[-1]
    <2>1. 15 \in -1..15 /\ -1 \in -1..15
        OBVIOUS
    <2>2. below[15]
        BY <2>1
    <2>3. ~(S \subseteq 0..(-1))
        <3>1. PICK x \in S : TRUE
            OBVIOUS
        <3>2. x \notin 0..(-1)
            OBVIOUS
        <3> QED
            BY <3>1, <3>2
    <2> QED
        BY <2>1, <2>2, <2>3
<1> HIDE DEF HasLargest, below
<1>3. HasLargest \/ below[11]
    <2>1. HasLargest \/ below[14]
        BY <1>1, <1>2
    <2>2. HasLargest \/ below[13]
        BY <1>1, <2>1
    <2>3. HasLargest \/ below[12]
        BY <1>1, <2>2
    <2> QED
        BY <1>1, <2>3
<1>4. HasLargest \/ below[7]
    <2>1. HasLargest \/ below[10]
        BY <1>1, <1>3
    <2>2. HasLargest \/ below[9]
        BY <1>1, <2>1
    <2>3. HasLargest \/ below[8]
        BY <1>1, <2>2
    <2> QED
        BY <1>1, <2>3
<1>5. HasLargest \/ below[3]
    <2>1. HasLargest \/ below[6]
        BY <1>1, <1>4
    <2>2. HasLargest \/ below[5]
        BY <1>1, <2>1
    <2>3. HasLargest \/ below[4]
        BY <1>1, <2>2
    <2> QED
        BY <1>1, <2>3
<1>6. HasLargest \/ below[-1]
    <2>1. HasLargest \/ below[2]
        BY <1>1, <1>5
    <2>2. HasLargest \/ below[1]
        BY <1>1, <2>1
    <2>3. HasLargest \/ below[0]
        BY <1>1, <2>2
    <2> QED
        BY <1>1, <2>3
<1> QED
    BY <1>2, <1>6 DEF HasLargest

\* A load into the pc touches common slots: the pc and the CPSR.
LEMMA LoadPcStays ==
    ASSUME NEW r \in RegisterFile, NEW word \in Word
    PROVE  /\ LoadPc(r, word) \in RegisterFile
           /\ \A slot \in Slots \ CommonSlots : LoadPc(r, word)[slot] = r[slot]
<1> DEFINE cpsr == IF 0 \in word THEN set_bit(read_cpsr(r), 5) ELSE clr_bit(read_cpsr(r), 5)
<1>1. cpsr \in Word
    BY ReadsAreWords, WordWidth DEF set_bit, clr_bit, Word
<1>2. clr_bit(word, 0) \in Word
    BY DEF clr_bit, Word
<1> HIDE DEF cpsr
<1>3. /\ write_cpsr(r, cpsr) \in RegisterFile
      /\ \A slot \in Slots \ CommonSlots : write_cpsr(r, cpsr)[slot] = r[slot]
    BY <1>1, WriteCpsrStays
<1>4. LoadPc(r, word) = write_register(write_cpsr(r, cpsr), PC, clr_bit(word, 0))
    BY DEF LoadPc, cpsr
<1> QED
    BY <1>2, <1>3, <1>4, WritePcStays

\* ldr and ldrb stay within reach.
LEMMA LoadsStay ==
    ASSUME NEW r \in RegisterFile, NEW m \in MemoryContent, NEW rd, NEW address,
           NEW junk \in JunkLocals
    PROVE  /\ OutcomeStays(r, LDR(r, m, rd, address, junk))
           /\ OutcomeStays(r, LDRB(r, m, address))
<1>1. junk.word \in Word
    BY ArmCoreAssumption DEF JunkLocals
<1>2. \A a, n : memory_read(m, a, n) \in Word
    BY ReadIsWord
<1>3. StaysIn(r, r)
    BY DEF StaysIn
<1>4. \A reg : \A value \in Word : StaysIn(r, write_register(r, reg, value))
    BY WriteRegisterStays
<1>5. OutcomeStays(r, LDR(r, m, rd, address, junk))
    <2>1. StaysIn(r, LoadPc(r, memory_read(m, address, 4)))
        BY <1>2, <1>3, LoadPcStays, StaysThenCommon
    <2>2. LDR(r, m, rd, address, junk) \in
            {Outcome(r, m, SEGV),
             Outcome(write_register(r, rd, junk.word), m, 0),
             Outcome(LoadPc(r, memory_read(m, address, 4)), m, 0),
             Outcome(write_register(r, rd, memory_read(m, address, 4)), m, 0)}
        BY DEF LDR
    <2> QED
        BY <1>1, <1>2, <1>3, <1>4, <2>1, <2>2 DEF OutcomeStays, Outcome
<1>6. OutcomeStays(r, LDRB(r, m, address))
    BY <1>3 DEF OutcomeStays, Outcome, LDRB
<1> QED
    BY <1>5, <1>6

\* ldrd and ldrh stay within reach.
LEMMA LoadDoubleAndHalfStay ==
    ASSUME NEW r \in RegisterFile, NEW m \in MemoryContent, NEW rd, NEW address
    PROVE  /\ OutcomeStays(r, LDRH(r, m, rd, address))
           /\ OutcomeStays(r, LDRD(r, m, rd, address))
<1>1. \A a, n : memory_read(m, a, n) \in Word
    BY ReadIsWord
<1>2. StaysIn(r, r)
    BY DEF StaysIn
<1>3. \A reg : \A value \in Word : StaysIn(r, write_register(r, reg, value))
    BY WriteRegisterStays
<1>4. OutcomeStays(r, LDRH(r, m, rd, address))
    <2>1. LDRH(r, m, rd, address) \in
            {Outcome(r, m, Access(address, 2)),
             Outcome(write_register(r, rd, memory_read(m, address, 2)), m, Access(address, 2))}
        BY DEF LDRH
    <2> QED
        BY <1>1, <1>2, <1>3, <2>1 DEF OutcomeStays, Outcome
<1>5. OutcomeStays(r, LDRD(r, m, rd, address))
    <2> DEFINE second == Add(address, FromNat(4))
               first  == write_register(r, rd, memory_read(m, address, 4))
               both   == write_register(first, rd + 1, memory_read(m, second, 4))
               o      == LDRD(r, m, rd, address)
    <2>1. StaysIn(r, first) /\ read_cpsr(first) = read_cpsr(r)
        BY <1>1, WriteRegisterStays
    <2>2. first \in RegisterFile /\ Reach(first) = Reach(r)
        BY <2>1, SameModeSameReach DEF StaysIn
    <2>3. StaysIn(first, both)
        BY <1>1, <2>2, WriteRegisterStays
    <2>4. StaysIn(r, both)
        BY <2>1, <2>2, <2>3 DEF StaysIn
    <2>5. o.regs \in {r, first, both} /\ o.mem = m
        BY DEF LDRD, Outcome
    <2> QED
        BY <1>2, <2>1, <2>4, <2>5 DEF OutcomeStays
<1> QED
    BY <1>4, <1>5

\* Stores keep the registers, and the memory a memory.
LEMMA StoresStay ==
    ASSUME NEW r \in RegisterFile, NEW m \in MemoryContent, NEW address
    PROVE  /\ \A n \in Nat : \A value \in Word : OutcomeStays(r, Store(r, m, address, n, value))
           /\ \A rd : OutcomeStays(r, STRD(r, m, rd, address))
<1>1. StaysIn(r, r)
    BY DEF StaysIn
<1>2. ASSUME NEW mm \in MemoryContent, NEW a, NEW n \in Nat, NEW value \in Word
      PROVE  /\ OutcomeStays(r, Store(r, mm, a, n, value))
             /\ Store(r, mm, a, n, value).mem \in MemoryContent
    BY <1>1, WriteKeepsMemory DEF OutcomeStays, Store, Outcome
<1>3. ASSUME NEW rd
      PROVE  OutcomeStays(r, STRD(r, m, rd, address))
    <2> DEFINE first == Store(r, m, address, 4, arm_read_register(r, rd))
               last  == Store(r, first.mem, Add(address, FromNat(4)), 4, arm_read_register(r, rd + 1))
    <2>1. arm_read_register(r, rd) \in Word /\ arm_read_register(r, rd + 1) \in Word
        BY ReadsAreWords
    <2>2. OutcomeStays(r, first) /\ first.mem \in MemoryContent
        BY <1>2, <2>1
    <2>3. OutcomeStays(r, last)
        BY <1>2, <2>1, <2>2
    <2>4. OutcomeStays(r, Outcome(r, m, 0))
        BY <1>1 DEF OutcomeStays, Outcome
    <2>5. STRD(r, m, rd, address) \in {Outcome(r, m, 0), first, last}
        BY DEF STRD
    <2> HIDE DEF first, last
    <2> QED
        BY <2>2, <2>3, <2>4, <2>5
<1> QED
    BY <1>2, <1>3

\* executeInstr_word_byte stays within reach.
LEMMA WordByteStays ==
    ASSUME NEW r \in RegisterFile, NEW m \in MemoryContent, NEW ins, NEW address,
           NEW junk \in JunkLocals
    PROVE  OutcomeStays(r, executeInstr_word_byte(r, m, ins, address, junk))
<1> DEFINE value  == arm_read_register(r, Rd(ins))
           n      == IF get_bit(ins, 22) THEN 1 ELSE 4
           stored == IF condition_passed(r, ins) THEN Store(r, m, address, n, value)
                                                 ELSE Outcome(r, m, 0)
           status == IF stored.result = SEGV THEN SEGV ELSE 0
<1>1. OutcomeStays(r, LDRB(r, m, address)) /\ OutcomeStays(r, LDR(r, m, Rd(ins), address, junk))
    BY LoadsStay
<1>2. OutcomeStays(r, stored)
    <2>1. value \in Word
        BY ReadsAreWords
    <2>2. OutcomeStays(r, Store(r, m, address, n, value))
        BY <2>1, StoresStay
    <2>3. OutcomeStays(r, Outcome(r, m, 0))
        BY DEF OutcomeStays, Outcome, StaysIn
    <2> QED
        BY <2>2, <2>3
<1>3. /\ [stored EXCEPT !.result = status].regs = stored.regs
      /\ [stored EXCEPT !.result = status].mem = stored.mem
    BY DEF Store, Outcome
<1>4. OutcomeStays(r, [stored EXCEPT !.result = status])
    BY <1>2, <1>3 DEF OutcomeStays
<1>5. executeInstr_word_byte(r, m, ins, address, junk) \in
        {LDRB(r, m, address), LDR(r, m, Rd(ins), address, junk), stored,
         [stored EXCEPT !.result = status]}
    BY DEF executeInstr_word_byte
<1> HIDE DEF stored, status
<1> QED
    BY <1>1, <1>2, <1>4, <1>5

\* executeInstr_miscellaneous stays within reach.
LEMMA ExtraTransfersStay ==
    ASSUME NEW r \in RegisterFile, NEW m \in MemoryContent, NEW ins, NEW address
    PROVE  OutcomeStays(r, executeInstr_miscellaneous(r, m, ins, address))
<1>1. \A result : OutcomeStays(r, Outcome(r, m, result))
    BY DEF OutcomeStays, Outcome, StaysIn
<1>2. OutcomeStays(r, Store(r, m, address, 2, arm_read_register(r, Rd(ins))))
    BY ReadsAreWords, StoresStay
<1>3. OutcomeStays(r, STRD(r, m, Rd(ins), address))
    BY StoresStay
<1>4. /\ OutcomeStays(r, LDRD(r, m, Rd(ins), address))
      /\ OutcomeStays(r, LDRH(r, m, Rd(ins), address))
    BY LoadDoubleAndHalfStay
<1>5. executeInstr_miscellaneous(r, m, ins, address) \in
        {Outcome(r, m, 0), Outcome(r, m, UNDEFINED_INSTRUCTION),
         Store(r, m, address, 2, arm_read_register(r, Rd(ins))),
         STRD(r, m, Rd(ins), address),
         LDRD(r, m, Rd(ins), address), LDRH(r, m, Rd(ins), address)}
    BY DEF executeInstr_miscellaneous
<1> QED
    BY <1>1, <1>2, <1>3, <1>4, <1>5

\* Several registers written at once, each in the slot of the mode of r.
LEMMA WriteRegistersStays ==
    ASSUME NEW r \in RegisterFile, NEW set \in SUBSET (0..15),
           NEW values, \A i \in set : values[i] \in Word
    PROVE  /\ StaysIn(r, write_registers(r, set, values))
           /\ read_cpsr(write_registers(r, set, values)) = read_cpsr(r)
<1> DEFINE writers(slot) == {i \in set : Slot(r, i) = slot}
           last(slot) == CHOOSE i \in writers(slot) : \A j \in writers(slot) : j <= i
           s == write_registers(r, set, values)
<1>1. \A slot \in Slots : s[slot] = IF writers(slot) = {} THEN r[slot] ELSE values[last(slot)]
    BY DEF write_registers
<1>2. ASSUME NEW slot \in Slots, writers(slot) # {}
      PROVE  last(slot) \in writers(slot)
    <2>1. writers(slot) \in SUBSET (0..15)
        OBVIOUS
    <2>2. \E i \in writers(slot) : \A j \in writers(slot) : j <= i
        BY <1>2, <2>1, LargestRegister
    <2> QED
        BY <2>2
<1>3. \A slot \in Slots : s[slot] \in Word
    BY <1>1, <1>2 DEF RegisterFile
<1>4. s \in RegisterFile
    BY <1>3 DEF write_registers, RegisterFile
<1>5. \A slot \in Slots \ Reach(r) : writers(slot) = {}
    BY SlotInReach
<1>6. writers(CPSR) = {} /\ CPSR \in Slots
    <2>1. \A i \in set : Slot(r, i) # CPSR
        BY SlotInReach
    <2>2. CPSR \in Slots
        BY DEF CPSR, Slots, NB_REGISTER
    <2> QED
        BY <2>1, <2>2
<1>7. \A slot \in Slots \ Reach(r) : s[slot] = r[slot]
    BY <1>1, <1>5
<1> HIDE DEF s
<1>8. StaysIn(r, s)
    BY <1>4, <1>7 DEF StaysIn
<1>9. read_cpsr(s) = read_cpsr(r)
    BY <1>1, <1>6 DEF read_cpsr
<1> QED
    BY <1>8, <1>9 DEF s

\* The list of an ldm or stm names registers 0 to 15.
LEMMA RegisterListInRange ==
    ASSUME NEW ins \in Word
    PROVE  RegisterList(ins) \in SUBSET (0..15)
BY GetBitsInField DEF RegisterList

\* An ldm stays within reach, also when it fails midway.
LEMMA LoadMultipleStays ==
    ASSUME NEW r \in RegisterFile, NEW m \in MemoryContent, NEW list \in SUBSET (0..15),
           NEW start, NEW junk \in JunkLocals
    PROVE  OutcomeStays(r, LDM(r, m, list, start, junk))
<1> DEFINE done   == Transferred(start, list)
           word   == [i \in list |-> memory_read(m, TransferAddress(start, list, i), 4)]
           loaded == write_registers(r, done \ {PC}, word)
           last   == IF done = {} THEN junk.word ELSE word[CHOOSE i \in done : \A j \in done : j <= i]
           o      == LDM(r, m, list, start, junk)
<1>1. done \in SUBSET list /\ done \in SUBSET (0..15)
    BY DEF Transferred
<1>2. \A i \in done : word[i] \in Word
    BY <1>1, ReadIsWord
<1>3. last \in Word
    <2>1. CASE done = {}
        BY <2>1, ArmCoreAssumption DEF JunkLocals
    <2>2. CASE done # {}
        <3>1. \E i \in done : \A j \in done : j <= i
            BY <1>1, <2>2, LargestRegister
        <3>2. (CHOOSE i \in done : \A j \in done : j <= i) \in done
            BY <3>1
        <3> QED
            BY <1>2, <2>2, <3>2
    <2> QED
        BY <2>1, <2>2
<1> HIDE DEF word, done
<1>4. StaysIn(r, loaded)
    <2>1. done \ {PC} \in SUBSET (0..15) /\ \A i \in done \ {PC} : word[i] \in Word
        BY <1>1, <1>2
    <2> QED
        BY <2>1, WriteRegistersStays
<1> HIDE DEF last, loaded
<1>5. StaysIn(r, LoadPc(loaded, last))
    <2>1. loaded \in RegisterFile
        BY <1>4 DEF StaysIn
    <2> QED
        BY <1>3, <1>4, <2>1, LoadPcStays, StaysThenCommon
<1>6. o.regs \in {loaded, LoadPc(loaded, last)} /\ o.mem = m
    BY DEF LDM, Outcome, loaded, last, done, word
<1> HIDE DEF o
<1> QED
    BY <1>4, <1>5, <1>6 DEF OutcomeStays, o

\* An stm keeps the registers, and the memory a memory, also when it fails midway.
LEMMA StoreMultipleStays ==
    ASSUME NEW r \in RegisterFile, NEW m \in MemoryContent, NEW list, NEW start
    PROVE  OutcomeStays(r, STM(r, m, list, start))
<1> DEFINE bytesOf(i) == BytesOf(TransferAddress(start, list, i), 4, arm_read_register(r, i))
           bytes == UNION {bytesOf(i) : i \in Transferred(start, list)}
<1>1. ASSUME NEW i
      PROVE  \A b \in bytesOf(i) : b[2] \in Byte
    BY ReadsAreWords, BytesOfAreBytes
<1> HIDE DEF bytesOf
<1>2. \A b \in bytes : b[2] \in Byte
    BY <1>1
<1> HIDE DEF bytes
<1>3. StoreBytes(m, bytes) \in MemoryContent
    BY <1>2, StoreBytesKeepsMemory
<1>4. STM(r, m, list, start) = Outcome(r, StoreBytes(m, bytes), MultipleResult(start, list))
    BY DEF STM, bytes, bytesOf
<1> QED
    BY <1>3, <1>4 DEF OutcomeStays, StaysIn, Outcome

\* Both entry points of arm_load_store.c stay within reach.
LEMMA LoadStoreStays ==
    ASSUME NEW r \in RegisterFile, NEW m \in MemoryContent, NEW ins \in Word,
           NEW junk \in JunkLocals
    PROVE  /\ OutcomeStays(r, arm_load_store(r, m, ins, junk))
           /\ OutcomeStays(r, arm_load_store_multiple(r, m, ins, junk))
<1>1. OutcomeStays(r, arm_load_store(r, m, ins, junk))
    <2>1. \A address : OutcomeStays(r, executeInstr_word_byte(r, m, ins, address, junk))
        BY WordByteStays
    <2>2. \A address : OutcomeStays(r, executeInstr_miscellaneous(r, m, ins, address))
        BY ExtraTransfersStay
    <2>3. OutcomeStays(r, Outcome(r, m, 0))
        BY DEF OutcomeStays, Outcome, StaysIn
    <2> QED
        BY <2>1, <2>2, <2>3 DEF arm_load_store
<1>2. OutcomeStays(r, arm_load_store_multiple(r, m, ins, junk))
    BY RegisterListInRange, LoadMultipleStays, StoreMultipleStays DEF arm_load_store_multiple
<1> QED
    BY <1>1, <1>2

---------------------------------------------------------------------------
(* A whole instruction.                                                    *)

\* Whatever decoder an instruction goes to, it stays within reach.
LEMMA DispatchStays ==
    ASSUME NEW r \in RegisterFile, NEW m \in MemoryContent, NEW ins \in Word,
           NEW junk \in JunkLocals
    PROVE  OutcomeStays(r, Dispatch(r, m, ins, junk))
<1>1. \A s, result : StaysIn(r, s) => OutcomeStays(r, Outcome(s, m, result))
    BY DEF OutcomeStays, Outcome
<1>2. StaysIn(r, r)
    BY DEF StaysIn
<1>3. /\ StaysIn(r, arm_miscellaneous(r, ins))
      /\ StaysIn(r, arm_data_processing_shift(r, ins))
      /\ StaysIn(r, arm_data_processing_immediate_msr(r, ins))
      /\ StaysIn(r, arm_branch(r, ins))
    BY MiscellaneousStays, DataProcessingStays, BranchStays
<1>4. /\ OutcomeStays(r, arm_load_store(r, m, ins, junk))
      /\ OutcomeStays(r, arm_load_store_multiple(r, m, ins, junk))
    BY LoadStoreStays
<1>5. Dispatch(r, m, ins, junk) \in
        {Outcome(arm_miscellaneous(r, ins), m, 0),
         Outcome(arm_data_processing_shift(r, ins), m, 0),
         Outcome(arm_data_processing_immediate_msr(r, ins), m, 0),
         arm_load_store(r, m, ins, junk),
         arm_load_store_multiple(r, m, ins, junk),
         Outcome(arm_branch(r, ins), m, 0),
         Outcome(r, m, UNDEFINED_INSTRUCTION),
         Outcome(r, m, arm_coprocessor_others_swi(ins))}
    BY DEF Dispatch
<1> QED
    BY <1>1, <1>2, <1>3, <1>4, <1>5

\* So does an instruction whose condition has been decided.
LEMMA ExecuteStays ==
    ASSUME NEW r \in RegisterFile, NEW m \in MemoryContent, NEW ins \in Word,
           NEW junk \in JunkLocals
    PROVE  OutcomeStays(r, Execute(r, m, ins, junk))
<1>1. OutcomeStays(r, Dispatch(r, m, ins, junk))
    BY DispatchStays
<1>2. \A result : OutcomeStays(r, Outcome(r, m, result))
    BY DEF OutcomeStays, Outcome, StaysIn
<1>3. Execute(r, m, ins, junk) \in
        {Outcome(r, m, UNDEFINED_INSTRUCTION), Dispatch(r, m, ins, junk), Outcome(r, m, 0)}
    BY DEF Execute
<1> QED
    BY <1>1, <1>2, <1>3

\* So does arm_execute_instruction, the fetch included.
LEMMA InstructionStays ==
    ASSUME NEW r \in RegisterFile, NEW m \in MemoryContent, NEW ins \in Word,
           NEW junk \in JunkLocals
    PROVE  OutcomeStays(r, arm_execute_instruction(r, m, ins, junk))
<1> DEFINE f == AfterFetch(r)
<1>1. /\ f \in RegisterFile
      /\ \A slot \in Slots \ CommonSlots : f[slot] = r[slot]
      /\ read_cpsr(f) = read_cpsr(r)
    BY SumsAreWords, WritePcStays DEF AfterFetch
<1> HIDE DEF f
<1>2. Reach(f) = Reach(r)
    BY <1>1, SameModeSameReach
<1>3. ASSUME NEW o, OutcomeStays(f, o)
      PROVE  OutcomeStays(r, o)
    BY <1>1, <1>2, <1>3 DEF OutcomeStays, StaysIn, Reach
<1>4. OutcomeStays(f, Execute(f, m, ins, junk))
    BY <1>1, ExecuteStays
<1>5. OutcomeStays(f, Outcome(f, m, PREFETCH_ABORT))
    BY <1>1 DEF OutcomeStays, Outcome, StaysIn
<1>6. OutcomeStays(r, Outcome(r, m, SEGV))
    BY DEF OutcomeStays, Outcome, StaysIn
<1>7. arm_execute_instruction(r, m, ins, junk) \in
        {Outcome(f, m, PREFETCH_ABORT), Outcome(r, m, SEGV), Execute(f, m, ins, junk)}
    BY DEF arm_execute_instruction, f
<1> QED
    BY <1>3, <1>4, <1>5, <1>6, <1>7

---------------------------------------------------------------------------
(* Exception entry.                                                        *)

\* s differs from r in the sp and lr of the mode of s and in common slots.
Enters(r, s) ==
    /\ s \in RegisterFile
    /\ \A slot \in Slots \ (EntryBank(get_mode(s)) \cup CommonSlots) : s[slot] = r[slot]

\* sp and lr of the mode an exception enters are in the bank of that handler.
LEMMA EntryModeSlots ==
    ASSUME NEW exception \in Exceptions, NEW reg \in {SP, LR}
    PROVE  /\ 4 \in EntryMode(exception)
           /\ ModeSlot(EntryMode(exception), reg) \in EntryBank(EntryMode(exception))
<1>1. EntryMode(exception) \in {SVC, ABT, UND, IRQ} \/ EntryMode(exception) = FIQ
    BY DEF EntryMode, Exceptions, RESET, UNDEFINED_INSTRUCTION, SOFTWARE_INTERRUPT,
           PREFETCH_ABORT, DATA_ABORT, INTERRUPT, FAST_INTERRUPT
<1>2. CASE EntryMode(exception) \in {SVC, ABT, UND, IRQ}
    <2>1. ModeSlot(EntryMode(exception), reg) = R13_IRQ + (reg - 13)
        BY <1>2, ModesDiffer DEF ModeSlot, SP, LR
    <2>2. EntryBank(EntryMode(exception)) = {26, 27}
        BY <1>2, ModesDiffer DEF EntryBank
    <2>3. 4 \in EntryMode(exception)
        BY <1>2 DEF SVC, ABT, UND, IRQ
    <2> QED
        BY <2>1, <2>2, <2>3 DEF R13_IRQ, SP, LR
<1>3. CASE EntryMode(exception) = FIQ
    <2>1. ModeSlot(EntryMode(exception), reg) = R8_FIQ + (reg - 8)
        BY <1>3, ModesDiffer DEF ModeSlot, SP, LR
    <2>2. EntryBank(EntryMode(exception)) = {34, 35}
        BY <1>3, ModesDiffer DEF EntryBank
    <2>3. 4 \in EntryMode(exception)
        BY <1>3 DEF FIQ
    <2> QED
        BY <2>1, <2>2, <2>3 DEF R8_FIQ, SP, LR
<1> QED
    BY <1>1, <1>2, <1>3

\* The new CPSR is a word whose mode bits are the mode of the exception.
LEMMA ExceptionCpsrMode ==
    ASSUME NEW cpsr \in Word, NEW exception \in Exceptions
    PROVE  /\ ExceptionCpsr(cpsr, exception) \in Word
           /\ ExceptionCpsr(cpsr, exception) \cap ModeBits = EntryMode(exception)
<1>1. EntryMode(exception) \in {SVC, ABT, UND, IRQ, FIQ}
    BY DEF EntryMode, Exceptions, RESET, UNDEFINED_INSTRUCTION, SOFTWARE_INTERRUPT,
           PREFETCH_ABORT, DATA_ABORT, INTERRUPT, FAST_INTERRUPT
<1>2. EntryMode(exception) \subseteq 0..4
    BY <1>1 DEF SVC, ABT, UND, IRQ, FIQ
<1>3. MaskBits(exception) \subseteq {6, 7}
    BY DEF MaskBits
<1>4. set_bits(cpsr, 4, 0, EntryMode(exception)) =
        {b \in cpsr : b > 4} \cup EntryMode(exception)
    <2>1. \A b \in cpsr : b \in 0..31
        BY WordWidth DEF Word
    <2>2. {b \in cpsr : b < 0 \/ b > 4} = {b \in cpsr : b > 4}
        BY <2>1
    <2>3. {b + 0 : b \in EntryMode(exception)} \cap Bits = EntryMode(exception)
        BY <1>2, WordWidth
    <2> QED
        BY <2>2, <2>3 DEF set_bits
<1>5. ExceptionCpsr(cpsr, exception) =
        (({b \in cpsr : b > 4} \cup EntryMode(exception)) \ {5, 9}) \cup MaskBits(exception)
    BY <1>4 DEF ExceptionCpsr
<1>6. ExceptionCpsr(cpsr, exception) \in Word
    <2>1. cpsr \subseteq 0..31 /\ EntryMode(exception) \subseteq 0..31
        BY <1>2, WordWidth DEF Word
    <2>2. MaskBits(exception) \subseteq 0..31
        BY <1>3
    <2> QED
        BY <1>5, <2>1, <2>2, WordWidth DEF Word
<1>7. ExceptionCpsr(cpsr, exception) \cap ModeBits = EntryMode(exception)
    BY <1>2, <1>3, <1>5, WordWidth DEF ModeBits, Word
<1> QED
    BY <1>6, <1>7

\* The address of a vector is a word.
LEMMA VectorIsWord ==
    ASSUME NEW exception \in Exceptions
    PROVE  Vector(exception) \in Word
BY WordWidth DEF Vector, Word, Exceptions, RESET, UNDEFINED_INSTRUCTION, SOFTWARE_INTERRUPT,
       PREFETCH_ABORT, DATA_ABORT, INTERRUPT, FAST_INTERRUPT

\* execute_, write by write: once the CPSR holds the new mode, sp and lr are
\* written in the handler's bank.
LEMMA ExecuteEnters ==
    ASSUME NEW r \in RegisterFile, NEW exception \in Exceptions
    PROVE  Enters(r, execute_(r, exception))
<1> DEFINE mode == EntryMode(exception)
           cpsr == read_cpsr(r)
           sp   == arm_read_register(r, SP)
           addr == ReturnAddress(r, exception)
           inMode  == EntryCpsr(r, exception)
           withSp  == EntrySp(inMode, sp)
           stacked == EntryLr(withSp, addr)
           saved   == EntrySpsr(stacked, exception, cpsr)
           final   == branch_exception_vector(saved, exception)
           bank    == EntryBank(mode) \cup CommonSlots
<1>1. cpsr \in Word /\ sp \in Word /\ addr \in Word
    BY ReadsAreWords, SumsAreWords DEF ReturnAddress
<1>2. Vector(exception) \in Word
    BY VectorIsWord
<1> HIDE DEF cpsr, sp, addr
<1>3. /\ inMode \in RegisterFile
      /\ \A slot \in Slots \ CommonSlots : inMode[slot] = r[slot]
      /\ get_mode(inMode) = mode
    <2>1. /\ ExceptionCpsr(cpsr, exception) \in Word
          /\ ExceptionCpsr(cpsr, exception) \cap ModeBits = mode
        BY <1>1, ExceptionCpsrMode
    <2>2. read_cpsr(inMode) = ExceptionCpsr(cpsr, exception)
        BY <2>1, WriteCpsrStays DEF EntryCpsr, cpsr
    <2> QED
        BY <2>1, <2>2, WriteCpsrStays DEF EntryCpsr, cpsr, get_mode, read_cpsr
\* A write of sp or lr in the new mode stays in the bank of its handler.
<1>4. ASSUME NEW s \in RegisterFile, get_mode(s) = mode, NEW reg \in {SP, LR}, NEW value \in Word
      PROVE  /\ write_register(s, reg, value) \in RegisterFile
             /\ \A slot \in Slots \ bank : write_register(s, reg, value)[slot] = s[slot]
             /\ get_mode(write_register(s, reg, value)) = mode
    <2>1. reg \in 0..15
        BY DEF SP, LR
    <2>2. Slot(s, reg) \in EntryBank(mode)
        BY <1>4, EntryModeSlots DEF Slot
    <2>3. write_register(s, reg, value) = [s EXCEPT ![Slot(s, reg)] = value]
        BY <2>1 DEF write_register, is_valid
    <2>4. /\ write_register(s, reg, value) \in RegisterFile
          /\ read_cpsr(write_register(s, reg, value)) = read_cpsr(s)
        BY WriteRegisterStays DEF StaysIn
    <2> QED
        BY <1>4, <2>2, <2>3, <2>4 DEF RegisterFile, get_mode, read_cpsr
<1> HIDE DEF inMode, mode
<1>5. /\ withSp \in RegisterFile
      /\ \A slot \in Slots \ bank : withSp[slot] = r[slot]
      /\ get_mode(withSp) = mode
    BY <1>1, <1>3, <1>4 DEF EntrySp, SP
<1> HIDE DEF withSp
<1>6. /\ stacked \in RegisterFile
      /\ \A slot \in Slots \ bank : stacked[slot] = r[slot]
      /\ get_mode(stacked) = mode
    BY <1>1, <1>4, <1>5 DEF EntryLr, LR
<1> HIDE DEF stacked
<1>7. /\ saved \in RegisterFile
      /\ \A slot \in Slots \ bank : saved[slot] = r[slot]
      /\ get_mode(saved) = mode
    BY <1>1, <1>6, WriteSpsrStays DEF EntrySpsr, get_mode, read_cpsr
<1> HIDE DEF saved
<1>8. /\ final \in RegisterFile
      /\ \A slot \in Slots \ bank : final[slot] = r[slot]
      /\ get_mode(final) = mode
    BY <1>2, <1>7, WritePcStays DEF branch_exception_vector, get_mode, read_cpsr
<1>9. execute_(r, exception) = final
    BY DEF execute_, final, saved, stacked, withSp, inMode, cpsr, sp, addr
<1> HIDE DEF final
<1> QED
    BY <1>8, <1>9 DEF Enters

\* arm_exception, for any code it is handed.
LEMMA ExceptionEnters ==
    ASSUME NEW r \in RegisterFile, NEW exception
    PROVE  Enters(r, arm_exception(r, exception))
<1>1. Enters(r, r)
    BY DEF Enters
<1> QED
    BY <1>1, ExecuteEnters DEF arm_exception

---------------------------------------------------------------------------
(* The creation, the cycle counter and the packets.                       *)

\* A created core is well typed, whatever malloc returned.
LEMMA CreateTyped ==
    ASSUME NEW garbage \in InitialFiles
    PROVE  arm_create(garbage) \in RegisterFile
<1>1. garbage \in RegisterFile
    BY ArmCoreAssumption
<1>2. set_bits(read_cpsr(garbage), 4, 0, USR) \in Word
    BY <1>1, ReadsAreWords, FieldsAreWords
<1>3. registers_create(garbage) \in RegisterFile
    BY <1>1, <1>2, WriteCpsrStays DEF registers_create
<1> QED
    BY <1>3, ExceptionEnters DEF arm_create, Enters

\* The cycle counter stays within its bound, wrapped or not.
LEMMA CounterInBound ==
    ASSUME NEW c \in 0..MaxCycles, c < MaxCycles
    PROVE  (c + 1) % CycleWrap \in 0..MaxCycles
<1>1. c + 1 \in Nat /\ CycleWrap \in Nat \ {0} /\ MaxCycles \in Nat
    BY ArmCoreAssumption
<1>2. \A a \in Nat : \A b \in Nat \ {0} : a % b \in 0..a
    OBVIOUS
<1>3. (c + 1) % CycleWrap \in 0..(c + 1)
    BY <1>1, <1>2
<1> QED
    BY <1>1, <1>3

\* What an X packet makes of a memory is a memory.
LEMMA MemoryWrittenTyped ==
    ASSUME NEW m \in MemoryContent, NEW p \in MemoryWrites
    PROVE  MemoryWritten(m, p) \in MemoryContent
<1> DEFINE bytes == {<<ByteAddress(p[1], i - 1), p[2][i]>> :
                        i \in {j \in 1..Len(p[2]) :
                                \A k \in 0..(j - 1) : ByteAddress(p[1], k) \in MemAddress}}
<1>1. p[2] \in Seq(Byte)
    BY ArmCoreAssumption
<1>2. \A i \in 1..Len(p[2]) : p[2][i] \in Byte
    BY <1>1
<1>3. \A b \in bytes : b[2] \in Byte
    BY <1>2
<1>4. MemoryWritten(m, p) = StoreBytes(m, bytes)
    BY DEF MemoryWritten
<1> HIDE DEF bytes
<1> QED
    BY <1>3, <1>4, StoreBytesKeepsMemory

---------------------------------------------------------------------------
(* The registers of a mode with a bank of its own.                         *)

\* Its sixteen registers have sixteen slots.
LEMMA SlotsDiffer ==
    ASSUME NEW mode \in NamedModes, NEW i \in 0..15, NEW j \in 0..15,
           ModeSlot(mode, i) = ModeSlot(mode, j)
    PROVE  i = j
<1>1. CASE mode \in {USR, SYS}
  BY <1>1, ModesDiffer DEF ModeSlot
<1>2. CASE mode \in {SVC, ABT, UND, IRQ}
  <2>1. \A k : ModeSlot(mode, k) = IF k <= 12 \/ k >= 15 THEN k ELSE R13_IRQ + (k - 13)
    BY <1>2, ModesDiffer DEF ModeSlot
  <2> QED BY <2>1 DEF R13_IRQ
<1>3. CASE mode = FIQ
  <2>1. \A k : ModeSlot(mode, k) = IF k <= 7 \/ k >= 15 THEN k ELSE R8_FIQ + (k - 8)
    BY <1>3, ModesDiffer DEF ModeSlot
  <2> QED BY <2>1 DEF R8_FIQ
<1> QED BY <1>1, <1>2, <1>3 DEF NamedModes

LEMMA SlotsOfNamed ==
    ASSUME NEW r, get_mode(r) \in NamedModes
    PROVE  \A i : Slot(r, i) = ModeSlot(get_mode(r), i)
<1>1. 4 \in get_mode(r)
  BY DEF NamedModes, USR, FIQ, IRQ, SVC, ABT, UND, SYS
<1> QED BY <1>1 DEF Slot

\* A register written is read back, and the others are kept.
LEMMA WrittenIsRead ==
    ASSUME NEW r \in RegisterFile, get_mode(r) \in NamedModes, NEW reg \in 0..15, NEW v \in Word
    PROVE  \A i \in 0..15 :
                read_register(write_register(r, reg, v), i)
                    = IF i = reg THEN v ELSE read_register(r, i)
<1> DEFINE w == write_register(r, reg, v)
<1>1. w = [r EXCEPT ![Slot(r, reg)] = v]
  BY DEF write_register, is_valid
<1>2. \A i \in 0..15 : Slot(r, i) \in Slots \ {CPSR}
  BY SlotInReach
<1>3. \A i : Slot(w, i) = Slot(r, i)
  BY WriteRegisterStays DEF Slot, get_mode, read_cpsr
<1>4. \A i, j \in 0..15 : Slot(r, i) = Slot(r, j) => i = j
  BY SlotsOfNamed, SlotsDiffer
<1>5. \A i \in 0..15 : read_register(w, i) = w[Slot(r, i)] /\ read_register(r, i) = r[Slot(r, i)]
  BY <1>3 DEF read_register, is_valid
<1>6. \A s \in Slots : w[s] = IF s = Slot(r, reg) THEN v ELSE r[s]
  BY <1>1, <1>2 DEF RegisterFile
<1> QED BY <1>2, <1>4, <1>5, <1>6

\* So are several of them.
LEMMA WrittenAreRead ==
    ASSUME NEW r \in RegisterFile, get_mode(r) \in NamedModes, NEW set \in SUBSET (0..15),
           NEW values, \A i \in set : values[i] \in Word
    PROVE  \A i \in 0..15 :
                read_register(write_registers(r, set, values), i)
                    = IF i \in set THEN values[i] ELSE read_register(r, i)
<1> DEFINE w == write_registers(r, set, values)
           writers(slot) == {k \in set : Slot(r, k) = slot}
           last(slot) == CHOOSE k \in writers(slot) : \A j \in writers(slot) : j <= k
<1>1. \A slot \in Slots : w[slot] = IF writers(slot) = {} THEN r[slot] ELSE values[last(slot)]
  BY DEF write_registers
<1>2. \A i \in 0..15 : Slot(r, i) \in Slots
  BY SlotInReach
<1>3. \A i : Slot(w, i) = Slot(r, i)
  BY WriteRegistersStays DEF Slot, get_mode, read_cpsr
<1>4. \A i, j \in 0..15 : Slot(r, i) = Slot(r, j) => i = j
  BY SlotsOfNamed, SlotsDiffer
<1>5. ASSUME NEW i \in 0..15
      PROVE  w[Slot(r, i)] = IF i \in set THEN values[i] ELSE r[Slot(r, i)]
  <2>1. writers(Slot(r, i)) = IF i \in set THEN {i} ELSE {}
    BY <1>4
  <2>2. CASE i \in set
    <3>1. writers(Slot(r, i)) = {i}
      BY <2>1, <2>2
    <3>2. last(Slot(r, i)) = i
      <4>1. \A k \in {i} : k = i /\ \A j \in {i} : j <= k
        OBVIOUS
      <4> HIDE DEF writers
      <4>2. (CHOOSE k \in {i} : \A j \in {i} : j <= k) = i
        BY <4>1
      <4> QED BY <3>1, <4>2
    <3> HIDE DEF writers, last, w
    <3> QED BY <1>1, <1>2, <2>2, <3>1, <3>2
  <2>3. CASE i \notin set
    <3>1. writers(Slot(r, i)) = {}
      BY <2>1, <2>3
    <3> HIDE DEF writers, last, w
    <3> QED BY <1>1, <1>2, <2>3, <3>1
  <2> QED BY <2>2, <2>3
<1>6. \A i \in 0..15 : read_register(w, i) = w[Slot(r, i)] /\ read_register(r, i) = r[Slot(r, i)]
  BY <1>3 DEF read_register, is_valid
<1> QED BY <1>5, <1>6

---------------------------------------------------------------------------
(* Adding and subtracting 4.                                                *)

\* The number 4 as a word.
LEMMA Four == FromNat(4) = {2} /\ {2} \in Word
<1> DEFINE F == {i \in 0..10 : (4 \div 2^i) % 2 = 1}
<1>1. F = {2}
  <2>1. 0 \notin F /\ 1 \notin F /\ 3 \notin F /\ 4 \notin F
    <3>1. 2^0 = 1 /\ 2^1 = 2 /\ 2^3 = 8 /\ 2^4 = 16
      OBVIOUS
    <3>2. (4 \div 1) % 2 = 0 /\ (4 \div 2) % 2 = 0 /\ (4 \div 8) % 2 = 0 /\ (4 \div 16) % 2 = 0
      OBVIOUS
    <3> QED BY <3>1, <3>2
  <2>2. 5 \notin F /\ 6 \notin F /\ 7 \notin F /\ 8 \notin F /\ 9 \notin F /\ 10 \notin F
    <3>1. 2^5 = 32 /\ 2^6 = 64 /\ 2^7 = 128 /\ 2^8 = 256 /\ 2^9 = 512 /\ 2^10 = 1024
      OBVIOUS
    <3>2. \A k \in {32, 64, 128, 256, 512, 1024} : (4 \div k) % 2 = 0
      OBVIOUS
    <3> QED BY <3>1, <3>2
  <2>3. 2 \in F
    <3>1. 2^2 = 4 /\ (4 \div 4) % 2 = 1
      OBVIOUS
    <3> QED BY <3>1
  <2>4. F \subseteq 0..10
    OBVIOUS
  <2> HIDE DEF F
  <2>5. ASSUME NEW i \in F PROVE i = 2
    <3>1. i \in {0, 1, 3, 4} \cup {5, 6, 7, 8, 9, 10} \cup {2}
      BY <2>4
    <3> QED BY <2>1, <2>2, <3>1
  <2> QED BY <2>3, <2>5
<1>2. (0..10) \cap Bits = 0..10
  BY WordWidth
<1> QED BY <1>1, <1>2, WordWidth DEF FromNat, Word

\* Subtracting 4 and adding it again gives every word back, also around 0.
LEMMA AddBack ==
    ASSUME NEW x \in Word
    PROVE  Add(Sub(x, {2}), {2}) = x
<1> DEFINE B == Borrows(x, {2})
           d == Sub(x, {2})
           K == Carries(d, {2}, FALSE)
<1>1. x \subseteq 0..31 /\ Bits = 0..31 /\ WordBits = 32
  BY WordWidth DEF Word
<1>2. \A i \in 0..31 : i \in d <=> ((i \in x) # (i = 2)) # (i \in B)
  BY <1>1 DEF Sub
<1> DEFINE sum == Add(d, {2})
<1>3. sum \subseteq 0..31 /\ \A i \in 0..31 : i \in sum <=> ((i \in d) # (i = 2)) # (i \in K)
  <2>1. sum = {i \in Bits : ((i \in d) # (i \in {2})) # (i \in K)}
    BY Zenon DEF Add, AddCarry
  <2> HIDE DEF sum, d, K
  <2> QED BY <1>1, <2>1
<1> HIDE DEF sum
<1>4. CASE 2 \in x
  <2>1. B = {}
    BY <1>4 DEF Borrows
  <2> HIDE DEF B, d
  <2>2. 2 \notin d
    BY <1>2, <1>4, <2>1
  <2>3. K = {}
    BY <2>2 DEF Carries
  <2> HIDE DEF K
  <2>4. \A i \in 0..31 : i \in sum <=> i \in x
    BY <1>2, <1>3, <2>1, <2>3
  <2> QED BY <1>1, <1>3, <2>4 DEF sum, d
<1>5. CASE 2 \notin x
  <2>1. \A i \in 0..32 : i \in B <=> 2 < i /\ (3..(i - 1)) \cap x = {}
    BY <1>1, <1>5 DEF Borrows
  <2>2. 2 \notin B /\ 2 \in d
    BY <1>2, <1>5, <2>1
  <2>3. \A i \in 0..32 : i \in K <=> 2 < i /\ (3..(i - 1)) \subseteq d
    <3>1. d \cap {2} = {2}
      BY <2>2
    <3>2. ASSUME NEW i \in 0..32
          PROVE (3..(i - 1)) \subseteq (d \ {2}) \cup ({2} \ d) <=> (3..(i - 1)) \subseteq d
      BY <2>2
    <3> HIDE DEF d
    <3> QED BY <1>1, <3>1, <3>2 DEF Carries
  <2> HIDE DEF B, K, d
  <2>4. ASSUME NEW i \in 3..32, (3..(i - 1)) \cap x = {}
        PROVE  (3..(i - 1)) \subseteq d
    <3> SUFFICES ASSUME NEW j \in 3..(i - 1) PROVE j \in d
      OBVIOUS
    <3>1. j \notin x /\ (3..(j - 1)) \cap x = {} /\ j \in 0..31 /\ j # 2
      BY <2>4
    <3>2. j \in B
      BY <2>1, <3>1
    <3> QED BY <1>2, <3>1, <3>2
  <2>5. ASSUME NEW i \in 3..32, (3..(i - 1)) \subseteq d
        PROVE  (3..(i - 1)) \cap x = {}
    <3> SUFFICES ASSUME (3..(i - 1)) \cap x # {} PROVE FALSE
      OBVIOUS
    <3> DEFINE S == (3..(i - 1)) \cap x
               R == OpToRel(<, Nat)
    <3>1. IsWellFoundedOn(R, Nat) /\ S \in SUBSET Nat /\ S # {}
      <4>1. IsWellFoundedOn(R, Nat)
        BY NatLessThanWellFounded
      <4>2. 3..(i - 1) \subseteq Nat
        OBVIOUS
      <4> QED BY <4>1, <4>2
    <3>2. \A a, b \in Nat : <<a, b>> \in R <=> a < b
      BY DEF OpToRel
    <3> HIDE DEF R
    <3>3. \E j \in S : \A k \in S : ~(<<k, j>> \in R)
      <4> HIDE DEF S
      <4> QED BY <3>1, WFMin, Zenon
    <3> PICK j \in S : \A k \in S : ~(<<k, j>> \in R)
      BY <3>3
    <3>4. \A k \in S : ~(k < j)
      <4> HIDE DEF S
      <4> SUFFICES ASSUME NEW k \in S PROVE ~(k < j)
        OBVIOUS
      <4>1. k \in Nat /\ j \in Nat
        BY <3>1
      <4> QED BY <4>1, <3>2, <3>3
    <3>5. j \in 3..(i - 1) /\ j \in x /\ j \in 0..31 /\ j # 2
      BY <3>3
    <3>6. (3..(j - 1)) \cap x = {}
      BY <3>4, <3>5
    <3>7. j \in B
      BY <2>1, <3>5, <3>6
    <3>8. j \notin d
      BY <1>2, <3>5, <3>7
    <3> QED BY <2>5, <3>5, <3>8
  <2>6. \A i \in 0..31 : i \in K <=> i \in B
    <3> TAKE i \in 0..31
    <3>1. CASE i \in 3..31
      <4>1. i \in 3..32 /\ i \in 0..32 /\ 2 < i
        BY <3>1
      <4> QED BY <2>1, <2>3, <2>4, <2>5, <4>1
    <3>2. CASE ~(2 < i)
      <4>1. i \in 0..32
        OBVIOUS
      <4> QED BY <2>1, <2>3, <3>2, <4>1
    <3> QED BY <3>1, <3>2
  <2>7. \A i \in 0..31 : i \in sum <=> i \in x
    <3> TAKE i \in 0..31
    <3>1. i \in sum <=> ((i \in d) # (i = 2)) # (i \in K)
      BY <1>3
    <3>2. i \in d <=> ((i \in x) # (i = 2)) # (i \in B)
      BY <1>2
    <3>3. i \in K <=> i \in B
      BY <2>6
    <3> HIDE DEF B, K, d
    <3> QED BY <3>1, <3>2, <3>3
  <2> QED BY <1>1, <1>3, <2>7 DEF sum, d
<1> QED BY <1>4, <1>5

=============================================================================
