------------------------------ MODULE Transfers ------------------------------
(***************************************************************************)
(* Transfers there and back: a store, other values in its registers, and   *)
(* the load that mirrors it, of a word, of a half word or of a list of     *)
(* registers, at any alignment, inside the memory and across its end.      *)
(***************************************************************************)
EXTENDS CoreOperations, WordNumbers

VARIABLES
    regs, mem,
    before,         \* the registers and the memory before the store
    store,          \* the store
    result,         \* of the last transfer
    stage           \* what comes next, "loaded" or "done" at the end

transferVars == <<regs, mem, before, store, result, stage>>

\* The three forms, as Dispatch and arm_load_store tell them apart.
IsMultiple(ins) == get_bits(ins, 27, 25) = {2}
IsWord(ins) == get_bits(ins, 27, 25) = {1} /\ ~get_bit(ins, 22)
IsHalf(ins) ==
    get_bits(ins, 27, 25) = {} /\ ~IsStatusAccess(ins) /\ get_bits(ins, 7, 4) = {3, 1, 0}

Mirror(ins) == set_bit(ins, 20)

\* The registers that are stored, and those the address comes from.
Rm(ins) == ToNat(get_bits(ins, 3, 0))
Operands(ins) == IF IsMultiple(ins) THEN RegisterList(ins) ELSE {Rd(ins)}
Addressing(ins) == IF IsHalf(ins) THEN {Rn(ins), Rm(ins)} ELSE {Rn(ins)}

\* The stores: not conditional, of registers other than the pc, in a form whose
\* address is defined, in a mode with a bank of its own.
ASSUME TransfersAssumption ==
    /\ \A ins \in Program :
        /\ get_bits(ins, 31, 28) = AL
        /\ ~get_bit(ins, 20)
        /\ IsMultiple(ins) \/ IsWord(ins) \/ IsHalf(ins)
        /\ IsWord(ins) => P_bit(ins) \/ ~W_bit(ins)
        /\ Operands(ins) # {} /\ PC \notin Operands(ins)
    /\ \A r \in InitialFiles : get_mode(r) \in NamedModes

TransferInit ==
    /\ regs \in InitialFiles
    /\ mem \in InitialMemories
    /\ before = [regs |-> regs, mem |-> mem]
    /\ store \in Program
    /\ result = 0
    /\ stage = "store"

Transfer(ins) ==
    \E junk \in JunkLocals :
        \E done \in {Execute(regs, mem, ins, junk)} :
            regs' = done.regs /\ mem' = done.mem /\ result' = done.result

RunStore ==
    /\ stage = "store"
    /\ Transfer(store)
    /\ stage' = IF result' = 0 THEN "overwrite" ELSE "done"
    /\ UNCHANGED <<before, store>>

\* Anything may happen to the registers the address does not come from.
Overwrite ==
    /\ stage = "overwrite"
    /\ \E values \in [0..15 -> Junk] :
            regs' = write_registers(regs, (0..15) \ Addressing(store), values)
    /\ stage' = "load"
    /\ UNCHANGED <<mem, before, store, result>>

RunLoad ==
    /\ stage = "load"
    /\ Transfer(Mirror(store))
    /\ stage' = "loaded"
    /\ UNCHANGED <<before, store>>

TransferNext == RunStore \/ Overwrite \/ RunLoad
TransferSpec == TransferInit /\ [][TransferNext]_transferVars

---------------------------------------------------------------------------
(* The reference: where a store begins and what it takes, in numbers, from *)
(* the architecture's definition of the addressing modes.                  *)

Given(reg) == arm_read_register(before.regs, reg)
Number(reg) == Signed(Given(reg))

Size ==
    IF IsMultiple(store) THEN 4 * Cardinality(Operands(store))
    ELSE IF IsHalf(store) THEN 2 ELSE 4

Offset == IF IsHalf(store) THEN Number(Rm(store)) ELSE Unsigned(get_bits(store, 11, 0))
Up == get_bit(store, 23)

Start ==
    LET base == Number(Rn(store))
    IN  IF IsMultiple(store)
        THEN IF Up THEN base + (IF P_bit(store) THEN 4 ELSE 0)
             ELSE base - Size + (IF P_bit(store) THEN 0 ELSE 4)
        ELSE IF ~P_bit(store) THEN base
        ELSE IF Up THEN base + Offset ELSE base - Offset

First == Wrapped(Start)
MemSize == Weight[MemBits]

\* The place of a register among those of the list.
Rank(reg) == Cardinality({i \in Operands(store) : i < reg})

---------------------------------------------------------------------------
TransferTypeOK ==
    /\ regs \in RegisterFile
    /\ mem \in MemoryContent
    /\ stage \in {"store", "overwrite", "load", "loaded", "done"}

\* The addressing modes of ldm and stm are each other's mirror, and so are the
\* byte orders of the reads and writes of memory.c: a load from where a store
\* of the same form went brings back what was stored, at any alignment.
LoadReadsWhatStoreWrote ==
    stage = "loaded" =>
        /\ result = 0
        /\ \A reg \in Operands(store) :
                arm_read_register(regs, reg)
                    = IF IsHalf(store) THEN Given(reg) \cap (0..15) ELSE Given(reg)

\* A store changes the bytes of its own range only, also when it fails; one that
\* lies inside the memory succeeds and one that leaves it does not.
StoreStaysInRange ==
    stage # "store" =>
        /\ \A a \in MemAddress :
                mem[a] # before.mem[a] => Unsigned(a) \in First..(First + Size - 1)
        /\ First >= 0 /\ First + Size <= MemSize <=> stage # "done"

\* A single store that fails leaves the memory alone; a multiple one that
\* returns (its last access only failed) has stored all its other registers.
FailedStoreKeepsWords ==
    stage = "done" /\ result = FAULT =>
        IF IsMultiple(store)
        THEN \A reg \in Operands(store) :
                (\E later \in Operands(store) : later > reg) =>
                    \E a \in MemAddress :
                        /\ Unsigned(a) = First + 4 * Rank(reg)
                        /\ memory_read(mem, a, 4) = Given(reg)
        ELSE mem = before.mem

=============================================================================
