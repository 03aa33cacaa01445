---------------------------- MODULE ArmException ----------------------------
(***************************************************************************)
(* arm_exception.c: what the processor does when an exception is taken,    *)
(* and the register accessors of arm_core.c it goes through.               *)
(***************************************************************************)
EXTENDS Registers

---------------------------------------------------------------------------
(* arm_core.c: access to the registers by an instruction.  The fetch has   *)
(* advanced the pc by 4; reading it adds 4 more and clears bit 1.          *)

AheadOfFetch(value) == clr_bit(Add(value, FromNat(4)), 1)

arm_read_register(r, reg) ==
    IF reg = PC THEN AheadOfFetch(read_register(r, reg)) ELSE read_register(r, reg)

---------------------------------------------------------------------------
RESET == 1
UNDEFINED_INSTRUCTION == 2
SOFTWARE_INTERRUPT == 3
PREFETCH_ABORT == 4
DATA_ABORT == 5
INTERRUPT == 6
FAST_INTERRUPT == 7

Exceptions == RESET..FAST_INTERRUPT

\* The arguments execute_ is called with for each exception.
EntryMode(exception) ==
    CASE exception \in {RESET, SOFTWARE_INTERRUPT} -> SVC
      [] exception = UNDEFINED_INSTRUCTION -> UND
      [] exception \in {PREFETCH_ABORT, DATA_ABORT} -> ABT
      [] exception = INTERRUPT -> IRQ
      [] exception = FAST_INTERRUPT -> FIQ

Vector(exception) ==
    CASE exception = RESET -> {}
      [] exception = UNDEFINED_INSTRUCTION -> {2}
      [] exception = SOFTWARE_INTERRUPT -> {3}
      [] exception = PREFETCH_ABORT -> {3, 2}
      [] exception = DATA_ABORT -> {4}
      [] exception = INTERRUPT -> {4, 3}
      [] exception = FAST_INTERRUPT -> {4, 3, 2}

SavesSpsr(exception) == exception # RESET
MasksFast(exception) == exception \in {RESET, FAST_INTERRUPT}

\* Mutant: the pc is saved as "current" by interrupts too.
ReturnAddressOfCurrent(r, exception) ==
    LET pc == arm_read_register(r, PC)
    IN  IF exception \in {SOFTWARE_INTERRUPT, UNDEFINED_INSTRUCTION} THEN pc
        ELSE Sub(pc, FromNat(4))

\* "current" is the pc read less 4, "next" the pc as it is read.
ReturnAddress(r, exception) ==
    LET pc == arm_read_register(r, PC)
    IN  IF exception \in {PREFETCH_ABORT, DATA_ABORT} THEN Sub(pc, FromNat(4)) ELSE pc

\* The bits the new CPSR masks: I always, F on reset and fast interrupts.
MaskBits(exception) == IF MasksFast(exception) THEN {7, 6} ELSE {7}

ExceptionCpsr(cpsr, exception) ==
    (set_bits(cpsr, 4, 0, EntryMode(exception)) \ {5, 9}) \cup MaskBits(exception)

---------------------------------------------------------------------------
(* execute_: the writes of an exception entry, in their order.  What they  *)
(* write (sp, the return address, the old CPSR) was read before the first. *)

EntryCpsr(r, exception) == write_cpsr(r, ExceptionCpsr(read_cpsr(r), exception))
EntrySp(r, sp) == write_register(r, SP, sp)
EntryLr(r, addr) == write_register(r, LR, addr)
EntrySpsr(r, exception, spsr) == IF SavesSpsr(exception) THEN write_spsr(r, spsr) ELSE r
branch_exception_vector(r, exception) == write_register(r, PC, Vector(exception))

\* Mutant: lr is written before the mode changes as well.
execute_LrOfBothModes(r, exception) ==
    LET cpsr == read_cpsr(r)
        sp   == arm_read_register(r, SP)
        addr == ReturnAddress(r, exception)
        inMode  == EntryCpsr(EntryLr(r, addr), exception)
        stacked == EntryLr(EntrySp(inMode, sp), addr)
    IN  branch_exception_vector(EntrySpsr(stacked, exception, cpsr), exception)

execute_(r, exception) ==
    LET cpsr == read_cpsr(r)
        sp   == arm_read_register(r, SP)
        addr == ReturnAddress(r, exception)
        inMode  == EntryCpsr(r, exception)
        stacked == EntryLr(EntrySp(inMode, sp), addr)
    IN  branch_exception_vector(EntrySpsr(stacked, exception, cpsr), exception)

\* arm_exception: a code that names no exception does nothing.
arm_exception(r, exception) ==
    IF exception \in Exceptions THEN execute_(r, exception) ELSE r

=============================================================================
