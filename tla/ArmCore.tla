------------------------------ MODULE ArmCore ------------------------------
(***************************************************************************)
(* The simulated processor as a state machine: arm_core.c with everything  *)
(* that runs on it.  It is the machine of CoreMachine with the operations  *)
(* of CoreOperations.                                                      *)
(***************************************************************************)
EXTENDS CoreOperations

VARIABLES regs, mem, cycle_count, calls, ended      \* as in CoreMachine

\* Init, Step, Interrupt, DebuggerWrite, Next and Spec, for these operations.
INSTANCE CoreMachine

---------------------------------------------------------------------------
(* Properties.                                                             *)

\* The state stays within its types: no operation produces a word wider than
\* 32 bits or a register or byte outside its array.
TypeOK ==
    /\ regs \in RegisterFile
    /\ mem \in MemoryContent
    /\ cycle_count \in 0..MaxCycles
    /\ calls \in 0..MaxCalls
    /\ ended \in {0} \cup ProcessEnds

\* Register banks isolate the modes (read_register, write_register, execute_):
\* whatever the instruction, interrupt or packet, a register changes only if it
\* belongs to the bank of the mode the step starts in, or is the sp or lr of the
\* mode an exception enters.  In particular a handler never changes the sp and
\* lr of the program it interrupted, nor r8..r12 when it runs in FIQ mode.
BankIsolationStep ==
    \A slot \in Slots :
        regs'[slot] # regs[slot] =>
            slot \in Bank(get_mode(regs)) \cup EntryBank(get_mode(regs')) \cup CommonSlots
BankIsolation == [][BankIsolationStep]_vars

=============================================================================
