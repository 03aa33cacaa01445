----------------------------- MODULE CoreMachine -----------------------------
(***************************************************************************)
(* A processor as the rest of the program sees it: one action is one call  *)
(* made under the lock, an instruction, an exception sent by the interrupt *)
(* thread or a write by the debugger.  What the calls make of the          *)
(* registers and of the memory are parameters (CoreOperations).            *)
(***************************************************************************)
EXTENDS Integers

CONSTANTS
    Created,            \* the register files a new core may have
    InitialMemories,
    Program, JunkLocals,
    Irqs, RegisterWrites, GeneralWrites, MemoryWrites,
    arm_step(_, _, _, _),
    arm_exception(_, _),
    RegisterWritten(_, _), GeneralWritten(_, _), MemoryWritten(_, _),
    ProcessEnds,        \* the results from which a step does not return
    CycleWrap, MaxCycles, MaxCalls

VARIABLES
    regs,           \* reg of struct arm_core_data
    mem,            \* mem of struct arm_core_data
    cycle_count,    \* cycle_count of struct arm_core_data
    calls,          \* interrupts and debugger writes so far, at most MaxCalls
    ended           \* 0, or how an instruction ended the process

vars == <<regs, mem, cycle_count, calls, ended>>

---------------------------------------------------------------------------
Init ==
    /\ regs \in Created
    /\ mem \in InitialMemories
    /\ cycle_count = 0
    /\ calls = 0
    /\ ended = 0

\* One instruction: it is fetched, executed, and its exception is taken.  If
\* it ends the process nothing is left to see of the core.
StepOf(ins, junk) ==
    /\ ended = 0
    /\ cycle_count < MaxCycles
    /\ cycle_count' = (cycle_count + 1) % CycleWrap
    /\ \E done \in {arm_step(regs, mem, ins, junk)} :
            IF done.result \in ProcessEnds
            THEN ended' = done.result /\ UNCHANGED <<regs, mem>>
            ELSE ended' = 0 /\ regs' = done.regs /\ mem' = done.mem
    /\ UNCHANGED calls

Step == \E ins \in Program, junk \in JunkLocals : StepOf(ins, junk)

Call ==
    /\ ended = 0
    /\ calls < MaxCalls
    /\ calls' = calls + 1
    /\ UNCHANGED <<cycle_count, ended>>

\* A byte received by the interrupt thread.
Interrupt(irq) ==
    /\ Call
    /\ regs' = arm_exception(regs, irq)
    /\ UNCHANGED mem

\* The packets of the debugger that write: P, G and X.
WriteRegister ==
    /\ Call
    /\ \E p \in RegisterWrites : regs' = RegisterWritten(regs, p)
    /\ UNCHANGED mem

WriteGeneralRegisters ==
    /\ Call
    /\ \E p \in GeneralWrites : regs' = GeneralWritten(regs, p)
    /\ UNCHANGED mem

WriteMemory ==
    /\ Call
    /\ \E p \in MemoryWrites : mem' = MemoryWritten(mem, p)
    /\ UNCHANGED regs

DebuggerWrite == WriteRegister \/ WriteGeneralRegisters \/ WriteMemory

Next == Step \/ (\E irq \in Irqs : Interrupt(irq)) \/ DebuggerWrite

Spec == Init /\ [][Next]_vars

=============================================================================
