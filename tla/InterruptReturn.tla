-------------------------- MODULE InterruptReturn --------------------------
(***************************************************************************)
(* A handler's way back.  ArmCore with a history variable that remembers   *)
(* what the last interrupt interrupted, as long as the link register and   *)
(* the saved status are still those of its entry.                          *)
(***************************************************************************)
EXTENDS ArmCore

VARIABLE frame      \* the interrupted program, and whether it can be resumed

varsR == <<vars, frame>>

NoFrame == [open |-> FALSE, mode |-> {}, cpsr |-> {}, next |-> {}]

\* The frame of an interrupt taken now, whose handler runs in mode.
Opened(mode) ==
    [open |-> get_mode(regs) \in NamedModes,
     mode |-> mode,
     cpsr |-> read_cpsr(regs),
     next |-> FetchAddress(regs)]

\* The lr of the handlers' modes, and r0, where the code keeps every SPSR.
LinkSlot(mode) == IF mode = FIQ THEN 35 ELSE 27
SpsrHome == 0

\* A step that is no interrupt: it closes the frame if it changes what the
\* return needs (the handler itself does, or an exception nested in it).
Kept ==
    frame' = [frame EXCEPT !.open =
                /\ @
                /\ regs'[LinkSlot(frame.mode)] = regs[LinkSlot(frame.mode)]
                /\ regs'[SpsrHome] = regs[SpsrHome]]

InitR == Init /\ frame = NoFrame

NextR ==
    \/ \E irq \in Irqs :
        /\ Interrupt(irq)
        /\ CASE irq = INTERRUPT -> frame' = Opened(IRQ)
             [] irq = FAST_INTERRUPT -> frame' = Opened(FIQ)
             [] OTHER -> Kept
    \/ (Step \/ DebuggerWrite) /\ Kept

SpecR == InitR /\ [][NextR]_varsR

---------------------------------------------------------------------------
\* subs pc, lr, #4, the return from an interrupt: condition always, opcode SUB
\* with S, rn = 14, rd = 15, immediate 4.
ReturnInstruction ==
    {31, 30, 29} \cup {25} \cup {22} \cup {20} \cup {19, 18, 17} \cup (12..15) \cup {2}

\* execute_ and executeInst together: whatever ran in between, an interrupt
\* handler that still has its lr and its saved status goes back, by that
\* instruction, to the instruction and to the CPSR that were interrupted.
ReturnResumesStep ==
    /\ frame.open
    /\ get_mode(regs) = frame.mode
    /\ Access(FetchAddress(regs), 4) = 0
    /\ \E junk \in JunkLocals : StepOf(ReturnInstruction, junk)
    => /\ read_cpsr(regs') = frame.cpsr
       /\ FetchAddress(regs') = frame.next
ReturnResumes == [][ReturnResumesStep]_varsR

\* execute_: an interrupt taken in user or system mode leaves r1..r14 of the
\* program as they were (r0 takes the saved status).
EntryKeepsProgramStep ==
    (\E irq \in {INTERRUPT, FAST_INTERRUPT} : Interrupt(irq)) /\ get_mode(regs) \in {USR, SYS}
    => \A slot \in 1..14 : regs'[slot] = regs[slot]
EntryKeepsProgram == [][EntryKeepsProgramStep]_varsR

=============================================================================
