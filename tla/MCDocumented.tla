----------------------------- MODULE MCDocumented -----------------------------
(***************************************************************************)
(* What comments, assertions and headers of the code say of it, where the  *)
(* code does otherwise: each property below is checked by a run of its own *)
(* that finds a step or a state against it.                                *)
(***************************************************************************)
EXTENDS ArmCore, Encodings

MovsZero == MovImmediate(1, 0) \cup {20}                    \* movs r1, #0

MCProgram == {
    MsrControl(USR), MsrControl(IRQ), MovImmediate(0, 1), MovsZero, Swi}

MCJunk == {{}}
MCFiles == {[slot \in Slots |-> {}]}
MCMemories == {[a \in MemAddress |-> {}]}
MCIrqs == {INTERRUPT, FAST_INTERRUPT}
MCRegisterWrites == {<<14, {4}>>}
Nothing == {}

---------------------------------------------------------------------------
\* execute_ sets bit 7 of the CPSR with the comment "prevents interrupts":
\* while it is set an interrupt changes nothing.
MaskedInterruptsIgnored ==
    [][Interrupt(INTERRUPT) /\ 7 \in read_cpsr(regs) => regs' = regs]_vars

\* arm_constants.h gives IRQ mode an R13 and R14 apart from those of SVC, ABT
\* and UND: a step that neither starts nor ends in IRQ mode leaves them alone.
IrqBankIsOfIrqMode ==
    [][IRQ \notin {get_mode(regs), get_mode(regs')} =>
            \A slot \in {R13_IRQ, R13_IRQ + 1} : regs'[slot] = regs[slot]]_vars

\* condition_passed "returns TRUE if the state of the flags N, Z, C and V
\* fulfils the condition": for the CPSR the program has, every condition gets
\* the answer of the decoder of the other instructions.
ConditionPassedSeesFlags ==
    \A cond \in (SUBSET (0..3)) \ {AL, NeverCondition} :
        condition_passed(regs, OnCondition(cond, {}))
            = arm_decode_condition(cond, read_cpsr(regs) \cap Flags)

=============================================================================
