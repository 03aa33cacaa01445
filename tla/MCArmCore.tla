------------------------------ MODULE MCArmCore ------------------------------
(***************************************************************************)
(* Small instances of ArmCore for TLC.                                     *)
(***************************************************************************)
EXTENDS InterruptReturn, Encodings

\* Mode changes, also to a mode that is none of the seven; writes of banked
\* registers by every class of instruction; returns, calls and exceptions.
MCProgram == {
    MsrControl(USR), MsrControl(FIQ), MsrControl(IRQ), MsrControl({4, 2}),
    MovImmediate(0, 1), MovShifted(8, 1), SubsPcLr(4), Bl, Swi,
    Multiple(TRUE, 13, FALSE, TRUE, {8, 14})}

MCJunk == {{}}
MCFiles == {[slot \in Slots |-> {}]}
MCMemories == {[a \in MemAddress |-> {}]}
MCIrqs == {1, 4, 6, 7}
MCRegisterWrites == {<<14, {4}>>}
MCGeneralWrites == {<<[reg \in 0..15 |-> IF reg = 15 THEN {} ELSE {2}], USR>>}
MCMemoryWrites == {<<{2}, <<{0}, {1}>>>>}

=============================================================================
