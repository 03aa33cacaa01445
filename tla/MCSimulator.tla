----------------------------- MODULE MCSimulator -----------------------------
(***************************************************************************)
(* Small instances of Simulator for TLC.                                   *)
(***************************************************************************)
EXTENDS Simulator, SendIrq, Encodings

MCProgram == {SwiExit, Swi, BranchToSelf, Breakpoint}
EndlessLoop == {BranchToSelf}

MCJunk == {{}}
MCFiles == {[slot \in Slots |-> {}]}
MCMemories == {[a \in MemAddress |-> {}]}
\* pc near the top of the address space: the last byte of the fetch wraps around.
MCRegisterWrites == {<<14, {4}>>, <<15, Complement({1})>>}
MCGeneralWrites == {<<[reg \in 0..15 |-> {}], USR>>}
MCMemoryWrites == {<<{1}, <<{0}, {1}>>>>}
\* send_irq without a name and with one it does not know, and a client that
\* sends two bytes, the second of them no exception.
MCClients == send_irq(<<>>) \cup send_irq(<<"break">>) \cup {<<7, 0>>}
OneClient == send_irq(<<"interrupt">>)

=============================================================================
