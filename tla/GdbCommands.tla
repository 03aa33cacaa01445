---------------------------- MODULE GdbCommands ----------------------------
(***************************************************************************)
(* What the debugger is promised: a command is executed once, in the order *)
(* it was given, and what comes back is the answer of that execution.      *)
(* Nothing is said of packets, acknowledgements or retransmission.         *)
(***************************************************************************)
CONSTANTS
    Commands,           \* what the debugger may ask
    InitialTargets,     \* the target when the debugger connects
    Outcomes(_, _),     \* what a command may do to a target
    NoCommand, NoAnswer

VARIABLES
    target,     \* the simulated machine
    call,       \* the command asked, or NoCommand
    phase,      \* of the call: "idle", "asked" or "executed"
    reply,      \* the answer of the execution
    result,     \* the last answer the debugger got
    ended       \* the process has ended

vars == <<target, call, phase, reply, result, ended>>

Init ==
    /\ target \in InitialTargets
    /\ call = NoCommand
    /\ phase = "idle"
    /\ reply = NoAnswer
    /\ result = NoAnswer
    /\ ended = FALSE

Ask ==
    /\ phase = "idle"
    /\ call' \in Commands
    /\ phase' = "asked"
    /\ UNCHANGED <<target, reply, result, ended>>

Execute ==
    /\ phase = "asked"
    /\ \E outcome \in Outcomes(call, target) :
            /\ target' = outcome.target
            /\ reply' = outcome.answer
            /\ ended' = (ended \/ outcome.ended)
    /\ phase' = "executed"
    /\ UNCHANGED <<call, result>>

Answer ==
    /\ phase = "executed"
    /\ ~ended
    /\ result' = reply
    /\ call' = NoCommand
    /\ reply' = NoAnswer
    /\ phase' = "idle"
    /\ UNCHANGED <<target, ended>>

Next == Ask \/ Execute \/ Answer

Spec == Init /\ [][Next]_vars

=============================================================================
