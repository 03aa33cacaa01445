---------------------------- MODULE GdbProtocol ----------------------------
(***************************************************************************)
(* gdb_protocol.c and the rules of scanner.l: the debugger's packets.      *)
(*                                                                         *)
(* gdb sends a packet, waits for "+" and then for the answer; "-" asks for *)
(* the last packet again, in both directions.  The stub, the thread of     *)
(* gdb_scanner, keeps no trace of what it has executed: that a command is  *)
(* executed once rests on when each side speaks.  The line keeps the order *)
(* of what is sent.  It may damage what is between "$" and the checksum,   *)
(* lose what one side sent, carry bytes that are no packet's, or take from *)
(* a packet its "$" or "#", so that the scanner reads it byte by byte.     *)
(***************************************************************************)
EXTENDS Naturals, Sequences, FiniteSets

CONSTANTS
    Commands,           \* what the debugger may ask
    Targets, Answers,   \* the simulated machines, and what is said of them
    InitialTargets,     \* the target when the debugger connects
    Outcomes(_, _),     \* what the handler of a command may do to a target
    Kills,              \* the commands that shut the connection, without an answer
    Endless,            \* the commands that may run for ever
    Untimed,            \* the commands whose answer gdb awaits without a timeout
    Garbles,            \* what the scanner may read that no whole packet is
    NoCommand, NoAnswer,
    MAX_ERROR_SIZE,     \* 1024: the bytes the scanner keeps of invalid data
    MaxCommands,        \* bound: commands the debugger asks
    MaxFaults           \* bound: faults of the line

ASSUME ProtocolAssumption ==
    /\ NoCommand \notin Commands
    /\ Kills \subseteq Commands
    /\ Endless \subseteq Untimed /\ Untimed \subseteq Commands
    /\ MAX_ERROR_SIZE \in Nat \ {0, 1}
    /\ MaxCommands \in Nat
    /\ MaxFaults \in Nat

VARIABLES
    target,     \* the simulated machine
    ended,      \* the process has ended
    gdb,        \* what the debugger waits for: "idle", "ack", "answer", "gone"
    call,       \* the command it waits for, or NoCommand
    result,     \* the last answer it got
    issued,     \* commands asked so far
    toStub, toGdb,      \* the connection, in each direction
    stub,       \* the stub's thread: "scan", "handle" or "done"
    work,       \* the command gdb_packet_analysis has acknowledged
    packet,     \* gdb->packet, the last answer; NoAnswer while gdb->len is 0
    errors,     \* len of struct parser_data
    open,       \* the stub has not shut its side of the connection
    damage,     \* packets and answers whose checksum was made bad so far
    noise,      \* invalid bytes the line carried, and tokens it lost, so far
    phase, reply,       \* history: of the call, as in GdbCommands
    executed    \* history: commands executed so far

vars == <<target, ended, gdb, call, result, issued, toStub, toGdb, stub, work, packet,
          errors, open, damage, noise, phase, reply, executed>>

debugger == <<gdb, call, result, issued>>
stubState == <<stub, work, packet, errors, open>>
history == <<phase, reply, executed>>
faults == <<damage, noise>>

\* What the scanner of either side makes of the bytes it is sent; "good" is
\* whether the checksum of a packet is right.
Token(type, body, good) == [type |-> type, body |-> body, good |-> good]
Char(c) == Token(c, NoAnswer, TRUE)
Packet(body) == Token("packet", body, TRUE)

\* The tokens of some types on a line.
Places(line, types) == {i \in 1..Len(line) : line[i].type \in types}
Count(line, types) == Cardinality(Places(line, types))

\* The bytes no rule knows.  Outside a packet "+" and "-" are what they always
\* are, and part the invalid bytes in runs.
Invalid(bytes) == Count(bytes, {"noise"})

\* Each holds an invalid byte, as the digits behind the "#" of a packet are.
ASSUME GarblesAssumption ==
    \A bytes \in Garbles :
        bytes \in Seq({Char("noise"), Char("+"), Char("-")}) /\ Invalid(bytes) # 0

Init ==
    /\ target \in InitialTargets
    /\ ended = FALSE
    /\ gdb = "idle" /\ call = NoCommand /\ result = NoAnswer /\ issued = 0
    /\ toStub = <<>> /\ toGdb = <<>>
    /\ stub = "scan" /\ work = NoCommand /\ packet = NoAnswer /\ errors = 0 /\ open = TRUE
    /\ damage = 0 /\ noise = 0
    /\ phase = "idle" /\ reply = NoAnswer /\ executed = 0

---------------------------------------------------------------------------
(* gdb, as the stub is written for it.                                     *)

Issue ==
    /\ gdb = "idle"
    /\ issued < MaxCommands
    /\ \E command \in Commands :
            /\ call' = command
            /\ toStub' = Append(toStub, Packet(command))
    /\ issued' = issued + 1
    /\ gdb' = "ack"
    /\ phase' = "asked"
    /\ UNCHANGED <<target, ended, result, toGdb, stubState, faults, reply, executed>>

\* The debugger leaves: the stub reads the end of the stream.
Leave ==
    /\ gdb = "idle"
    /\ gdb' = "gone"
    /\ toStub' = Append(toStub, Char("EOF"))
    /\ UNCHANGED <<target, ended, call, result, issued, toGdb, stubState, faults, history>>

\* The debugger reads the next thing the stub sent.
Reads ==
    /\ toGdb # <<>>
    /\ toGdb' = Tail(toGdb)
    /\ UNCHANGED <<target, ended, issued, stubState, faults, executed>>

\* A kill request has no answer: gdb leaves once it is acknowledged.
Acknowledged ==
    /\ gdb = "ack"
    /\ Reads
    /\ Head(toGdb).type = "+"
    /\ IF call \notin Kills
       THEN gdb' = "answer" /\ UNCHANGED toStub
       ELSE gdb' = "gone" /\ toStub' = Append(toStub, Char("EOF"))
    /\ UNCHANGED <<call, result, phase, reply>>

AskedAgain ==
    /\ gdb = "ack"
    /\ Reads
    /\ Head(toGdb).type = "-"
    /\ toStub' = Append(toStub, Packet(call))
    /\ UNCHANGED <<gdb, call, result, phase, reply>>

\* A packet instead of an acknowledgement, or the reverse, is skipped.
Skips ==
    /\ Reads
    /\ \/ gdb = "ack" /\ Head(toGdb).type = "packet"
       \/ gdb = "answer" /\ Head(toGdb).type # "packet"
    /\ UNCHANGED <<gdb, call, result, toStub, phase, reply>>

Answered ==
    /\ gdb = "answer"
    /\ Reads
    /\ Head(toGdb).type = "packet"
    /\ IF Head(toGdb).good
       THEN /\ gdb' = "idle"
            /\ call' = NoCommand
            /\ result' = Head(toGdb).body
            /\ toStub' = Append(toStub, Char("+"))
            /\ phase' = "idle"
            /\ reply' = NoAnswer
       ELSE /\ toStub' = Append(toStub, Char("-"))
            /\ UNCHANGED <<gdb, call, result, phase, reply>>

\* Nothing moves.  Bytes may still wait behind a packet without its "#", for the
\* "$" of the next one.
Still ==
    /\ Places(toStub, {"packet", "EOF"}) = {}
    /\ toGdb = <<>>
    /\ stub = "scan"

\* The packet, or its acknowledgement, was lost: gdb sends the packet again.
Timeout ==
    /\ gdb = "ack"
    /\ Still
    /\ toStub' = Append(toStub, Packet(call))
    /\ UNCHANGED <<target, ended, debugger, toGdb, stubState, faults, history>>

\* The answer, or the demand to send it again, was lost.
AnswerTimeout ==
    /\ gdb = "answer" /\ call \notin Untimed
    /\ Still /\ toStub = <<>>
    /\ toStub' = Append(toStub, Char("-"))
    /\ UNCHANGED <<target, ended, debugger, toGdb, stubState, faults, history>>

Debugger ==
    Acknowledged \/ AskedAgain \/ Skips \/ Answered \/ Timeout \/ AnswerTimeout

---------------------------------------------------------------------------
(* The line.                                                               *)

\* A fault strikes what is about to be read; the line keeps the order, so
\* every packet and answer comes to that point.
Struck(line, token) == <<token>> \o Tail(line)
Spoils(line) ==
    /\ line # <<>>
    /\ Head(line).type = "packet"

\* What is between "$" and the checksum is changed, and holds no "$" or "#".
Damage ==
    /\ damage + noise < MaxFaults
    /\ damage' = damage + 1
    /\ \/ /\ Spoils(toStub)
          /\ toStub' = Struck(toStub, Token("packet", Head(toStub).body, FALSE))
          /\ UNCHANGED toGdb
       \/ /\ Spoils(toGdb)
          /\ toGdb' = Struck(toGdb, Token("packet", Head(toGdb).body, FALSE))
          /\ UNCHANGED toStub
    /\ UNCHANGED <<target, ended, debugger, stubState, noise, history>>

\* Bytes outside packets, as the Ctrl-C of gdb is, or a packet without its "$" or
\* "#", of which the scanner reads each byte by its own rule.  A "$" and a "#" among
\* them make a packet with a bad checksum of some: it flushes what was invalid
\* before it and gives one "-", as "+", an invalid byte and "+" do.
Noise ==
    \E bytes \in Garbles :
        /\ damage + noise + Invalid(bytes) <= MaxFaults
        /\ noise' = noise + Invalid(bytes)
        /\ gdb # "gone"
        /\ \/ toStub' = toStub \o bytes
           \/ Spoils(toStub) /\ toStub' = bytes \o Tail(toStub)
        /\ UNCHANGED <<target, ended, debugger, toGdb, stubState, damage, history>>

\* An acknowledgement, a packet or an answer is lost.  No answer holds a "+" or
\* a "-": gdb skips an answer without its "$" or "#" as if all of it were lost.
Loss ==
    /\ damage + noise < MaxFaults
    /\ noise' = noise + 1
    /\ \/ /\ toStub # <<>> /\ Head(toStub).type \in {"packet", "+", "-"}
          /\ toStub' = Tail(toStub)
          /\ UNCHANGED toGdb
       \/ /\ toGdb # <<>>
          /\ toGdb' = Tail(toGdb)
          /\ UNCHANGED toStub
    /\ UNCHANGED <<target, ended, debugger, stubState, damage, history>>

---------------------------------------------------------------------------
(* The stub: one rule of the scanner at a time.                            *)

\* Rio_writen: the process ends when it writes after shutdown, and may end
\* when gdb has gone.
Sends(tokens) ==
    \/ /\ tokens = <<>> \/ open
       /\ toGdb' = toGdb \o tokens
       /\ UNCHANGED ended
    \/ /\ tokens # <<>> /\ (~open \/ gdb = "gone")
       /\ ended' = TRUE
       /\ UNCHANGED toGdb

\* The next token is of this type.
Scans(type) ==
    /\ stub = "scan"
    /\ toStub # <<>>
    /\ Head(toStub).type = type
    /\ toStub' = Tail(toStub)
    /\ UNCHANGED <<target, debugger, open, faults, history>>

\* Mutant: the packet is asked for again twice.
handle_errorTwice == IF errors > 0 THEN <<Char("-"), Char("-")>> ELSE <<>>

\* Every rule but the last calls it first; it empties the buffer.
handle_error == IF errors > 0 THEN <<Char("-")>> ELSE <<>>

ScanAck ==
    /\ Scans("+")
    /\ Sends(handle_error)
    /\ errors' = 0
    /\ UNCHANGED <<stub, work, packet>>

\* Mutant: nothing is sent again.
gdb_transmit_packetNot == <<>>

gdb_transmit_packet == IF packet = NoAnswer THEN <<>> ELSE <<Packet(packet)>>

ScanNak ==
    /\ Scans("-")
    /\ Sends(handle_error \o gdb_transmit_packet)
    /\ errors' = 0
    /\ UNCHANGED <<stub, work, packet>>

\* Mutant: the packet is handled although it is asked for again.
HandledAlways(token) == TRUE

Handled(token) == token.good

\* gdb_packet_analysis up to the choice of the handler.
ScanPacket ==
    /\ Scans("packet")
    /\ Sends(handle_error \o <<IF Head(toStub).good THEN Char("+") ELSE Char("-")>>)
    /\ errors' = 0
    /\ IF Handled(Head(toStub))
       THEN stub' = "handle" /\ work' = Head(toStub).body
       ELSE UNCHANGED <<stub, work>>
    /\ UNCHANGED packet

\* Mutant: the buffer is flushed once it is full to the last byte.
FullToTheLast == errors > MAX_ERROR_SIZE - 1

Full == errors > MAX_ERROR_SIZE - 2

add_character_to_error ==
    /\ Scans("noise")
    /\ Sends(IF Full THEN handle_error ELSE <<>>)
    /\ errors' = (IF Full THEN 0 ELSE errors) + 1
    /\ UNCHANGED <<stub, work, packet>>

ScanEof ==
    /\ Scans("EOF")
    /\ Sends(handle_error)
    /\ errors' = 0
    /\ stub' = "done"
    /\ UNCHANGED <<work, packet>>

\* The handler, with the lock of the core: nothing of it is seen before it
\* ends (Simulator).
Handles ==
    /\ stub = "handle"
    /\ \E outcome \in Outcomes(work, target) :
            /\ target' = outcome.target
            /\ reply' = outcome.answer
            /\ IF outcome.ended \/ work \in Kills
               THEN ended' = (ended \/ outcome.ended) /\ UNCHANGED <<packet, toGdb>>
               ELSE /\ packet' = outcome.answer
                    /\ Sends(<<Packet(outcome.answer)>>)
    /\ open' = (open /\ work \notin Kills)
    /\ phase' = "executed"
    /\ executed' = executed + 1
    /\ stub' = "scan"
    /\ work' = NoCommand
    /\ UNCHANGED <<debugger, toStub, errors, faults>>

Stub == ScanAck \/ ScanNak \/ ScanPacket \/ add_character_to_error \/ ScanEof \/ Handles

Next == ~ended /\ (Issue \/ Leave \/ Debugger \/ Damage \/ Noise \/ Loss \/ Stub)

Spec == Init /\ [][Next]_vars

\* A step of the stub, seen from outside: a token is read, or a handler ends.
StubMoves ==
    /\ ~ended
    /\ \/ /\ stub = "scan" /\ stub' \in {"scan", "handle", "done"}
          /\ toStub # <<>> /\ toStub' = Tail(toStub)
       \/ /\ stub = "handle" /\ stub' = "scan"
          /\ work \notin Endless /\ toStub' = toStub

\* The thread of the stub runs, and gdb reads what it is sent; nothing obliges
\* it to ask or to leave, nor a program that is continued to stop.
FairSpec == Spec /\ WF_<<toStub, stub>>(StubMoves) /\ WF_vars(~ended /\ Debugger)

---------------------------------------------------------------------------
(* Properties.                                                             *)

Tokens == {"+", "-", "packet", "noise", "EOF"}

TypeOK ==
    /\ target \in Targets
    /\ {packet, reply, result} \subseteq Answers \cup {NoAnswer}
    /\ ended \in BOOLEAN
    /\ gdb \in {"idle", "ack", "answer", "gone"}
    /\ call \in Commands \cup {NoCommand}
    /\ issued \in 0..MaxCommands
    /\ \A i \in DOMAIN toStub : toStub[i].type \in Tokens
    /\ \A i \in DOMAIN toGdb : toGdb[i].type \in {"+", "-", "packet"}
    /\ stub \in {"scan", "handle", "done"}
    /\ work \in Commands \cup {NoCommand}
    /\ stub = "handle" <=> work # NoCommand
    /\ open \in BOOLEAN
    /\ damage \in 0..MaxFaults
    /\ noise \in 0..MaxFaults
    /\ phase \in {"idle", "asked", "executed"}

\* add_character_to_error and handle_error: the invalid data and the NUL that
\* handle_error writes after them fit in the buffer.
ErrorsFit == errors < MAX_ERROR_SIZE

Promise == INSTANCE GdbCommands

\* gdb_packet_analysis and gdb_transmit_packet: whatever packets and answers are
\* damaged and sent again, each command is executed once, in order, and the
\* answer gdb takes is that of the execution, as long as nothing is lost and
\* nothing but packets and acknowledgements comes through the line.
ExactlyOnce == Promise!Init /\ [][noise' = 0 => Promise!Next]_(Promise!vars)

\* handle_error: a "-" for each run of invalid data makes gdb send a command
\* again that may have been executed, and so does the loss of the stub's "+":
\* once more for each invalid byte and each thing lost, no more.  A packet
\* without its "$" costs one execution for each run its "+" and "-" part it in.
ExecutionsBounded == executed <= issued + noise

\* The stop reply of a step or of a continued program was lost, and neither side
\* has a reason to speak.
StopReplyLost ==
    noise # 0 /\ gdb = "answer" /\ call \in Untimed /\ toStub = <<>> /\ Still

\* A command is answered in the end, however many faults there are, unless the
\* process has ended, the debugger kills it, it continues a program for ever, or
\* the line loses the reply gdb awaits without a timeout.
CommandsAnswered ==
    gdb = "ack" ~> \/ gdb \in {"idle", "gone"}
                   \/ ended
                   \/ stub = "handle" /\ work \in Endless
                   \/ StopReplyLost

=============================================================================
