------------------------- MODULE GdbProtocolProofs -------------------------
(***************************************************************************)
(* GdbProtocol: the commands of the debugger are executed once each, for   *)
(* any commands, handlers, number of commands and number of damaged        *)
(* packets and answers.                                                    *)
(*                                                                         *)
(* As long as there is no noise, that is, nothing is lost and no invalid   *)
(* byte comes through, the two sides speak in turn: Turns lists            *)
(* the stages of an exchange with what is on the line in each of them, and *)
(* a command is handled in one stage only, which nothing leads back to.    *)
(*                                                                         *)
(* With noise they no longer do, and it is counted what will be executed   *)
(* before it is: every packet on its way, every "-", every invalid byte    *)
(* and the invalid data the stub keeps can become one more execution each, *)
(* and none of them becomes two.  What is lost leaves the count, or makes  *)
(* gdb add a packet to it.                                                 *)
(*                                                                         *)
(* Types are kept for handlers that keep them (HandlersTyped): Typed adds  *)
(* what the packets on the line carry in each direction.  The handlers of  *)
(* GdbHandlers do, for every well formed command and every target, and in  *)
(* a session that runs them (Simulated) the debugger reads back what it    *)
(* writes: the bytes of a packet have addresses of their own, the text of  *)
(* a word and the escapes of a content are undone by their readers, and a  *)
(* register written in a mode is read in it.                               *)
(***************************************************************************)
EXTENDS GdbSession, CoreLemmas, SequenceTheorems, FunctionTheorems, FiniteSetTheorems

Ask(g) == Token("packet", call, g)
Ans(g) == Token("packet", reply, g)

\* Nothing is asked; the last answer may still be to acknowledge.
Idle ==
    /\ gdb = "idle" /\ phase = "idle" /\ stub = "scan" /\ open = TRUE
    /\ call = NoCommand /\ reply = NoAnswer
    /\ toGdb = <<>>
    /\ toStub = <<>> \/ toStub = <<Char("+")>>

\* The packet, or the demand to send it again, is on its way.
Asked ==
    /\ gdb = "ack" /\ phase = "asked" /\ stub = "scan" /\ open = TRUE
    /\ \/ /\ toGdb = <<>>
          /\ \E g \in BOOLEAN : toStub = <<Ask(g)>> \/ toStub = <<Char("+"), Ask(g)>>
       \/ toGdb = <<Char("-")>> /\ toStub = <<>>

\* The stub has acknowledged the packet.
Handling ==
    /\ phase = "asked" /\ stub = "handle" /\ work = call /\ open = TRUE
    /\ toStub = <<>>
    /\ \/ gdb = "ack" /\ toGdb = <<Char("+")>>
       \/ gdb = "answer" /\ toGdb = <<>> /\ call \notin Kills

\* The answer, or the demand to send it again, is on its way.
Served ==
    /\ phase = "executed" /\ stub = "scan" /\ call \notin Kills
    /\ open = TRUE /\ packet = reply
    /\ \/ gdb = "answer" /\ toStub = <<>> /\ toGdb = <<>>
       \/ gdb = "answer" /\ toStub = <<Char("-")>> /\ toGdb = <<>>
       \/ /\ gdb = "ack" /\ toStub = <<>>
          /\ \E g \in BOOLEAN : toGdb = <<Char("+"), Ans(g)>>
       \/ /\ gdb = "answer" /\ toStub = <<>>
          /\ \E g \in BOOLEAN : toGdb = <<Ans(g)>>

\* The target is killed, and the debugger reads the acknowledgement.
Killed ==
    /\ phase = "executed" /\ stub = "scan" /\ call \in Kills
    /\ gdb = "ack" /\ toStub = <<>> /\ toGdb = <<Char("+")>>

\* The debugger has left, perhaps before its kill request was handled.
Gone ==
    /\ gdb = "gone"
    /\ stub = "handle" => phase = "asked" /\ work = call /\ call \in Kills
    /\ \/ toStub = <<>>
       \/ toStub = <<Char("EOF")>>
       \/ toStub = <<Char("+"), Char("EOF")>>

Turns == Idle \/ Asked \/ Handling \/ Served \/ Killed \/ Gone

\* The sides speak in turn as long as the line is quiet and the process lives.
Inv == noise \in Nat /\ ended \in BOOLEAN /\ (noise = 0 /\ ~ended => errors = 0 /\ Turns)

---------------------------------------------------------------------------
(* Short lines.                                                            *)

\* Reading and writing a line of at most two tokens.
LEMMA Lines ==
    ASSUME NEW a, NEW b
    PROVE  /\ <<a>> # <<>> /\ <<a, b>> # <<>>
           /\ Head(<<a>>) = a /\ Tail(<<a>>) = <<>>
           /\ Head(<<a, b>>) = a /\ Tail(<<a, b>>) = <<b>>
           /\ Append(<<>>, a) = <<a>> /\ Append(<<a>>, b) = <<a, b>>
           /\ <<>> \o <<>> = <<>> /\ <<>> \o <<a>> = <<a>>
           /\ <<a>> \o <<>> = <<a>> /\ <<a>> \o <<b>> = <<a, b>>
<1> DEFINE S == {a, b}
<1>1. /\ <<>> \in Seq(S) /\ <<a>> \in Seq(S) /\ <<b>> \in Seq(S) /\ <<a, b>> \in Seq(S)
      /\ Len(<<>>) = 0 /\ Len(<<a>>) = 1 /\ Len(<<b>>) = 1 /\ Len(<<a, b>>) = 2
      /\ <<a>>[1] = a /\ <<b>>[1] = b /\ <<a, b>>[1] = a /\ <<a, b>>[2] = b
      /\ a \in S /\ b \in S
  OBVIOUS
<1>2. <<a>> # <<>> /\ <<a, b>> # <<>>
  OBVIOUS
<1>3. Head(<<a>>) = a /\ Tail(<<a>>) = <<>> /\ Head(<<a, b>>) = a /\ Tail(<<a, b>>) = <<b>>
  OBVIOUS
<1> HIDE DEF S
<1>4. Append(<<>>, a) = <<a>>
  <2>1. /\ Append(<<>>, a) \in Seq(S)
        /\ Len(Append(<<>>, a)) = 1
        /\ Append(<<>>, a)[1] = a
    BY <1>1, AppendProperties
  <2> QED BY <1>1, <2>1, SeqEqual
<1>5. Append(<<a>>, b) = <<a, b>>
  <2>1. /\ Append(<<a>>, b) \in Seq(S)
        /\ Len(Append(<<a>>, b)) = 2
        /\ Append(<<a>>, b)[1] = a
        /\ Append(<<a>>, b)[2] = b
    BY <1>1, AppendProperties
  <2>2. \A i \in 1..2 : Append(<<a>>, b)[i] = <<a, b>>[i]
    BY <1>1, <2>1
  <2>3. Len(Append(<<a>>, b)) = Len(<<a, b>>)
    BY <1>1, <2>1
  <2>4. \A i \in 1..Len(Append(<<a>>, b)) : Append(<<a>>, b)[i] = <<a, b>>[i]
    BY <2>1, <2>2
  <2> QED BY <1>1, <2>1, <2>3, <2>4, SeqEqual, Zenon
<1>6. <<>> \o <<>> = <<>> /\ <<>> \o <<a>> = <<a>> /\ <<a>> \o <<>> = <<a>>
  BY <1>1, ConcatEmptySeq
<1>7. <<a>> \o <<b>> = <<a, b>>
  <2>1. /\ <<a>> \o <<b>> \in Seq(S)
        /\ Len(<<a>> \o <<b>>) = 2
        /\ \A i \in 1..2 : (<<a>> \o <<b>>)[i] = IF i <= 1 THEN <<a>>[i] ELSE <<b>>[i - 1]
    BY <1>1, ConcatProperties
  <2>2. (<<a>> \o <<b>>)[1] = a /\ (<<a>> \o <<b>>)[2] = b
    BY <1>1, <2>1
  <2>3. \A i \in 1..2 : (<<a>> \o <<b>>)[i] = <<a, b>>[i]
    BY <1>1, <2>2
  <2>4. Len(<<a>> \o <<b>>) = Len(<<a, b>>)
    BY <1>1, <2>1
  <2>5. \A i \in 1..Len(<<a>> \o <<b>>) : (<<a>> \o <<b>>)[i] = <<a, b>>[i]
    BY <2>1, <2>3
  <2> QED BY <1>1, <2>1, <2>4, <2>5, SeqEqual, Zenon
<1> QED BY <1>2, <1>3, <1>4, <1>5, <1>6, <1>7

\* A token is what it was made of, and no mark of one character is a packet.
LEMMA Marks ==
    ASSUME NEW type, NEW body, NEW good
    PROVE  /\ Token(type, body, good).type = type
           /\ Token(type, body, good).body = body
           /\ Token(type, body, good).good = good
           /\ Char(type).type = type
BY DEF Token, Char

---------------------------------------------------------------------------
\* What a step does that is not noise: it keeps the turns, and the promise sees
\* one of its own steps or none.
Good ==
    /\ noise' \in Nat /\ ended' \in BOOLEAN
    /\ noise' = 0 /\ ~ended' => errors' = 0 /\ Turns'
    /\ noise' = 0 => Promise!Next \/ UNCHANGED Promise!vars

\* Issue: Idle becomes Asked.
LEMMA IssueStep == ASSUME Inv, ~ended, noise = 0, Issue PROVE Good
<1>1. Idle /\ errors = 0
  BY DEF Inv, Turns, Asked, Handling, Served, Killed, Gone, Issue
<1>2. PICK command \in Commands :
          call' = command /\ toStub' = Append(toStub, Packet(command))
  BY DEF Issue
<1>3. toStub' = <<Packet(command)>> \/ toStub' = <<Char("+"), Packet(command)>>
  <2>1. /\ Append(<<>>, Packet(command)) = <<Packet(command)>>
        /\ Append(<<Char("+")>>, Packet(command)) = <<Char("+"), Packet(command)>>
    BY Lines
  <2>2. toStub = <<>> \/ toStub = <<Char("+")>>
    BY <1>1 DEF Idle
  <2> QED BY <1>2, <2>1, <2>2, Zenon
<1>4. Packet(command) = Ask(TRUE)'
  BY <1>2 DEF Packet, Ask
<1>5. Asked'
  BY <1>1, <1>3, <1>4 DEF Asked, Idle, Issue, stubState
<1>6. Promise!Ask
  BY <1>1, <1>2 DEF Promise!Ask, Idle, Issue
<1>7. noise' = noise /\ ended' = ended /\ errors' = errors
  BY DEF Issue, stubState, faults
<1>8. Turns' /\ Promise!Next
  BY <1>5, <1>6 DEF Turns, Promise!Next
<1> QED BY <1>1, <1>7, <1>8 DEF Good, Inv

\* Leave: Idle becomes Gone.
LEMMA LeaveStep == ASSUME Inv, ~ended, noise = 0, Leave PROVE Good
<1>1. Idle /\ errors = 0
  BY DEF Inv, Turns, Asked, Handling, Served, Killed, Gone, Leave
<1>2. toStub' = <<Char("EOF")>> \/ toStub' = <<Char("+"), Char("EOF")>>
  <2>1. /\ Append(<<>>, Char("EOF")) = <<Char("EOF")>>
        /\ Append(<<Char("+")>>, Char("EOF")) = <<Char("+"), Char("EOF")>>
    BY Lines
  <2>2. toStub = <<>> \/ toStub = <<Char("+")>>
    BY <1>1 DEF Idle
  <2>3. toStub' = Append(toStub, Char("EOF"))
    BY DEF Leave
  <2> QED BY <2>1, <2>2, <2>3, Zenon
<1>3. Gone'
  BY <1>1, <1>2 DEF Gone, Idle, Leave, stubState
<1>4. noise' = noise /\ ended' = ended /\ errors' = errors
  BY DEF Leave, stubState, faults
<1>5. Turns' /\ UNCHANGED Promise!vars
  BY <1>3 DEF Turns, Leave, history, Promise!vars
<1> QED BY <1>1, <1>4, <1>5 DEF Good, Inv

\* What the debugger may read at each stage of a quiet exchange.
LEMMA ToRead ==
    ASSUME Inv, ~ended, noise = 0, toGdb # <<>>, gdb \in {"ack", "answer"}
    PROVE  \/ Asked /\ toGdb = <<Char("-")>> /\ toStub = <<>>
           \/ Handling /\ gdb = "ack" /\ toGdb = <<Char("+")>>
           \/ Killed
           \/ Served /\ gdb = "ack" /\ toStub = <<>>
                   /\ \E g \in BOOLEAN : toGdb = <<Char("+"), Ans(g)>>
           \/ Served /\ gdb = "answer" /\ toStub = <<>>
                   /\ \E g \in BOOLEAN : toGdb = <<Ans(g)>>
BY DEF Inv, Turns, Idle, Asked, Handling, Served, Killed, Gone

\* Acknowledged: the debugger waits for the answer, or leaves after a kill.
LEMMA AcknowledgedStep == ASSUME Inv, ~ended, noise = 0, Acknowledged PROVE Good
<1>1. errors = 0 /\ gdb = "ack" /\ toGdb # <<>> /\ Head(toGdb).type = "+"
  BY DEF Inv, Acknowledged, Reads
<1>2. ~(toGdb = <<Char("-")>>)
  BY <1>1, Lines, Marks
<1>3. \/ Handling /\ gdb = "ack" /\ toGdb = <<Char("+")>>
      \/ Killed
      \/ Served /\ gdb = "ack" /\ toStub = <<>> /\ \E g \in BOOLEAN : toGdb = <<Char("+"), Ans(g)>>
  BY <1>1, <1>2, ToRead
<1>4. toStub = <<>> /\ (toStub' = <<>> \/ toStub' = <<Char("EOF")>>)
  BY <1>3, Lines DEF Handling, Killed, Acknowledged
<1>5. CASE Handling /\ gdb = "ack" /\ toGdb = <<Char("+")>>
  <2>1. toGdb' = <<>>
    BY <1>5, Lines DEF Acknowledged, Reads
  <2>2. CASE call \in Kills
    <3>1. Gone'
      BY <1>4, <1>5, <2>2 DEF Gone, Handling, Acknowledged, Reads, stubState
    <3> QED BY <1>1, <3>1 DEF Good, Inv, Turns, Acknowledged, Reads, stubState, faults, Promise!vars
  <2>3. CASE call \notin Kills
    <3>1. Handling'
      BY <1>4, <1>5, <2>1, <2>3 DEF Handling, Acknowledged, Reads, stubState
    <3> QED BY <1>1, <3>1 DEF Good, Inv, Turns, Acknowledged, Reads, stubState, faults, Promise!vars
  <2> QED BY <2>2, <2>3
<1>6. CASE Killed
  <2>1. Gone'
    BY <1>4, <1>6 DEF Gone, Killed, Acknowledged, Reads, stubState
  <2> QED BY <1>1, <2>1 DEF Good, Inv, Turns, Acknowledged, Reads, stubState, faults, Promise!vars
<1>7. CASE Served /\ gdb = "ack" /\ toStub = <<>> /\ \E g \in BOOLEAN : toGdb = <<Char("+"), Ans(g)>>
  <2>1. PICK g \in BOOLEAN : toGdb = <<Char("+"), Ans(g)>>
    BY <1>7
  <2>2. toGdb' = <<Ans(g)>>
    BY <2>1, Lines DEF Acknowledged, Reads
  <2>3. Ans(g)' = Ans(g)
    BY DEF Ans, Acknowledged
  <2>4. Served'
    BY <1>7, <2>2, <2>3 DEF Served, Acknowledged, Reads, stubState
  <2> QED BY <1>1, <2>4 DEF Good, Inv, Turns, Acknowledged, Reads, stubState, faults, Promise!vars
<1> QED BY <1>3, <1>5, <1>6, <1>7

\* AskedAgain: the packet is sent once more, and has not been handled.
LEMMA AskedAgainStep == ASSUME Inv, ~ended, noise = 0, AskedAgain PROVE Good
<1>1. errors = 0 /\ gdb = "ack" /\ toGdb # <<>> /\ Head(toGdb).type = "-"
  BY DEF Inv, AskedAgain, Reads
<1>2. Asked /\ toGdb = <<Char("-")>> /\ toStub = <<>>
  <2>1. toGdb # <<Char("+")>> /\ \A g \in BOOLEAN : toGdb # <<Char("+"), Ans(g)>>
    BY <1>1, Lines, Marks
  <2> QED BY <1>1, <2>1, ToRead DEF Killed
<1>3. toGdb' = <<>> /\ toStub' = <<Ask(TRUE)'>>
  BY <1>2, Lines DEF AskedAgain, Reads, Ask, Packet
<1>4. Asked'
  BY <1>2, <1>3 DEF Asked, AskedAgain, Reads, stubState
<1> QED BY <1>1, <1>4 DEF Good, Inv, Turns, AskedAgain, Reads, stubState, faults, Promise!vars

\* Skips: on a quiet line there is nothing to skip.
LEMMA SkipsStep == ASSUME Inv, ~ended, noise = 0, Skips PROVE Good
<1>1. /\ toGdb # <<>>
      /\ \/ gdb = "ack" /\ Head(toGdb).type = "packet"
         \/ gdb = "answer" /\ Head(toGdb).type # "packet"
  BY DEF Skips, Reads
<1>2. /\ Char("+").type # "packet" /\ Char("-").type # "packet"
      /\ \A g \in BOOLEAN : Ans(g).type = "packet"
  BY Marks DEF Ans
<1>3. CASE gdb = "ack" /\ Head(toGdb).type = "packet"
  <2>1. /\ toGdb # <<Char("+")>> /\ toGdb # <<Char("-")>>
        /\ \A g \in BOOLEAN : toGdb # <<Char("+"), Ans(g)>>
    BY <1>2, <1>3, Lines
  <2> QED BY <1>1, <1>3, <2>1, ToRead DEF Killed
<1>4. CASE gdb = "answer" /\ Head(toGdb).type # "packet"
  <2>1. \A g \in BOOLEAN : toGdb # <<Ans(g)>>
    BY <1>2, <1>4, Lines
  <2> QED BY <1>1, <1>4, <2>1, ToRead DEF Asked, Killed
<1> QED BY <1>1, <1>3, <1>4

\* Answered: the exchange is over, or the answer is asked for again.
LEMMA AnsweredStep == ASSUME Inv, ~ended, noise = 0, Answered PROVE Good
<1>1. errors = 0 /\ gdb = "answer" /\ toGdb # <<>> /\ Head(toGdb).type = "packet"
  BY DEF Inv, Answered, Reads
<1>2. Served /\ toStub = <<>> /\ \E g \in BOOLEAN : toGdb = <<Ans(g)>>
  BY <1>1, ToRead DEF Asked, Killed
<1>3. PICK g \in BOOLEAN : toGdb = <<Ans(g)>>
  BY <1>2
<1>4. toGdb' = <<>> /\ Head(toGdb).good = g /\ Head(toGdb).body = reply
  BY <1>3, Lines, Marks DEF Ans, Answered, Reads
<1>5. CASE g = TRUE
  <2>1. /\ gdb' = "idle" /\ call' = NoCommand /\ result' = reply
        /\ phase' = "idle" /\ reply' = NoAnswer /\ toStub' = <<Char("+")>>
    BY <1>2, <1>4, <1>5, Lines DEF Answered
  <2>2. Idle'
    BY <1>2, <1>4, <2>1 DEF Idle, Served, Answered, Reads, stubState
  <2>3. Promise!Answer
    BY <1>2, <2>1 DEF Promise!Answer, Served, Answered, Reads
  <2> QED BY <1>1, <2>2, <2>3 DEF Good, Inv, Turns, Answered, Reads, stubState, faults, Promise!Next
<1>6. CASE g = FALSE
  <2>1. toStub' = <<Char("-")>> /\ UNCHANGED <<gdb, call, result, phase, reply>>
    BY <1>2, <1>4, <1>6, Lines DEF Answered
  <2>2. Served'
    BY <1>1, <1>2, <1>4, <2>1 DEF Served, Answered, Reads, stubState
  <2> QED BY <1>1, <2>1, <2>2 DEF Good, Inv, Turns, Answered, Reads, stubState, faults, Promise!vars
<1> QED BY <1>5, <1>6

\* Timeout: on a quiet line there is always something to wait for.
LEMMA TimeoutStep == ASSUME Inv, ~ended, noise = 0, Timeout PROVE Good
<1>1. gdb = "ack" /\ toGdb = <<>> /\ stub = "scan" /\ Places(toStub, {"packet", "EOF"}) = {}
  BY DEF Timeout, Still
<1>2. Asked /\ \E g \in BOOLEAN : toStub = <<Ask(g)>> \/ toStub = <<Char("+"), Ask(g)>>
  BY <1>1, Lines DEF Inv, Turns, Idle, Asked, Handling, Served, Killed, Gone
<1>3. PICK g \in BOOLEAN : toStub = <<Ask(g)>> \/ toStub = <<Char("+"), Ask(g)>>
  BY <1>2
<1>4. Ask(g).type = "packet"
  BY Marks DEF Ask
<1>5. CASE toStub = <<Ask(g)>>
  <2>1. 1 \in 1..Len(toStub) /\ toStub[1] = Ask(g)
    BY <1>5
  <2> QED BY <1>1, <1>4, <2>1 DEF Places
<1>6. CASE toStub = <<Char("+"), Ask(g)>>
  <2>1. 2 \in 1..Len(toStub) /\ toStub[2] = Ask(g)
    BY <1>6
  <2> QED BY <1>1, <1>4, <2>1 DEF Places
<1> QED BY <1>3, <1>5, <1>6

\* AnswerTimeout: gdb has asked for the answer again, and neither side can speak
\* but to repeat that.
LEMMA AnswerTimeoutStep == ASSUME Inv, ~ended, noise = 0, AnswerTimeout PROVE Good
<1>1. errors = 0 /\ gdb = "answer" /\ toGdb = <<>> /\ stub = "scan" /\ toStub = <<>>
  BY DEF Inv, AnswerTimeout, Still
<1>2. Served
  BY <1>1, Lines DEF Inv, Turns, Idle, Asked, Handling, Served, Killed, Gone
<1>3. toStub' = <<Char("-")>>
  BY <1>1, Lines DEF AnswerTimeout
<1>4. Served'
  BY <1>1, <1>2, <1>3 DEF Served, AnswerTimeout, debugger, stubState, history
<1> QED BY <1>1, <1>4
        DEF Good, Inv, Turns, AnswerTimeout, debugger, stubState, faults, history, Promise!vars

---------------------------------------------------------------------------
(* The line.                                                               *)

\* Damage: the stage is the same, the checksum is not.
LEMMA DamageStep == ASSUME Inv, ~ended, noise = 0, Damage PROVE Good
<1>1. errors = 0 /\ Turns /\ noise \in Nat /\ ended \in BOOLEAN
  BY DEF Inv
<1>2. /\ noise' = 0 /\ noise' \in Nat /\ ~ended' /\ ended' \in BOOLEAN /\ errors' = 0
      /\ UNCHANGED Promise!vars
  BY <1>1 DEF Damage, debugger, stubState, history, Promise!vars
<1>3. CASE /\ Spoils(toStub)
           /\ toStub' = Struck(toStub, Token("packet", Head(toStub).body, FALSE))
           /\ UNCHANGED toGdb
  <2>1. toStub # <<>> /\ Head(toStub).type = "packet"
    BY <1>3 DEF Spoils
  <2>2. CASE gdb = "gone"
    BY <2>1, <2>2, <1>1, Lines, Marks DEF Turns, Idle, Asked, Handling, Served, Killed, Gone
  <2>3. CASE gdb # "gone"
    <3>1. Asked /\ toGdb = <<>> /\ \E g \in BOOLEAN : toStub = <<Ask(g)>>
      <4>1. /\ toStub # <<Char("+")>> /\ toStub # <<Char("-")>>
            /\ \A g \in BOOLEAN : toStub # <<Char("+"), Ask(g)>>
        BY <2>1, Lines, Marks
      <4> QED BY <1>1, <2>1, <2>3, <4>1 DEF Turns, Idle, Asked, Handling, Served, Killed, Gone
    <3>2. PICK g \in BOOLEAN : toStub = <<Ask(g)>>
      BY <3>1
    <3>3. Head(toStub).body = call /\ Tail(toStub) = <<>>
      BY <3>2, Lines, Marks DEF Ask
    <3>4. toStub' = <<Ask(FALSE)>>
      BY <1>3, <3>3, Lines DEF Struck, Ask
    <3>5. Ask(FALSE)' = Ask(FALSE)
      BY DEF Ask, Damage, debugger
    <3>6. Asked'
      BY <1>3, <3>1, <3>4, <3>5 DEF Asked, Damage, debugger, stubState, history
    <3> QED BY <1>2, <3>6 DEF Good, Turns
  <2> QED BY <2>2, <2>3
<1>4. CASE /\ Spoils(toGdb)
           /\ toGdb' = Struck(toGdb, Token("packet", Head(toGdb).body, FALSE))
           /\ UNCHANGED toStub
  <2>1. toGdb # <<>> /\ Head(toGdb).type = "packet"
    BY <1>4 DEF Spoils
  <2>2. CASE gdb = "gone"
    <3>1. Gone
      BY <1>1, <2>2 DEF Turns, Idle, Asked, Handling, Served, Killed
    <3>2. Gone'
      BY <1>4, <3>1 DEF Gone, Damage, debugger, stubState, history
    <3> QED BY <1>2, <3>2 DEF Good, Turns
  <2>3. CASE gdb # "gone"
    <3>1. Served /\ gdb = "answer" /\ toStub = <<>> /\ \E g \in BOOLEAN : toGdb = <<Ans(g)>>
      <4>1. /\ toGdb # <<Char("+")>> /\ toGdb # <<Char("-")>>
            /\ \A g \in BOOLEAN : toGdb # <<Char("+"), Ans(g)>>
        BY <2>1, Lines, Marks
      <4>2. gdb \in {"ack", "answer"}
        BY <1>1, <2>1, <2>3 DEF Turns, Idle, Asked, Handling, Served, Killed, Gone
      <4> QED BY <2>1, <4>1, <4>2, ToRead DEF Killed
    <3>2. PICK g \in BOOLEAN : toGdb = <<Ans(g)>>
      BY <3>1
    <3>3. Head(toGdb).body = reply /\ Tail(toGdb) = <<>>
      BY <3>2, Lines, Marks DEF Ans
    <3>4. toGdb' = <<Ans(FALSE)>>
      BY <1>4, <3>3, Lines DEF Struck, Ans
    <3>5. Ans(FALSE)' = Ans(FALSE)
      BY DEF Ans, Damage, history
    <3>6. Served'
      BY <1>4, <3>1, <3>4, <3>5 DEF Served, Damage, debugger, stubState, history
    <3> QED BY <1>2, <3>6 DEF Good, Turns
  <2> QED BY <2>2, <2>3
<1> QED BY <1>3, <1>4 DEF Damage

---------------------------------------------------------------------------
(* The stub.                                                               *)

\* What the stub may scan at each stage of a quiet exchange.
LEMMA ToScan ==
    ASSUME Inv, ~ended, noise = 0, stub = "scan", toStub # <<>>
    PROVE  \/ Idle /\ toStub = <<Char("+")>>
           \/ Asked /\ toGdb = <<>> /\ \E g \in BOOLEAN : toStub = <<Ask(g)>>
           \/ Asked /\ toGdb = <<>> /\ \E g \in BOOLEAN : toStub = <<Char("+"), Ask(g)>>
           \/ Served /\ gdb = "answer" /\ toGdb = <<>> /\ toStub = <<Char("-")>>
           \/ Gone /\ toStub = <<Char("EOF")>>
           \/ Gone /\ toStub = <<Char("+"), Char("EOF")>>
BY DEF Inv, Turns, Idle, Asked, Handling, Served, Killed, Gone

\* ScanAck: the stub sends nothing.
LEMMA ScanAckStep == ASSUME Inv, ~ended, noise = 0, ScanAck PROVE Good
<1>1. errors = 0 /\ stub = "scan" /\ toStub # <<>> /\ Head(toStub).type = "+"
  BY DEF Inv, ScanAck, Scans
<1>2. handle_error = <<>>
  BY <1>1 DEF handle_error
<1>3. UNCHANGED ended /\ toGdb' = toGdb \o <<>>
  BY <1>2 DEF ScanAck, Sends
<1>4. /\ noise' = 0 /\ noise' \in Nat /\ ended' \in BOOLEAN /\ errors' = 0
      /\ UNCHANGED Promise!vars
  BY <1>3 DEF Inv, ScanAck, Scans, faults, history, debugger, Promise!vars
<1>5. \/ Idle /\ toStub = <<Char("+")>>
      \/ Asked /\ toGdb = <<>> /\ \E g \in BOOLEAN : toStub = <<Char("+"), Ask(g)>>
      \/ Gone /\ toStub = <<Char("+"), Char("EOF")>>
  <2>1. /\ toStub # <<Char("-")>> /\ toStub # <<Char("EOF")>>
        /\ \A g \in BOOLEAN : toStub # <<Ask(g)>>
    BY <1>1, Lines, Marks DEF Ask
  <2> QED BY <1>1, <2>1, ToScan
<1>6. CASE Idle /\ toStub = <<Char("+")>>
  <2>1. toStub' = <<>> /\ toGdb' = <<>>
    BY <1>3, <1>6, Lines DEF Idle, ScanAck, Scans
  <2>2. Idle'
    BY <1>6, <2>1 DEF Idle, ScanAck, Scans, debugger, history
  <2> QED BY <1>4, <2>2 DEF Good, Turns
<1>7. CASE Asked /\ toGdb = <<>> /\ \E g \in BOOLEAN : toStub = <<Char("+"), Ask(g)>>
  <2>1. PICK g \in BOOLEAN : toStub = <<Char("+"), Ask(g)>>
    BY <1>7
  <2>2. toStub' = <<Ask(g)>> /\ toGdb' = <<>>
    BY <1>3, <1>7, <2>1, Lines DEF ScanAck, Scans
  <2>3. Ask(g)' = Ask(g)
    BY DEF Ask, ScanAck, Scans, debugger
  <2>4. Asked'
    BY <1>7, <2>2, <2>3 DEF Asked, ScanAck, Scans, debugger, history
  <2> QED BY <1>4, <2>4 DEF Good, Turns
<1>8. CASE Gone /\ toStub = <<Char("+"), Char("EOF")>>
  <2>1. toStub' = <<Char("EOF")>>
    BY <1>8, Lines DEF ScanAck, Scans
  <2>2. Gone'
    BY <1>1, <1>8, <2>1 DEF Gone, ScanAck, Scans, debugger, history
  <2> QED BY <1>4, <2>2 DEF Good, Turns
<1> QED BY <1>5, <1>6, <1>7, <1>8

\* ScanNak: the answer is sent once more, and nothing is executed.
LEMMA ScanNakStep == ASSUME Inv, ~ended, noise = 0, ScanNak PROVE Good
<1>1. errors = 0 /\ stub = "scan" /\ toStub # <<>> /\ Head(toStub).type = "-"
  BY DEF Inv, ScanNak, Scans
<1>2. Served /\ gdb = "answer" /\ toGdb = <<>> /\ toStub = <<Char("-")>>
  <2>1. /\ toStub # <<Char("+")>> /\ toStub # <<Char("EOF")>>
        /\ toStub # <<Char("+"), Char("EOF")>>
        /\ \A g \in BOOLEAN : toStub # <<Ask(g)>> /\ toStub # <<Char("+"), Ask(g)>>
    BY <1>1, Lines, Marks DEF Ask
  <2> QED BY <1>1, <2>1, ToScan
<1>3. toStub' = <<>>
  BY <1>2, Lines DEF ScanNak, Scans
<1>4. handle_error \o gdb_transmit_packet = IF packet = NoAnswer THEN <<>> ELSE <<Ans(TRUE)>>
  BY <1>1, <1>2, Lines DEF handle_error, gdb_transmit_packet, Packet, Ans, Served
<1>5. UNCHANGED ended /\ toGdb' = toGdb \o (handle_error \o gdb_transmit_packet)
  BY <1>2 DEF Served, ScanNak, Sends
<1>6. toGdb' = <<>> \/ toGdb' = <<Ans(TRUE)>>
  BY <1>2, <1>4, <1>5, Lines
<1>7. Ans(TRUE)' = Ans(TRUE)
  BY DEF Ans, ScanNak, Scans, history
<1>8. Served'
  BY <1>2, <1>3, <1>6, <1>7 DEF Served, ScanNak, Scans, debugger, history
<1> QED BY <1>5, <1>8 DEF Good, Inv, Turns, ScanNak, Scans, faults, history, debugger, Promise!vars

\* ScanPacket: the packet is acknowledged and will be handled, or is asked for
\* again.
LEMMA ScanPacketStep == ASSUME Inv, ~ended, noise = 0, ScanPacket PROVE Good
<1>1. errors = 0 /\ stub = "scan" /\ toStub # <<>> /\ Head(toStub).type = "packet"
  BY DEF Inv, ScanPacket, Scans
<1>2. Asked /\ toGdb = <<>> /\ \E g \in BOOLEAN : toStub = <<Ask(g)>>
  <2>1. /\ toStub # <<Char("+")>> /\ toStub # <<Char("EOF")>> /\ toStub # <<Char("-")>>
        /\ toStub # <<Char("+"), Char("EOF")>>
        /\ \A g \in BOOLEAN : toStub # <<Char("+"), Ask(g)>>
    BY <1>1, Lines, Marks
  <2> QED BY <1>1, <2>1, ToScan
<1>3. PICK g \in BOOLEAN : toStub = <<Ask(g)>>
  BY <1>2
<1>4. /\ Head(toStub).good = g /\ Head(toStub).body = call
      /\ toStub' = <<>>
  BY <1>3, Lines, Marks DEF Ask, ScanPacket, Scans
<1>5. UNCHANGED ended /\ toGdb' = <<IF g THEN Char("+") ELSE Char("-")>>
  <2>1. /\ handle_error = <<>>
        /\ handle_error \o <<IF g THEN Char("+") ELSE Char("-")>>
                = <<IF g THEN Char("+") ELSE Char("-")>>
        /\ toGdb \o <<IF g THEN Char("+") ELSE Char("-")>> = <<IF g THEN Char("+") ELSE Char("-")>>
    BY <1>1, <1>2, Lines DEF handle_error
  <2>2. Sends(<<IF g THEN Char("+") ELSE Char("-")>>)
    BY <1>4, <2>1 DEF ScanPacket
  <2> QED BY <1>2, <2>1, <2>2 DEF Sends, Asked
<1>6. CASE g = TRUE
  <2>1. stub' = "handle" /\ work' = call
    BY <1>4, <1>6 DEF ScanPacket, Handled
  <2>2. Handling'
    BY <1>2, <1>4, <1>5, <1>6, <2>1 DEF Handling, Asked, ScanPacket, Scans, debugger, history
  <2> QED BY <1>5, <2>2 DEF Good, Inv, Turns, ScanPacket, Scans, faults, history, debugger, Promise!vars
<1>7. CASE g = FALSE
  <2>1. UNCHANGED <<stub, work>>
    BY <1>4, <1>7 DEF ScanPacket, Handled
  <2>2. Asked'
    BY <1>2, <1>4, <1>5, <1>7, <2>1 DEF Asked, ScanPacket, Scans, debugger, history
  <2> QED BY <1>5, <2>2 DEF Good, Inv, Turns, ScanPacket, Scans, faults, history, debugger, Promise!vars
<1> QED BY <1>6, <1>7

\* Invalid data: there are none on a quiet line.
LEMMA ErrorStep == ASSUME Inv, ~ended, noise = 0, add_character_to_error PROVE Good
<1>1. stub = "scan" /\ toStub # <<>> /\ Head(toStub).type = "noise"
  BY DEF add_character_to_error, Scans
<1>2. /\ toStub # <<Char("+")>> /\ toStub # <<Char("EOF")>> /\ toStub # <<Char("-")>>
      /\ toStub # <<Char("+"), Char("EOF")>>
      /\ \A g \in BOOLEAN : toStub # <<Char("+"), Ask(g)>> /\ toStub # <<Ask(g)>>
  BY <1>1, Lines, Marks DEF Ask
<1> QED BY <1>1, <1>2, ToScan

\* ScanEof: nobody is left to talk to.
LEMMA ScanEofStep == ASSUME Inv, ~ended, noise = 0, ScanEof PROVE Good
<1>1. errors = 0 /\ stub = "scan" /\ toStub # <<>> /\ Head(toStub).type = "EOF"
  BY DEF Inv, ScanEof, Scans
<1>2. Gone /\ toStub = <<Char("EOF")>>
  <2>1. /\ toStub # <<Char("+")>> /\ toStub # <<Char("-")>>
        /\ toStub # <<Char("+"), Char("EOF")>>
        /\ \A g \in BOOLEAN : toStub # <<Char("+"), Ask(g)>> /\ toStub # <<Ask(g)>>
    BY <1>1, Lines, Marks DEF Ask
  <2> QED BY <1>1, <2>1, ToScan
<1>3. toStub' = <<>>
  BY <1>2, Lines DEF ScanEof, Scans
<1>4. UNCHANGED ended
  BY <1>1 DEF ScanEof, Sends, handle_error
<1>5. Gone'
  BY <1>2, <1>3 DEF Gone, ScanEof, Scans, debugger, history
<1> QED BY <1>4, <1>5 DEF Good, Inv, Turns, ScanEof, Scans, faults, history, debugger, Promise!vars

\* Handles: the one stage at which a command is executed.
LEMMA HandlesStep == ASSUME Inv, ~ended, noise = 0, Handles PROVE Good
<1>1. /\ errors = 0 /\ stub = "handle" /\ phase = "asked" /\ work = call
      /\ \/ Handling
         \/ Gone /\ call \in Kills
  BY DEF Inv, Turns, Idle, Asked, Handling, Served, Killed, Gone, Handles
<1>2. PICK outcome \in Outcomes(work, target) :
        /\ target' = outcome.target
        /\ reply' = outcome.answer
        /\ IF outcome.ended \/ work \in Kills
           THEN ended' = (ended \/ outcome.ended) /\ UNCHANGED <<packet, toGdb>>
           ELSE packet' = outcome.answer /\ Sends(<<Packet(outcome.answer)>>)
  BY DEF Handles
<1>3. /\ stub' = "scan" /\ phase' = "executed" /\ open' = (open /\ work \notin Kills)
      /\ UNCHANGED <<gdb, call, result, issued, toStub, errors, damage, noise>>
  BY DEF Handles, debugger, faults
<1>4. CASE outcome.ended
  <2>1. ended' = (ended \/ outcome.ended)
    BY <1>2, <1>4
  <2>2. Promise!Execute
    BY <1>1, <1>2, <1>3, <2>1 DEF Promise!Execute
  <2>3. ended' = TRUE
    BY <1>4, <2>1
  <2> QED BY <1>3, <2>2, <2>3 DEF Good, Inv, Promise!Next
<1>5. CASE ~outcome.ended /\ work \in Kills
  <2>1. ended' = (ended \/ outcome.ended) /\ UNCHANGED <<packet, toGdb>>
    BY <1>2, <1>5
  <2>2. Promise!Execute
    BY <1>1, <1>2, <1>3, <2>1 DEF Promise!Execute
  <2>3. Killed' \/ Gone'
    BY <1>1, <1>3, <1>5, <2>1 DEF Killed, Gone, Handling
  <2>4. ended' \in BOOLEAN
    BY <2>1
  <2>5. errors' = 0 /\ Turns' /\ noise' \in Nat
    BY <1>1, <1>3, <2>3 DEF Inv, Turns
  <2> QED BY <2>2, <2>4, <2>5 DEF Good, Promise!Next
<1>6. CASE ~outcome.ended /\ work \notin Kills
  <2>1. Handling /\ packet' = outcome.answer /\ Sends(<<Packet(outcome.answer)>>)
    BY <1>1, <1>2, <1>6
  <2>2. toGdb' = toGdb \o <<Packet(outcome.answer)>> /\ UNCHANGED ended
    BY <2>1 DEF Sends, Handling
  <2>3. Packet(outcome.answer) = Ans(TRUE)'
    BY <1>2 DEF Packet, Ans
  <2>4. \/ gdb = "ack" /\ toGdb' = <<Char("+"), Ans(TRUE)'>>
        \/ gdb = "answer" /\ toGdb' = <<Ans(TRUE)'>>
    <3>1. \A x : <<>> \o <<x>> = <<x>> /\ <<Char("+")>> \o <<x>> = <<Char("+"), x>>
      BY Lines, Zenon
    <3>2. toGdb' = toGdb \o <<Ans(TRUE)'>>
      BY <2>2, <2>3
    <3>3. CASE gdb = "ack" /\ toGdb = <<Char("+")>>
      BY <3>1, <3>2, <3>3
    <3>4. CASE gdb = "answer" /\ toGdb = <<>>
      BY <3>1, <3>2, <3>4
    <3> QED BY <2>1, <3>3, <3>4 DEF Handling
  <2>5. Served'
    BY <1>1, <1>2, <1>3, <1>6, <2>1, <2>4 DEF Served, Handling
  <2>6. Promise!Execute
    BY <1>1, <1>2, <1>3, <1>6, <2>2 DEF Promise!Execute, Inv
  <2> QED BY <1>1, <1>3, <2>2, <2>5, <2>6 DEF Good, Inv, Turns, Promise!Next
<1> QED BY <1>4, <1>5, <1>6

---------------------------------------------------------------------------
(* Counting what is on a line.                                             *)

Single(condition) == IF condition THEN 1 ELSE 0

IsLine(line) == \E S : line \in Seq(S)

\* What makes the stub execute a command, or ask for one.
Asks == {"packet", "noise"}

\* Something is counted just when it is there.
LEMMA CountType ==
    ASSUME NEW line, IsLine(line), NEW types
    PROVE  /\ IsFiniteSet(Places(line, types))
           /\ Count(line, types) \in Nat
           /\ Count(line, types) = 0 <=> Places(line, types) = {}
<1>1. PICK S : line \in Seq(S)
  BY DEF IsLine
<1>2. Len(line) \in Nat
  BY <1>1, LenProperties
<1>3. IsFiniteSet(1..Len(line))
  BY <1>2, FS_Interval
<1>4. Places(line, types) \subseteq 1..Len(line)
  BY DEF Places
<1>5. IsFiniteSet(Places(line, types))
  BY <1>3, <1>4, FS_Subset
<1> QED BY <1>5, FS_CardinalityType, FS_EmptySet DEF Count

\* Single after the other, two lines have what each of them has.
LEMMA CountConcat ==
    ASSUME NEW s, IsLine(s), NEW t, IsLine(t), NEW types
    PROVE  /\ IsLine(s \o t)
           /\ Count(s \o t, types) = Count(s, types) + Count(t, types)
<1>1. PICK S : s \in Seq(S)
  BY DEF IsLine
<1>2. PICK T : t \in Seq(T)
  BY DEF IsLine
<1> DEFINE U == S \cup T
           n == Len(s)
           m == Len(t)
           A == Places(s, types)
           B == Places(t, types)
           D == {n + i : i \in B}
           shift == [i \in B |-> n + i]
<1>3. s \in Seq(U) /\ t \in Seq(U)
  BY <1>1, <1>2, SeqMonotonic
<1>4. n \in Nat /\ m \in Nat
  BY <1>1, <1>2, LenProperties
<1>5. /\ s \o t \in Seq(U)
      /\ Len(s \o t) = n + m
      /\ \A i \in 1..(n + m) : (s \o t)[i] = IF i <= n THEN s[i] ELSE t[i - n]
  BY <1>3, ConcatProperties
<1>6. A \subseteq 1..n /\ B \subseteq 1..m
  BY DEF Places
<1>7. Places(s \o t, types) = A \cup D
  <2>1. \A i \in 1..n : i \in Places(s \o t, types) <=> i \in A
    BY <1>4, <1>5 DEF Places
  <2>2. \A i \in 1..m : n + i \in Places(s \o t, types) <=> i \in B
    <3> TAKE i \in 1..m
    <3>1. n + i \in 1..(n + m) /\ ~(n + i <= n) /\ n + i - n = i
      BY <1>4
    <3>2. (s \o t)[n + i] = t[i]
      BY <1>5, <3>1
    <3> QED BY <1>5, <3>1, <3>2 DEF Places
  <2>3. Places(s \o t, types) \subseteq 1..(n + m)
    BY <1>5 DEF Places
  <2>4. \A j \in 1..(n + m) : j \in 1..n \/ (j - n \in 1..m /\ j = n + (j - n))
    BY <1>4
  <2> HIDE DEF n, m, A, B
  <2>5. \A j \in Places(s \o t, types) : j \in A \cup D
    <3> TAKE j \in Places(s \o t, types)
    <3>1. CASE j \in 1..n
      BY <2>1, <3>1
    <3>2. CASE j - n \in 1..m /\ j = n + (j - n)
      BY <2>2, <3>2
    <3> QED BY <2>3, <2>4, <3>1, <3>2
  <2> QED BY <1>6, <2>1, <2>2, <2>5
<1>8. IsFiniteSet(A) /\ IsFiniteSet(B) /\ Cardinality(A) \in Nat /\ Cardinality(B) \in Nat
  BY CountType DEF Count
<1> HIDE DEF n, m, A, B
<1>9. IsFiniteSet(D) /\ Cardinality(D) = Cardinality(B)
  <2>1. B \subseteq Int
    BY <1>4, <1>6
  <2>2. shift \in Bijection(B, D)
    <3>1. shift \in [B -> D]
      OBVIOUS
    <3>2. \A a, b \in B : shift[a] = shift[b] => a = b
      BY <1>4, <2>1
    <3>3. \A c \in D : \E b \in B : shift[b] = c
      OBVIOUS
    <3> QED BY <3>1, <3>2, <3>3, Fun_IsBij
  <2>3. ExistsBijection(B, D)
    BY <2>2, Fun_ExistsBij
  <2> QED BY <1>8, <2>3, FS_Bijection
<1>10. A \cap D = {}
  BY <1>4, <1>6
<1>11. Cardinality(A \cup D) = Cardinality(A) + Cardinality(B)
  <2>1. Cardinality(A \cup D) = Cardinality(A) + Cardinality(D) - Cardinality(A \cap D)
    BY <1>8, <1>9, FS_Union
  <2>2. Cardinality(A \cap D) = 0
    BY <1>10, FS_EmptySet
  <2> HIDE DEF D
  <2> QED BY <1>8, <1>9, <2>1, <2>2
<1>12. IsLine(s \o t)
  BY <1>5 DEF IsLine
<1> QED BY <1>7, <1>11, <1>12 DEF Count, A, B

\* Nothing, and one token.
LEMMA CountShort ==
    ASSUME NEW types, NEW token
    PROVE  /\ IsLine(<<>>) /\ Count(<<>>, types) = 0
           /\ IsLine(<<token>>) /\ Count(<<token>>, types) = Single(token.type \in types)
<1>1. <<>> \in Seq({token}) /\ <<token>> \in Seq({token})
  OBVIOUS
<1>2. Places(<<>>, types) = {}
  BY DEF Places
<1>3. Places(<<token>>, types) = IF token.type \in types THEN {1} ELSE {}
  BY DEF Places
<1>4. Cardinality({}) = 0 /\ Cardinality({1}) = 1
  BY FS_EmptySet, FS_Singleton
<1> QED BY <1>1, <1>2, <1>3, <1>4 DEF IsLine, Count, Single

\* Two tokens.
LEMMA CountPair ==
    ASSUME NEW types, NEW a, NEW b
    PROVE  /\ IsLine(<<a, b>>)
           /\ Count(<<a, b>>, types) = Single(a.type \in types) + Single(b.type \in types)
<1>1. <<a>> \o <<b>> = <<a, b>>
  BY Lines
<1>2. /\ IsLine(<<a>>) /\ Count(<<a>>, types) = Single(a.type \in types)
      /\ IsLine(<<b>>) /\ Count(<<b>>, types) = Single(b.type \in types)
  BY CountShort
<1>3. /\ IsLine(<<a>> \o <<b>>)
      /\ Count(<<a>> \o <<b>>, types) = Count(<<a>>, types) + Count(<<b>>, types)
  BY <1>2, CountConcat
<1> QED BY <1>1, <1>2, <1>3

\* Single more token at the end.
LEMMA CountAppend ==
    ASSUME NEW line, IsLine(line), NEW types, NEW token
    PROVE  /\ IsLine(Append(line, token))
           /\ Count(Append(line, token), types) = Count(line, types) + Single(token.type \in types)
<1>1. PICK S : line \in Seq(S)
  BY DEF IsLine
<1>2. line \in Seq(S \cup {token}) /\ token \in S \cup {token}
  BY <1>1, SeqMonotonic
<1>3. Append(line, token) = line \o <<token>>
  BY <1>2, AppendIsConcat
<1>4. IsLine(<<token>>) /\ Count(<<token>>, types) = Single(token.type \in types)
  BY CountShort
<1>5. /\ IsLine(line \o <<token>>)
      /\ Count(line \o <<token>>, types) = Count(line, types) + Count(<<token>>, types)
  BY <1>4, CountConcat
<1> QED BY <1>3, <1>4, <1>5

\* The first token, and the others; and another token in its place.
LEMMA CountTail ==
    ASSUME NEW line, IsLine(line), line # <<>>, NEW types, NEW token
    PROVE  /\ IsLine(Tail(line)) /\ IsLine(Struck(line, token))
           /\ Count(line, types) = Single(Head(line).type \in types) + Count(Tail(line), types)
           /\ Count(Struck(line, token), types)
                = Single(token.type \in types) + Count(Tail(line), types)
<1>1. PICK S : line \in Seq(S)
  BY DEF IsLine
<1>2. IsLine(Tail(line))
  BY <1>1, HeadTailProperties DEF IsLine
<1>3. line = <<Head(line)>> \o Tail(line)
  <2>1. Len(line) \in Nat \ {0}
    BY <1>1, EmptySeq
  <2>2. line = SubSeq(line, 1, Len(line)) /\ Tail(line) = SubSeq(line, 2, Len(line))
    BY <1>1, SubSeqFull, TailIsSubSeq
  <2>3. SubSeq(line, 1, Len(line)) = <<line[1]>> \o SubSeq(line, 1 + 1, Len(line))
    <3>1. 1 \in 1..Len(line) /\ Len(line) \in 1..Len(line)
      BY <2>1
    <3> QED BY <1>1, <3>1, SubSeqRecursiveFirst
  <2>4. Head(line) = line[1]
    BY DEF Head
  <2> QED BY <2>2, <2>3, <2>4
<1>4. Count(line, types) = Single(Head(line).type \in types) + Count(Tail(line), types)
  <2>1. Count(<<Head(line)>> \o Tail(line), types)
            = Count(<<Head(line)>>, types) + Count(Tail(line), types)
    BY <1>2, CountConcat, CountShort
  <2>2. Count(<<Head(line)>>, types) = Single(Head(line).type \in types)
    BY CountShort
  <2> QED BY <1>3, <2>1, <2>2, Zenon
<1>5. /\ IsLine(Struck(line, token))
      /\ Count(Struck(line, token), types)
            = Single(token.type \in types) + Count(Tail(line), types)
  <2>1. IsLine(<<token>>) /\ Count(<<token>>, types) = Single(token.type \in types)
    BY CountShort
  <2>2. /\ IsLine(<<token>> \o Tail(line))
        /\ Count(<<token>> \o Tail(line), types)
                = Count(<<token>>, types) + Count(Tail(line), types)
    BY <1>2, <2>1, CountConcat
  <2> QED BY <2>1, <2>2 DEF Struck
<1> QED BY <1>2, <1>4, <1>5

---------------------------------------------------------------------------
(* Every step.                                                             *)

\* What the line carries that is no packet, and how much of it is counted.
LEMMA GarbleCounts ==
    ASSUME NEW bytes \in Garbles
    PROVE  /\ IsLine(bytes) /\ Invalid(bytes) \in Nat \ {0}
           /\ Count(bytes, Asks) = Invalid(bytes) /\ Count(bytes, {"packet"}) = 0
<1>1. bytes \in Seq({Char("noise"), Char("+"), Char("-")}) /\ Invalid(bytes) # 0
  BY GarblesAssumption
<1>2. IsLine(bytes)
  BY <1>1 DEF IsLine
<1>3. \A i \in 1..Len(bytes) : bytes[i].type # "packet"
  <2> TAKE i \in 1..Len(bytes)
  <2>1. bytes[i] \in {Char("noise"), Char("+"), Char("-")}
    BY <1>1
  <2>2. Char("noise").type = "noise" /\ Char("+").type = "+" /\ Char("-").type = "-"
    BY Marks
  <2> QED BY <2>1, <2>2
<1>4. Places(bytes, Asks) = Places(bytes, {"noise"}) /\ Places(bytes, {"packet"}) = {}
  BY <1>3 DEF Places, Asks
<1>5. Count(bytes, Asks) = Invalid(bytes)
  BY <1>4 DEF Count, Invalid
<1>6. Invalid(bytes) \in Nat /\ Count(bytes, {"packet"}) = 0
  BY <1>2, <1>4, CountType DEF Invalid
<1> QED BY <1>1, <1>2, <1>5, <1>6

\* Invalid bytes and losses are counted, and no other step forgets them.
LEMMA NoiseKept ==
    ASSUME Next, noise \in Nat
    PROVE  noise' \in Nat /\ (noise # 0 => noise' # 0)
<1>1. CASE Noise
  <2>1. PICK bytes \in Garbles : noise' = noise + Invalid(bytes)
    BY <1>1 DEF Noise
  <2> QED BY <2>1, GarbleCounts
<1>2. CASE Loss
  BY <1>2 DEF Loss
<1>3. CASE ~Noise /\ ~Loss
  BY <1>3 DEF Next, Issue, Leave, Debugger, Acknowledged, AskedAgain, Skips, Answered, Timeout,
      AnswerTimeout, Reads, Damage, Stub, ScanAck, ScanNak, ScanPacket, add_character_to_error, ScanEof, Scans,
      Handles, faults
<1> QED BY <1>1, <1>2, <1>3

\* The process has ended or not.
LEMMA EndedKept == ASSUME Next, ended \in BOOLEAN PROVE ended' \in BOOLEAN
<1>1. \A tokens : Sends(tokens) => ended' \in BOOLEAN
  BY DEF Sends
<1>2. CASE Stub /\ ~Handles
  BY <1>1, <1>2 DEF Stub, ScanAck, ScanNak, ScanPacket, add_character_to_error, ScanEof
<1>3. CASE Handles
  <2>1. PICK outcome \in Outcomes(work, target) :
          \/ ended' = (ended \/ outcome.ended)
          \/ Sends(<<Packet(outcome.answer)>>)
    BY <1>3 DEF Handles
  <2> QED BY <1>1, <2>1
<1>4. CASE ~Stub
  BY <1>4 DEF Next, Issue, Leave, Debugger, Acknowledged, AskedAgain, Skips, Answered, Timeout,
      AnswerTimeout, Reads, Damage, Noise, Loss
<1> QED BY <1>2, <1>3, <1>4

\* A step keeps the turns, and is one of the promise's steps or none of its
\* concern as long as the line is quiet.
LEMMA NextStep == ASSUME Inv, Next PROVE Good
<1>1. noise \in Nat /\ ended \in BOOLEAN /\ ~ended
  BY DEF Inv, Next
<1>2. noise' \in Nat /\ ended' \in BOOLEAN /\ (noise # 0 => noise' # 0)
  BY <1>1, NoiseKept, EndedKept
<1>3. CASE noise # 0
  BY <1>2, <1>3 DEF Good
<1>4. CASE Noise \/ Loss
  <2>1. CASE Noise
    <3>1. PICK bytes \in Garbles : noise' = noise + Invalid(bytes)
      BY <2>1 DEF Noise
    <3>2. noise' # 0
      BY <1>1, <3>1, GarbleCounts
    <3> QED BY <1>2, <3>2 DEF Good
  <2>2. CASE Loss
    <3>1. noise' # 0
      BY <1>1, <2>2 DEF Loss
    <3> QED BY <1>2, <3>1 DEF Good
  <2> QED BY <1>4, <2>1, <2>2
<1>5. CASE noise = 0 /\ (Issue \/ Leave \/ Damage)
  BY <1>1, <1>5, IssueStep, LeaveStep, DamageStep
<1>6. CASE noise = 0 /\ Debugger
  BY <1>1, <1>6, AcknowledgedStep, AskedAgainStep, SkipsStep, AnsweredStep, TimeoutStep,
     AnswerTimeoutStep DEF Debugger
<1>7. CASE noise = 0 /\ Stub
  BY <1>1, <1>7, ScanAckStep, ScanNakStep, ScanPacketStep, ErrorStep, ScanEofStep, HandlesStep
      DEF Stub
<1> QED BY <1>3, <1>4, <1>5, <1>6, <1>7 DEF Next

\* A step that changes nothing keeps the turns as well.
LEMMA StutterStep == ASSUME Inv, UNCHANGED vars PROVE Good
<1>1. UNCHANGED Promise!vars
  BY DEF vars, Promise!vars
<1>2. Turns => Turns'
  BY DEF vars, Turns, Idle, Asked, Handling, Served, Killed, Gone, Ask, Ans
<1> QED BY <1>1, <1>2 DEF Good, Inv, vars

\* gdb_packet_analysis, gdb_transmit_packet and gdb's side of the exchange: while
\* nothing is lost and nothing but packets and acknowledgements comes through the
\* line, each command is executed once, in order, and answered with the answer of its execution,
\* however many packets and answers are damaged and sent again.
THEOREM ExecutedOnce == Spec => ExactlyOnce
<1>1. Init => Inv
  <2>1. Init => Idle
    BY DEF Init, Idle
  <2>2. Init => noise \in Nat /\ ended \in BOOLEAN /\ errors = 0
    <3>1. Init => noise = 0 /\ ended = FALSE /\ errors = 0
      BY DEF Init
    <3>2. 0 \in Nat
      OBVIOUS
    <3> QED BY <3>1, <3>2, Zenon
  <2>3. Idle => Turns
    BY DEF Turns
  <2> QED BY <2>1, <2>2, <2>3, Zenon DEF Inv
<1>2. Init => Promise!Init
  BY DEF Init, Promise!Init
<1>3. Inv /\ [Next]_vars => Inv' /\ (noise' = 0 => Promise!Next \/ UNCHANGED Promise!vars)
  <2> SUFFICES ASSUME Inv, [Next]_vars
               PROVE  Inv' /\ (noise' = 0 => Promise!Next \/ UNCHANGED Promise!vars)
    OBVIOUS
  <2>1. Good
    BY NextStep, StutterStep
  <2> QED BY <2>1 DEF Good, Inv
<1>4. Inv /\ [Next]_vars => Inv' /\ [noise' = 0 => Promise!Next]_(Promise!vars)
  BY <1>3
<1> QED BY <1>1, <1>2, <1>4, PTL DEF Spec, ExactlyOnce

---------------------------------------------------------------------------
(* The buffer of invalid data.                                             *)

\* add_character_to_error and handle_error: whatever comes through the line, the
\* invalid data the scanner keeps and the NUL behind them fit in the buffer.
THEOREM InvalidDataFits == Spec => []ErrorsFit
<1> DEFINE Kept == errors \in Nat /\ errors < MAX_ERROR_SIZE
<1>1. Init => Kept
  BY ProtocolAssumption DEF Init
<1>2. Kept /\ [Next]_vars => Kept'
  <2> SUFFICES ASSUME Kept, [Next]_vars PROVE Kept'
    OBVIOUS
  <2>1. CASE add_character_to_error
    BY <2>1, ProtocolAssumption DEF add_character_to_error, Full
  <2>2. CASE ScanAck \/ ScanNak \/ ScanPacket \/ ScanEof
    BY <2>2, ProtocolAssumption DEF ScanAck, ScanNak, ScanPacket, ScanEof
  <2>3. CASE Handles \/ UNCHANGED vars
    BY <2>3 DEF Handles, vars
  <2>4. CASE Issue \/ Leave \/ Debugger \/ Damage \/ Noise \/ Loss
    BY <2>4 DEF Issue, Leave, Debugger, Acknowledged, AskedAgain, Skips, Answered, Timeout,
        AnswerTimeout, Reads, Damage, Noise, Loss, stubState
  <2> QED BY <2>1, <2>2, <2>3, <2>4 DEF Next, Stub
<1>3. Kept => ErrorsFit
  BY DEF ErrorsFit
<1> QED BY <1>1, <1>2, <1>3, PTL DEF Spec

---------------------------------------------------------------------------
(* Noise.                                                                  *)

\* What makes the stub execute a command once more, before it does.
Coming ==
    executed + Single(stub = "handle") + Single(errors > 0)
        + Count(toStub, Asks) + Count(toGdb, {"-"})

\* While gdb waits for an acknowledgement, something will come of its packet, or
\* the packet was lost, and what it would have come to is not counted any more.
Awaited ==
    \/ Coming < issued + noise
    \/ Count(toStub, {"packet"}) # 0
    \/ Count(toGdb, {"+", "-"}) # 0

CountInv ==
    /\ executed \in Nat /\ issued \in Nat /\ noise \in Nat /\ errors \in Nat
    /\ IsLine(toStub) /\ IsLine(toGdb)
    /\ Coming <= issued + noise
    /\ gdb = "ack" /\ ~ended => Awaited

---------------------------------------------------------------------------
(* gdb and the line.                                                       *)

\* The counts are numbers.
LEMMA Numbers ==
    ASSUME CountInv
    PROVE  /\ Count(toStub, Asks) \in Nat /\ Count(toStub, {"packet"}) \in Nat
           /\ Count(toGdb, {"-"}) \in Nat /\ Count(toGdb, {"+", "-"}) \in Nat
BY CountType DEF CountInv

\* A token that gdb, or the line, puts behind the others.
LEMMA Appended ==
    ASSUME CountInv, NEW token, toStub' = Append(toStub, token)
    PROVE  /\ IsLine(toStub')
           /\ Count(toStub', Asks) = Count(toStub, Asks) + Single(token.type \in Asks)
           /\ Count(toStub', {"packet"}) = Count(toStub, {"packet"}) + Single(token.type \in {"packet"})
BY CountAppend DEF CountInv

\* A token that gdb reads.
LEMMA ReadByGdb ==
    ASSUME CountInv, Reads
    PROVE  /\ toGdb # <<>>
           /\ IsLine(toGdb')
           /\ Count(toGdb, {"-"}) = Single(Head(toGdb).type \in {"-"}) + Count(toGdb', {"-"})
           /\ Count(toGdb, {"+", "-"})
                = Single(Head(toGdb).type \in {"+", "-"}) + Count(toGdb', {"+", "-"})
BY CountTail DEF CountInv, Reads

\* Issue: one command more, and its packet.
LEMMA IssueCounts == ASSUME CountInv, Issue PROVE CountInv'
<1>1. PICK command \in Commands : toStub' = Append(toStub, Packet(command))
  BY DEF Issue
<1>2. Packet(command).type = "packet"
  BY DEF Packet, Token
<1>3. /\ IsLine(toStub')
      /\ Count(toStub', Asks) = Count(toStub, Asks) + 1
      /\ Count(toStub', {"packet"}) = Count(toStub, {"packet"}) + 1
  BY <1>1, <1>2, Appended DEF Single, Asks
<1>4. issued' = issued + 1 /\ UNCHANGED <<executed, stub, errors, toGdb, noise, ended>>
  BY DEF Issue, stubState, faults
<1>5. Coming' = Coming + 1 /\ Coming \in Nat
  BY <1>3, <1>4, Numbers DEF CountInv, Coming, Single
<1> QED BY <1>3, <1>4, <1>5, Numbers DEF CountInv, Awaited

\* Leave: the end of the stream asks for nothing.
LEMMA LeaveCounts == ASSUME CountInv, Leave PROVE CountInv'
<1>1. toStub' = Append(toStub, Char("EOF")) /\ Char("EOF").type = "EOF"
  BY Marks DEF Leave
<1>2. IsLine(toStub') /\ Count(toStub', Asks) = Count(toStub, Asks)
  BY <1>1, Appended, Numbers DEF Single, Asks
<1> QED BY <1>2, Numbers DEF CountInv, Coming, Leave, stubState, faults, history

\* Acknowledged: gdb waits no longer for it.
LEMMA AcknowledgedCounts == ASSUME CountInv, Acknowledged PROVE CountInv'
<1>1. /\ IsLine(toGdb') /\ Count(toGdb', {"-"}) = Count(toGdb, {"-"})
  <2>1. Reads /\ Head(toGdb).type = "+"
    BY DEF Acknowledged
  <2> QED BY <2>1, ReadByGdb, CountType DEF Single
<1>2. IsLine(toStub') /\ Count(toStub', Asks) = Count(toStub, Asks)
  <2>1. CASE toStub' = toStub
    BY <2>1 DEF CountInv
  <2>2. CASE toStub' = Append(toStub, Char("EOF"))
    BY <2>2, Appended, Numbers, Marks DEF Single, Asks
  <2> QED BY <2>1, <2>2 DEF Acknowledged
<1>3. gdb' # "ack"
  BY DEF Acknowledged
<1> QED BY <1>1, <1>2, <1>3, Numbers DEF CountInv, Coming, Acknowledged, Reads, stubState, faults

\* AskedAgain: the packet takes the place of the "-".
LEMMA AskedAgainCounts == ASSUME CountInv, AskedAgain PROVE CountInv'
<1>1. IsLine(toGdb') /\ Count(toGdb', {"-"}) + 1 = Count(toGdb, {"-"})
      /\ Count(toGdb', {"-"}) \in Nat
  <2>1. Reads /\ Head(toGdb).type = "-"
    BY DEF AskedAgain
  <2> QED BY <2>1, ReadByGdb, CountType DEF Single
<1>2. toStub' = Append(toStub, Packet(call)) /\ Packet(call).type = "packet"
  BY DEF AskedAgain, Packet, Token
<1>3. /\ IsLine(toStub')
      /\ Count(toStub', Asks) = Count(toStub, Asks) + 1
      /\ Count(toStub', {"packet"}) = Count(toStub, {"packet"}) + 1
  BY <1>2, Appended DEF Single, Asks
<1>4. UNCHANGED <<executed, stub, errors, issued, noise, ended>>
  BY DEF AskedAgain, Reads, stubState, faults
<1>5. Coming' = Coming
  BY <1>1, <1>3, <1>4, Numbers DEF CountInv, Coming, Single
<1> QED BY <1>1, <1>3, <1>4, <1>5, Numbers DEF CountInv, Awaited

\* Skips: an answer that comes too early, or an acknowledgement too late.
LEMMA SkipsCounts == ASSUME CountInv, Skips PROVE CountInv'
<1>1. Reads /\ UNCHANGED <<gdb, toStub>>
  BY DEF Skips
<1>2. /\ IsLine(toGdb')
      /\ Count(toGdb', {"-"}) \in Nat /\ Count(toGdb', {"-"}) <= Count(toGdb, {"-"})
      /\ gdb = "ack" => Count(toGdb', {"+", "-"}) = Count(toGdb, {"+", "-"})
  <2>1. gdb = "ack" => Head(toGdb).type = "packet"
    BY DEF Skips
  <2>2. IsLine(toGdb')
    BY <1>1, ReadByGdb
  <2>3. Count(toGdb', {"-"}) \in Nat /\ Count(toGdb', {"+", "-"}) \in Nat
    BY <2>2, CountType
  <2> QED BY <1>1, <2>1, <2>2, <2>3, ReadByGdb DEF Single
<1>3. UNCHANGED <<executed, stub, errors, toStub, issued, noise, ended>>
  BY <1>1 DEF Reads, stubState, faults
<1>4. Coming \in Nat /\ Coming' \in Nat /\ Coming' <= Coming
  BY <1>2, <1>3, Numbers DEF CountInv, Coming, Single
<1> QED BY <1>1, <1>2, <1>3, <1>4, Numbers DEF CountInv, Awaited

\* Answered: gdb does not wait for an acknowledgement.
LEMMA AnsweredCounts == ASSUME CountInv, Answered PROVE CountInv'
<1>1. Reads /\ Head(toGdb).type = "packet"
  BY DEF Answered
<1>2. IsLine(toGdb') /\ Count(toGdb', {"-"}) = Count(toGdb, {"-"})
  <2>1. IsLine(toGdb')
    BY <1>1, ReadByGdb
  <2>2. Count(toGdb', {"-"}) \in Nat
    BY <2>1, CountType
  <2> QED BY <1>1, <2>1, <2>2, ReadByGdb DEF Single
<1>3. IsLine(toStub') /\ Count(toStub', Asks) = Count(toStub, Asks)
  <2>1. PICK mark \in {"+", "-"} : toStub' = Append(toStub, Char(mark))
    BY DEF Answered
  <2>2. Char(mark).type = mark
    BY Marks
  <2>3. Char(mark).type \notin Asks
    BY <2>1, <2>2 DEF Asks
  <2> QED BY <2>1, <2>3, Appended, Numbers DEF Single
<1>4. gdb' # "ack"
  BY DEF Answered
<1>5. UNCHANGED <<executed, stub, errors, issued, noise, ended>>
  BY DEF Answered, Reads, stubState, faults
<1>6. Coming' = Coming
  BY <1>2, <1>3, <1>5 DEF Coming
<1> QED BY <1>2, <1>3, <1>4, <1>5, <1>6 DEF CountInv

\* Timeout: nothing moves and gdb waits, so the packet or its acknowledgement was
\* lost: the packet is sent again at the expense of that loss.
LEMMA TimeoutCounts == ASSUME CountInv, ~ended, Timeout PROVE CountInv'
<1>1. Coming < issued + noise
  <2>1. Awaited /\ toGdb = <<>> /\ Places(toStub, {"packet", "EOF"}) = {}
    BY DEF CountInv, Timeout, Still
  <2>2. Places(toStub, {"packet"}) = {}
    BY <2>1 DEF Places
  <2>3. Count(toStub, {"packet"}) = 0 /\ Count(<<>>, {"+", "-"}) = 0
    BY <2>2, CountType, CountShort DEF CountInv
  <2> QED BY <2>1, <2>3 DEF Awaited
<1>2. toStub' = Append(toStub, Packet(call)) /\ Packet(call).type = "packet"
  BY DEF Timeout, Packet, Token
<1>3. /\ IsLine(toStub')
      /\ Count(toStub', Asks) = Count(toStub, Asks) + 1
      /\ Count(toStub', {"packet"}) = Count(toStub, {"packet"}) + 1
  BY <1>2, Appended DEF Single, Asks
<1>4. UNCHANGED <<executed, stub, errors, toGdb, issued, noise, ended>>
  BY DEF Timeout, debugger, stubState, faults, history
<1>5. Coming \in Nat /\ Coming' = Coming + 1
  BY <1>3, <1>4, Numbers DEF CountInv, Coming, Single
<1> QED BY <1>1, <1>3, <1>4, <1>5, Numbers DEF CountInv, Awaited

\* AnswerTimeout: the demand for an answer makes the stub execute nothing.
LEMMA AnswerTimeoutCounts == ASSUME CountInv, AnswerTimeout PROVE CountInv'
<1>1. toStub' = Append(toStub, Char("-")) /\ Char("-").type = "-"
  BY Marks DEF AnswerTimeout
<1>2. IsLine(toStub') /\ Count(toStub', Asks) = Count(toStub, Asks)
  BY <1>1, Appended, Numbers DEF Single, Asks
<1>3. gdb' # "ack"
  BY DEF AnswerTimeout, debugger
<1> QED BY <1>2, <1>3, Numbers
        DEF CountInv, Coming, AnswerTimeout, debugger, stubState, faults, history

\* Damage: a packet with a bad checksum is a packet.
LEMMA DamageCounts == ASSUME CountInv, Damage PROVE CountInv'
<1>1. UNCHANGED <<executed, stub, errors, issued, noise, ended, gdb>>
  BY DEF Damage, debugger, stubState, history
<1>2. \A body : Token("packet", body, FALSE).type = "packet"
  BY DEF Token
<1>3. CASE /\ Spoils(toStub) /\ UNCHANGED toGdb
           /\ toStub' = Struck(toStub, Token("packet", Head(toStub).body, FALSE))
  <2>1. toStub # <<>> /\ Head(toStub).type = "packet"
    BY <1>3 DEF Spoils
  <2>2. /\ IsLine(toStub') /\ Count(toStub', Asks) = Count(toStub, Asks)
        /\ Count(toStub', {"packet"}) = Count(toStub, {"packet"})
    <3>1. PICK token : token.type = "packet" /\ toStub' = Struck(toStub, token)
      BY <1>2, <1>3
    <3>2. \A types : /\ IsLine(Struck(toStub, token))
                     /\ Count(Struck(toStub, token), types) = Count(toStub, types)
      BY <2>1, <3>1, CountTail DEF CountInv
    <3> QED BY <3>1, <3>2
  <2> QED BY <1>1, <1>3, <2>2 DEF CountInv, Coming, Awaited
<1>4. CASE /\ Spoils(toGdb) /\ UNCHANGED toStub
           /\ toGdb' = Struck(toGdb, Token("packet", Head(toGdb).body, FALSE))
  <2>1. toGdb # <<>> /\ Head(toGdb).type = "packet"
    BY <1>4 DEF Spoils
  <2>2. /\ IsLine(toGdb') /\ Count(toGdb', {"-"}) = Count(toGdb, {"-"})
        /\ Count(toGdb', {"+", "-"}) = Count(toGdb, {"+", "-"})
    <3>1. PICK token : token.type = "packet" /\ toGdb' = Struck(toGdb, token)
      BY <1>2, <1>4
    <3>2. \A types : /\ IsLine(Struck(toGdb, token))
                     /\ Count(Struck(toGdb, token), types) = Count(toGdb, types)
      BY <2>1, <3>1, CountTail DEF CountInv
    <3> QED BY <3>1, <3>2
  <2> QED BY <1>1, <1>4, <2>2 DEF CountInv, Coming, Awaited
<1> QED BY <1>3, <1>4 DEF Damage

\* Noise: each invalid byte may come to an execution itself, and is counted; the
\* packet among whose bytes they are is one of them less.
LEMMA NoiseCounts == ASSUME CountInv, Noise PROVE CountInv'
<1>1. PICK bytes \in Garbles :
        /\ noise' = noise + Invalid(bytes)
        /\ \/ toStub' = toStub \o bytes
           \/ Spoils(toStub) /\ toStub' = bytes \o Tail(toStub)
        /\ UNCHANGED <<ended, debugger, toGdb, stubState, history>>
  BY DEF Noise
<1>2. UNCHANGED <<executed, stub, errors, issued, ended, gdb, toGdb>>
  BY <1>1 DEF debugger, stubState, history
<1>3. /\ IsLine(bytes) /\ Invalid(bytes) \in Nat \ {0}
      /\ Count(bytes, Asks) = Invalid(bytes) /\ Count(bytes, {"packet"}) = 0
  BY GarbleCounts
<1>4. CASE toStub' = toStub \o bytes
  <2>1. /\ IsLine(toStub') /\ Count(toStub', Asks) = Count(toStub, Asks) + Invalid(bytes)
        /\ Count(toStub', {"packet"}) = Count(toStub, {"packet"})
    BY <1>3, <1>4, CountConcat, Numbers DEF CountInv
  <2>2. Coming \in Nat /\ Coming' = Coming + Invalid(bytes)
    BY <1>2, <1>3, <2>1, Numbers DEF CountInv, Coming, Single
  <2> QED BY <1>1, <1>2, <1>3, <2>1, <2>2, Numbers DEF CountInv, Awaited
<1>5. CASE Spoils(toStub) /\ toStub' = bytes \o Tail(toStub)
  <2>1. toStub # <<>> /\ Head(toStub).type = "packet"
    BY <1>5 DEF Spoils
  <2>2. IsLine(Tail(toStub)) /\ Count(toStub, Asks) = 1 + Count(Tail(toStub), Asks)
    BY <2>1, CountTail DEF CountInv, Asks, Single
  <2>3. Count(Tail(toStub), Asks) \in Nat
    BY <2>2, CountType
  <2>4. IsLine(toStub') /\ Count(toStub', Asks) + 1 = Count(toStub, Asks) + Invalid(bytes)
    BY <1>3, <1>5, <2>2, <2>3, CountConcat
  <2>5. Count(toStub', Asks) \in Nat
    BY <2>4, CountType
  <2>6. Coming \in Nat /\ Coming' \in Nat /\ Coming' + 1 = Coming + Invalid(bytes)
    BY <1>2, <1>3, <2>4, <2>5, Numbers DEF CountInv, Coming, Single
  <2> QED BY <1>1, <1>2, <1>3, <2>4, <2>6 DEF CountInv, Awaited
<1> QED BY <1>1, <1>4, <1>5

\* Loss: what is lost may make gdb send its packet again, and is counted.
LEMMA LossCounts == ASSUME CountInv, Loss PROVE CountInv'
<1>1. noise' = noise + 1 /\ UNCHANGED <<executed, stub, errors, issued, ended, gdb>>
  BY DEF Loss, debugger, stubState, history
<1>2. /\ IsLine(toStub') /\ Count(toStub', Asks) <= Count(toStub, Asks)
      /\ IsLine(toGdb') /\ Count(toGdb', {"-"}) <= Count(toGdb, {"-"})
  <2>1. ASSUME NEW line, IsLine(line), line # <<>>, NEW types
        PROVE  IsLine(Tail(line)) /\ Count(Tail(line), types) <= Count(line, types)
    <3>1. /\ IsLine(Tail(line))
          /\ Count(line, types) = Single(Head(line).type \in types) + Count(Tail(line), types)
      BY <2>1, CountTail
    <3>2. Count(Tail(line), types) \in Nat
      BY <3>1, CountType
    <3> QED BY <3>1, <3>2 DEF Single
  <2>2. CASE toStub # <<>> /\ toStub' = Tail(toStub) /\ UNCHANGED toGdb
    BY <2>1, <2>2, Numbers DEF CountInv
  <2>3. CASE toGdb # <<>> /\ toGdb' = Tail(toGdb) /\ UNCHANGED toStub
    BY <2>1, <2>3, Numbers DEF CountInv
  <2> QED BY <2>2, <2>3 DEF Loss
<1>3. Count(toStub', Asks) \in Nat /\ Count(toGdb', {"-"}) \in Nat
  BY <1>2, CountType
<1>4. Coming \in Nat /\ Coming' \in Nat /\ Coming' <= Coming
  BY <1>1, <1>2, <1>3, Numbers DEF CountInv, Coming, Single
<1> QED BY <1>1, <1>2, <1>4 DEF CountInv, Awaited

---------------------------------------------------------------------------
(* The stub.                                                               *)

\* A token that the stub reads.
LEMMA ReadByStub ==
    ASSUME CountInv, NEW type, Scans(type)
    PROVE  /\ IsLine(toStub')
           /\ Count(toStub', Asks) \in Nat /\ Count(toStub', {"packet"}) \in Nat
           /\ Count(toStub, Asks) = Single(type \in Asks) + Count(toStub', Asks)
           /\ Count(toStub, {"packet"}) = Single(type \in {"packet"}) + Count(toStub', {"packet"})
           /\ stub = "scan" /\ UNCHANGED <<executed, issued, noise, gdb>>
<1>1. IsLine(toStub) /\ toStub # <<>> /\ Head(toStub).type = type /\ toStub' = Tail(toStub)
  BY DEF CountInv, Scans
<1>2. /\ IsLine(toStub')
      /\ Count(toStub, Asks) = Single(type \in Asks) + Count(toStub', Asks)
      /\ Count(toStub, {"packet"}) = Single(type \in {"packet"}) + Count(toStub', {"packet"})
  BY <1>1, CountTail
<1>3. stub = "scan" /\ UNCHANGED <<executed, issued, noise, gdb>>
  BY DEF Scans, debugger, faults, history
<1> QED BY <1>2, <1>3, CountType

\* What the stub sends: all of it is on the line, or the process has ended.
LEMMA Sent ==
    ASSUME CountInv, NEW tokens, IsLine(tokens), Sends(tokens)
    PROVE  /\ IsLine(toGdb')
           /\ Count(toGdb', {"-"}) \in Nat /\ Count(toGdb', {"+", "-"}) \in Nat
           /\ Count(toGdb', {"-"}) <= Count(toGdb, {"-"}) + Count(tokens, {"-"})
           /\ \/ ended' = TRUE
              \/ /\ UNCHANGED ended
                 /\ Count(toGdb', {"+", "-"})
                        = Count(toGdb, {"+", "-"}) + Count(tokens, {"+", "-"})
<1>1. IsLine(toGdb)
  BY DEF CountInv
<1>2. Count(tokens, {"-"}) \in Nat /\ Count(tokens, {"+", "-"}) \in Nat
  BY CountType
<1>3. CASE toGdb' = toGdb \o tokens /\ UNCHANGED ended
  <2>1. /\ IsLine(toGdb')
        /\ Count(toGdb', {"-"}) = Count(toGdb, {"-"}) + Count(tokens, {"-"})
        /\ Count(toGdb', {"+", "-"}) = Count(toGdb, {"+", "-"}) + Count(tokens, {"+", "-"})
    BY <1>1, <1>3, CountConcat
  <2> QED BY <1>2, <1>3, <2>1, Numbers
<1>4. CASE ended' = TRUE /\ UNCHANGED toGdb
  BY <1>1, <1>2, <1>4, Numbers
<1> QED BY <1>3, <1>4 DEF Sends

\* handle_error: at most one "-", and only when there are invalid data.
LEMMA Flushed ==
    /\ IsLine(handle_error)
    /\ Count(handle_error, {"-"}) = Single(errors > 0)
    /\ Count(handle_error, {"+", "-"}) = Single(errors > 0)
<1>1. Char("-").type = "-"
  BY Marks
<1>2. CASE errors > 0
  BY <1>1, <1>2, CountShort DEF handle_error, Single
<1>3. CASE ~(errors > 0)
  BY <1>3, CountShort DEF handle_error, Single
<1> QED BY <1>2, <1>3

\* The sum over what is executed, read, flushed and sent.
LEMMA Balance ==
    ASSUME NEW x \in Nat, NEW handed \in Nat, NEW kept \in Nat, NEW flushed \in Nat,
           NEW read \in Nat, NEW sent \in Nat, NEW a \in Nat, NEW a1 \in Nat,
           NEW d \in Nat, NEW d1 \in Nat,
           a = read + a1, d1 <= d + sent, sent + handed + kept <= read + flushed
    PROVE  /\ x + handed + kept + a1 + d1 <= x + 0 + flushed + a + d
           /\ x + handed + kept + a1 + d1 \in Nat /\ x + 0 + flushed + a + d \in Nat
OBVIOUS

\* The step of a rule keeps the invariant when what it sends asks for no more
\* than what it has read and flushed.
LEMMA RuleCounts ==
    ASSUME CountInv, NEW type, Scans(type), NEW tokens, IsLine(tokens), Sends(tokens),
           NEW handed \in {0, 1}, NEW kept \in {0, 1},
           handed = Single(stub' = "handle"), kept = Single(errors' > 0), errors' \in Nat,
           Count(tokens, {"-"}) + handed + kept <= Single(type \in Asks) + Single(errors > 0),
           type = "packet" => Count(tokens, {"+", "-"}) # 0
    PROVE  CountInv'
<1>1. Coming \in Nat /\ Coming' \in Nat /\ Coming' <= Coming
  <2>1. Count(tokens, {"-"}) \in Nat
    BY CountType
  <2>2. Single(stub = "handle") = 0 /\ executed' = executed
    BY ReadByStub DEF Single
  <2>3. /\ Count(toStub', Asks) \in Nat
        /\ Count(toStub, Asks) = Single(type \in Asks) + Count(toStub', Asks)
    BY ReadByStub
  <2>4. /\ Count(toGdb', {"-"}) \in Nat
        /\ Count(toGdb', {"-"}) <= Count(toGdb, {"-"}) + Count(tokens, {"-"})
    BY Sent
  <2>5. Single(type \in Asks) \in Nat /\ Single(errors > 0) \in Nat
    BY DEF Single
  <2>6. executed \in Nat /\ handed \in Nat /\ kept \in Nat
    BY DEF CountInv
  <2>7. /\ Coming = executed + 0 + Single(errors > 0) + Count(toStub, Asks) + Count(toGdb, {"-"})
        /\ Coming' = executed + handed + kept + Count(toStub', Asks) + Count(toGdb', {"-"})
    BY <2>2 DEF Coming
  <2> DEFINE before == executed + 0 + Single(errors > 0) + Count(toStub, Asks) + Count(toGdb, {"-"})
             after  == executed + handed + kept + Count(toStub', Asks) + Count(toGdb', {"-"})
  <2>8. after <= before /\ after \in Nat /\ before \in Nat
    BY <2>1, <2>3, <2>4, <2>5, <2>6, Numbers, Balance
  <2> QED BY <2>7, <2>8
<1>2. IsLine(toStub') /\ IsLine(toGdb')
  BY ReadByStub, Sent
<1>3. UNCHANGED <<executed, issued, noise, gdb>>
  BY ReadByStub
<1>4. gdb' = "ack" /\ ~ended' => Awaited'
  <2> SUFFICES ASSUME gdb' = "ack", ~ended' PROVE Awaited'
    OBVIOUS
  <2>1. /\ Count(tokens, {"+", "-"}) \in Nat
        /\ Count(toGdb', {"+", "-"}) = Count(toGdb, {"+", "-"}) + Count(tokens, {"+", "-"})
        /\ UNCHANGED ended
    BY Sent, CountType
  <2>2. Awaited
    BY <1>3, <2>1 DEF CountInv
  <2>3. CASE type = "packet"
    BY <2>1, <2>3, Numbers DEF Awaited
  <2>4. CASE type # "packet"
    <3>1. Count(toStub', {"packet"}) = Count(toStub, {"packet"})
      BY <2>4, ReadByStub, Numbers DEF Single
    <3> QED BY <1>1, <1>3, <2>1, <2>2, <3>1, Numbers DEF Awaited, CountInv
  <2> QED BY <2>3, <2>4
<1> QED BY <1>1, <1>2, <1>3, <1>4 DEF CountInv

\* ScanAck: a "-" at most, for the invalid data.
LEMMA ScanAckCounts == ASSUME CountInv, ScanAck PROVE CountInv'
<1>1. Scans("+") /\ Sends(handle_error) /\ errors' = 0 /\ stub' = stub
  BY DEF ScanAck
<1>2. stub = "scan"
  BY <1>1 DEF Scans
<1>3. Single(stub' = "handle") = 0 /\ Single(errors' > 0) = 0 /\ Single("+" \in Asks) = 0
      /\ errors' \in Nat
  BY <1>1, <1>2 DEF Single, Asks
<1>4. Single(errors > 0) \in Nat
  BY DEF Single
<1>5. Count(handle_error, {"-"}) + 0 + 0 <= Single("+" \in Asks) + Single(errors > 0)
  BY <1>3, <1>4, Flushed
<1> QED BY <1>1, <1>3, <1>5, Flushed, RuleCounts

\* ScanNak: besides, the last answer, which asks for nothing.
LEMMA ScanNakCounts == ASSUME CountInv, ScanNak PROVE CountInv'
<1>1. /\ Scans("-") /\ Sends(handle_error \o gdb_transmit_packet)
      /\ errors' = 0 /\ stub' = stub
  BY DEF ScanNak
<1>2. stub = "scan"
  BY <1>1 DEF Scans
<1>3. Single(stub' = "handle") = 0 /\ Single(errors' > 0) = 0 /\ Single("-" \in Asks) = 0
      /\ errors' \in Nat
  BY <1>1, <1>2 DEF Single, Asks
<1>4. Single(errors > 0) \in Nat
  BY DEF Single
<1>5. IsLine(gdb_transmit_packet) /\ Count(gdb_transmit_packet, {"-"}) = 0
  <2>1. Packet(packet).type = "packet"
    BY DEF Packet, Token
  <2>2. IsLine(<<>>) /\ Count(<<>>, {"-"}) = 0
    BY CountShort
  <2>3. IsLine(<<Packet(packet)>>) /\ Count(<<Packet(packet)>>, {"-"}) = 0
    BY <2>1, CountShort DEF Single
  <2> QED BY <2>2, <2>3 DEF gdb_transmit_packet
<1>6. /\ IsLine(handle_error \o gdb_transmit_packet)
      /\ Count(handle_error \o gdb_transmit_packet, {"-"}) = Single(errors > 0) + 0
  BY <1>5, CountConcat, Flushed
<1>7. Count(handle_error \o gdb_transmit_packet, {"-"}) + 0 + 0
        <= Single("-" \in Asks) + Single(errors > 0)
  BY <1>3, <1>4, <1>6
<1> QED BY <1>1, <1>3, <1>6, <1>7, RuleCounts

\* ScanPacket: the packet is handed on and acknowledged, or asked for again.
LEMMA ScanPacketCounts == ASSUME CountInv, ScanPacket PROVE CountInv'
<1> DEFINE mark == IF Head(toStub).good THEN Char("+") ELSE Char("-")
           asked == IF Head(toStub).good THEN 0 ELSE 1
           tokens == handle_error \o <<mark>>
<1>1. /\ Scans("packet") /\ Sends(tokens) /\ errors' = 0
      /\ stub' = IF Head(toStub).good THEN "handle" ELSE stub
  BY DEF ScanPacket, Handled
<1>2. stub = "scan"
  BY <1>1 DEF Scans
<1>3. Single(stub' = "handle") = 1 - asked /\ Single(errors' > 0) = 0 /\ errors' \in Nat
      /\ Single("packet" \in Asks) = 1
  BY <1>1, <1>2 DEF Single, Asks
<1>4. Single(errors > 0) \in Nat
  BY DEF Single
<1>5. /\ IsLine(<<mark>>) /\ Count(<<mark>>, {"-"}) = asked
      /\ Count(<<mark>>, {"+", "-"}) = 1
  <2>1. mark.type = IF Head(toStub).good THEN "+" ELSE "-"
    BY Marks
  <2> HIDE DEF mark
  <2> QED BY <2>1, CountShort DEF Single
<1> HIDE DEF mark
<1>6. /\ IsLine(tokens)
      /\ Count(tokens, {"-"}) = Single(errors > 0) + asked
      /\ Count(tokens, {"+", "-"}) = Single(errors > 0) + 1
  BY <1>5, CountConcat, Flushed
<1> HIDE DEF tokens
<1>7. (1 - asked) \in {0, 1} /\ asked \in {0, 1}
  OBVIOUS
<1> HIDE DEF asked
<1>8. /\ Count(tokens, {"-"}) + (1 - asked) + 0 <= Single("packet" \in Asks) + Single(errors > 0)
      /\ Count(tokens, {"+", "-"}) # 0
  BY <1>3, <1>4, <1>6, <1>7
<1> QED BY <1>1, <1>3, <1>6, <1>7, <1>8, RuleCounts

\* Invalid data: what was kept is flushed when the buffer is full, and the byte
\* begins it anew.
LEMMA ErrorCounts == ASSUME CountInv, add_character_to_error PROVE CountInv'
<1> DEFINE tokens == IF Full THEN handle_error ELSE <<>>
<1>1. /\ Scans("noise") /\ Sends(tokens) /\ errors' = (IF Full THEN 0 ELSE errors) + 1
      /\ stub' = stub
  BY DEF add_character_to_error
<1>2. stub = "scan" /\ errors \in Nat
  BY <1>1 DEF Scans, CountInv
<1>3. /\ errors' \in Nat /\ Single(stub' = "handle") = 0 /\ Single(errors' > 0) = 1
      /\ Single("noise" \in Asks) = 1
  BY <1>1, <1>2 DEF Single, Asks
<1>4. Single(errors > 0) \in Nat
  BY DEF Single
<1>5. /\ IsLine(tokens)
      /\ Count(tokens, {"-"}) \in Nat /\ Count(tokens, {"-"}) <= Single(errors > 0)
  <2>1. CASE Full
    BY <1>4, <2>1, Flushed
  <2>2. CASE ~Full
    <3>1. IsLine(<<>>) /\ Count(<<>>, {"-"}) = 0
      BY CountShort
    <3> QED BY <1>4, <2>2, <3>1
  <2> QED BY <2>1, <2>2
<1> HIDE DEF tokens
<1>6. Count(tokens, {"-"}) + 0 + 1 <= Single("noise" \in Asks) + Single(errors > 0)
  BY <1>3, <1>4, <1>5
<1> QED BY <1>1, <1>3, <1>5, <1>6, RuleCounts

\* ScanEof.
LEMMA ScanEofCounts == ASSUME CountInv, ScanEof PROVE CountInv'
<1>1. Scans("EOF") /\ Sends(handle_error) /\ errors' = 0 /\ stub' = "done"
  BY DEF ScanEof
<1>2. Single(stub' = "handle") = 0 /\ Single(errors' > 0) = 0 /\ Single("EOF" \in Asks) = 0
      /\ errors' \in Nat
  BY <1>1 DEF Single, Asks
<1>3. Single(errors > 0) \in Nat
  BY DEF Single
<1>4. Count(handle_error, {"-"}) + 0 + 0 <= Single("EOF" \in Asks) + Single(errors > 0)
  BY <1>2, <1>3, Flushed
<1> QED BY <1>1, <1>2, <1>4, Flushed, RuleCounts

\* Handles: what was handed on is executed, once.
LEMMA HandlesCounts == ASSUME CountInv, ~ended, Handles PROVE CountInv'
<1>1. /\ stub = "handle" /\ stub' = "scan" /\ executed' = executed + 1
      /\ UNCHANGED <<gdb, issued, noise, toStub, errors>>
  BY DEF Handles, debugger, faults
<1>2. /\ IsLine(toGdb')
      /\ Count(toGdb', {"-"}) \in Nat /\ Count(toGdb', {"-"}) <= Count(toGdb, {"-"})
      /\ ~ended' => Count(toGdb', {"+", "-"}) = Count(toGdb, {"+", "-"})
  <2>1. PICK answer : Sends(<<Packet(answer)>>) \/ UNCHANGED toGdb
    BY DEF Handles
  <2>2. CASE UNCHANGED toGdb
    BY <2>2, Numbers DEF CountInv
  <2>3. CASE Sends(<<Packet(answer)>>)
    <3>1. Packet(answer).type = "packet"
      BY DEF Packet, Token
    <3>2. /\ IsLine(<<Packet(answer)>>) /\ Count(<<Packet(answer)>>, {"-"}) = 0
          /\ Count(<<Packet(answer)>>, {"+", "-"}) = 0
      BY <3>1, CountShort DEF Single
    <3> DEFINE tokens == <<Packet(answer)>>
    <3> HIDE DEF tokens
    <3>3. /\ IsLine(tokens) /\ Sends(tokens)
          /\ Count(tokens, {"-"}) = 0 /\ Count(tokens, {"+", "-"}) = 0
      BY <2>3, <3>2 DEF tokens
    <3>4. /\ IsLine(toGdb')
          /\ Count(toGdb', {"-"}) \in Nat
          /\ Count(toGdb', {"-"}) <= Count(toGdb, {"-"}) + Count(tokens, {"-"})
          /\ \/ ended' = TRUE
             \/ Count(toGdb', {"+", "-"})
                    = Count(toGdb, {"+", "-"}) + Count(tokens, {"+", "-"})
      BY <3>3, Sent
    <3> QED BY <3>3, <3>4, Numbers
  <2> QED BY <2>1, <2>2, <2>3
<1>3. Coming \in Nat /\ Coming' \in Nat /\ Coming' <= Coming
  <2>1. Single(errors > 0) \in Nat
    BY DEF Single
  <2>2. /\ Coming = executed + 1 + Single(errors > 0) + Count(toStub, Asks) + Count(toGdb, {"-"})
        /\ Coming' = executed + 1 + 0 + Single(errors > 0) + Count(toStub, Asks) + Count(toGdb', {"-"})
    BY <1>1 DEF Coming, Single
  <2>3. executed \in Nat
    BY DEF CountInv
  <2> QED BY <1>2, <2>1, <2>2, <2>3, Numbers
<1>4. gdb' = "ack" /\ ~ended' => Awaited'
  <2> SUFFICES ASSUME gdb' = "ack", ~ended' PROVE Awaited'
    OBVIOUS
  <2>1. Awaited
    BY <1>1 DEF CountInv
  <2> QED BY <1>1, <1>2, <1>3, <2>1 DEF Awaited, CountInv
<1> QED BY <1>1, <1>2, <1>3, <1>4 DEF CountInv

---------------------------------------------------------------------------
(* Every step.                                                             *)

\* handle_error and the sending again of both sides: a command is executed once for
\* each time gdb asked for it, and once more at most for each invalid byte the
\* scanner reads, those of a packet without its "$" or "#" included, and for each
\* acknowledgement, packet or answer the line loses, for any number of commands,
\* faults and bytes.
THEOREM NoiseExecutesOnceMore == Spec => []ExecutionsBounded
<1>1. Init => CountInv
  <2>1. Init => /\ executed = 0 /\ issued = 0 /\ noise = 0 /\ errors = 0
                /\ toStub = <<>> /\ toGdb = <<>> /\ stub = "scan" /\ gdb = "idle"
    BY DEF Init
  <2>2. IsLine(<<>>) /\ Count(<<>>, Asks) = 0 /\ Count(<<>>, {"-"}) = 0
    BY CountShort
  <2>3. Init => Single(stub = "handle") = 0 /\ Single(errors > 0) = 0
    BY <2>1 DEF Single
  <2>4. Init => Coming = 0
    BY <2>1, <2>2, <2>3 DEF Coming
  <2> QED BY <2>1, <2>2, <2>4 DEF CountInv
<1>2. CountInv /\ [Next]_vars => CountInv'
  <2> SUFFICES ASSUME CountInv, [Next]_vars PROVE CountInv'
    OBVIOUS
  <2>1. CASE ~ended /\ (Issue \/ Leave \/ Damage \/ Noise \/ Loss)
    BY <2>1, IssueCounts, LeaveCounts, DamageCounts, NoiseCounts, LossCounts
  <2>2. CASE ~ended /\ Debugger
    BY <2>2, AcknowledgedCounts, AskedAgainCounts, SkipsCounts, AnsweredCounts, TimeoutCounts,
       AnswerTimeoutCounts
       DEF Debugger
  <2>3. CASE ~ended /\ Stub
    BY <2>3, ScanAckCounts, ScanNakCounts, ScanPacketCounts, ErrorCounts, ScanEofCounts,
       HandlesCounts DEF Stub
  <2>4. CASE UNCHANGED vars
    BY <2>4 DEF CountInv, Coming, Awaited, vars
  <2> QED BY <2>1, <2>2, <2>3, <2>4 DEF Next
<1>3. CountInv => ExecutionsBounded
  <2> SUFFICES ASSUME CountInv PROVE ExecutionsBounded
    OBVIOUS
  <2>1. executed \in Nat /\ issued \in Nat /\ noise \in Nat /\ Coming <= issued + noise
    BY DEF CountInv
  <2>2. Single(stub = "handle") \in Nat /\ Single(errors > 0) \in Nat
    BY DEF Single
  <2>3. executed <= Coming /\ Coming \in Nat
    BY <2>1, <2>2, Numbers DEF Coming
  <2> QED BY <2>1, <2>3 DEF ExecutionsBounded
<1> QED BY <1>1, <1>2, <1>3, PTL DEF Spec

---------------------------------------------------------------------------
(* Types.                                                                  *)

\* A handler leaves a target and an answer, or none.
HandlersTyped ==
    /\ InitialTargets \subseteq Targets
    /\ \A command \in Commands, t \in Targets : \A o \in Outcomes(command, t) :
            o.target \in Targets /\ o.answer \in Answers \cup {NoAnswer} /\ o.ended \in BOOLEAN

Asking == {Packet(c) : c \in Commands} \cup {Token("packet", c, FALSE) : c \in Commands}
            \cup {Char("+"), Char("-"), Char("noise"), Char("EOF")}
Telling == {Packet(a) : a \in Answers \cup {NoAnswer}}
            \cup {Token("packet", a, FALSE) : a \in Answers \cup {NoAnswer}}
            \cup {Char("+"), Char("-")}

\* The packets on the line carry commands one way and answers the other.
LineTyped == toStub \in Seq(Asking) /\ toGdb \in Seq(Telling)

TargetTyped ==
    /\ target \in Targets /\ ended \in BOOLEAN
    /\ packet \in Answers \cup {NoAnswer} /\ reply \in Answers \cup {NoAnswer}

DebuggerTyped ==
    /\ gdb \in {"idle", "ack", "answer", "gone"}
    /\ gdb = "ack" => call \in Commands
    /\ call \in Commands \cup {NoCommand}
    /\ result \in Answers \cup {NoAnswer}
    /\ issued \in 0..MaxCommands
    /\ phase \in {"idle", "asked", "executed"}

StubTyped ==
    /\ stub \in {"scan", "handle", "done"}
    /\ work \in Commands \cup {NoCommand}
    /\ stub = "handle" <=> work # NoCommand
    /\ open \in BOOLEAN

FaultsTyped == damage \in Nat /\ noise \in Nat /\ damage + noise <= MaxFaults

Typed == LineTyped /\ TargetTyped /\ DebuggerTyped /\ StubTyped /\ FaultsTyped

\* What the tokens on the line are.
LEMMA Lined ==
    /\ \A t \in Asking : /\ t.type \in Tokens
                         /\ t.type = "packet" => t.body \in Commands
                                                /\ Token("packet", t.body, FALSE) \in Asking
    /\ \A t \in Telling : /\ t.type \in {"+", "-", "packet"}
                          /\ t.type = "packet" => t.body \in Answers \cup {NoAnswer}
                                                 /\ Token("packet", t.body, FALSE) \in Telling
<1>1. ASSUME NEW t \in Asking
      PROVE  /\ t.type \in Tokens
             /\ t.type = "packet" => t.body \in Commands /\ Token("packet", t.body, FALSE) \in Asking
  <2>1. CASE \E c \in Commands : t = Packet(c) \/ t = Token("packet", c, FALSE)
    <3>1. PICK c \in Commands : t = Packet(c) \/ t = Token("packet", c, FALSE)
      BY <2>1
    <3>2. t.type = "packet" /\ t.body = c
      BY <3>1 DEF Packet, Token
    <3> QED BY <3>2 DEF Asking, Tokens
  <2>2. CASE t \in {Char("+"), Char("-"), Char("noise"), Char("EOF")}
    <3>1. t.type \in {"+", "-", "noise", "EOF"}
      BY <2>2 DEF Char, Token
    <3> QED BY <3>1 DEF Tokens
  <2> QED BY <2>1, <2>2 DEF Asking
<1>2. ASSUME NEW t \in Telling
      PROVE  /\ t.type \in {"+", "-", "packet"}
             /\ t.type = "packet" => t.body \in Answers \cup {NoAnswer}
                                        /\ Token("packet", t.body, FALSE) \in Telling
  <2>1. CASE \E a \in Answers \cup {NoAnswer} : t = Packet(a) \/ t = Token("packet", a, FALSE)
    <3>1. PICK a \in Answers \cup {NoAnswer} : t = Packet(a) \/ t = Token("packet", a, FALSE)
      BY <2>1
    <3>2. t.type = "packet" /\ t.body = a
      BY <3>1 DEF Packet, Token
    <3> QED BY <3>2 DEF Telling
  <2>2. CASE t \in {Char("+"), Char("-")}
    <3>1. t.type \in {"+", "-"}
      BY <2>2 DEF Char, Token
    <3> QED BY <3>1
  <2> QED BY <2>1, <2>2 DEF Telling
<1> QED BY <1>1, <1>2

\* Reading, writing and striking a line keep its tokens.
LEMMA LineKept ==
    ASSUME NEW S, NEW line \in Seq(S)
    PROVE  /\ \A t \in S : Append(line, t) \in Seq(S)
           /\ \A s \in Seq(S) : line \o s \in Seq(S)
           /\ line # <<>> => Head(line) \in S /\ Tail(line) \in Seq(S)
           /\ line # <<>> => \A t \in S : Struck(line, t) \in Seq(S)
<1>1. \A t \in S : Append(line, t) \in Seq(S) /\ <<t>> \in Seq(S)
  OBVIOUS
<1>2. \A r \in Seq(S), s \in Seq(S) : r \o s \in Seq(S)
  OBVIOUS
<1>3. line # <<>> => Head(line) \in S /\ Tail(line) \in Seq(S)
  OBVIOUS
<1> QED BY <1>1, <1>2, <1>3 DEF Struck

\* The marks of one character.
LEMMA MarksOnLines ==
    /\ {Char("+"), Char("-"), Char("noise"), Char("EOF")} \subseteq Asking
    /\ {Char("+"), Char("-")} \subseteq Telling
    /\ \A c \in Commands : Packet(c) \in Asking
    /\ \A a \in Answers \cup {NoAnswer} : Packet(a) \in Telling
BY DEF Asking, Telling

\* What gdb reads.
LEMMA ReadsTyped ==
    ASSUME Typed, Reads
    PROVE  /\ toGdb # <<>> /\ Head(toGdb) \in Telling /\ toGdb' \in Seq(Telling)
           /\ TargetTyped /\ target' = target /\ ended' = ended /\ packet' = packet
           /\ StubTyped' /\ FaultsTyped' /\ issued' = issued
<1>1. toGdb \in Seq(Telling)
  BY DEF Typed, LineTyped
<1>2. toGdb # <<>> /\ Head(toGdb) \in Telling /\ toGdb' \in Seq(Telling)
  BY <1>1, LineKept DEF Reads
<1>3. UNCHANGED <<target, ended, issued, stub, work, packet, errors, open, damage, noise>>
  BY DEF Reads, stubState, faults
<1> QED BY <1>2, <1>3 DEF Typed, TargetTyped, StubTyped, FaultsTyped

\* The debugger asks or leaves.
LEMMA AskTyped == ASSUME Typed, Issue \/ Leave PROVE Typed'
<1>1. toStub' \in Seq(Asking)
  <2>1. toStub \in Seq(Asking)
    BY DEF Typed, LineTyped
  <2> QED BY <2>1, LineKept, MarksOnLines DEF Issue, Leave
<1>2. UNCHANGED <<target, ended, result, toGdb, stub, work, packet, open, damage, noise, reply>>
  BY DEF Issue, Leave, stubState, faults, history
<1>3. DebuggerTyped'
  <2>1. CASE Issue
    <3>1. issued \in 0..MaxCommands /\ issued < MaxCommands /\ MaxCommands \in Nat
      BY <2>1, ProtocolAssumption DEF Issue, Typed, DebuggerTyped
    <3> QED BY <1>2, <2>1, <3>1 DEF Issue, Typed, DebuggerTyped
  <2>2. CASE Leave
    BY <2>2 DEF Leave, Typed, DebuggerTyped, history
  <2> QED BY <2>1, <2>2
<1> QED BY <1>1, <1>2, <1>3 DEF Typed, LineTyped, TargetTyped, StubTyped, FaultsTyped

\* gdb reads what it is sent, or loses patience.
LEMMA DebuggerKeepsTypes == ASSUME Typed, Debugger PROVE Typed'
<1>0. toStub \in Seq(Asking) /\ toGdb \in Seq(Telling)
  BY DEF Typed, LineTyped
<1>1. CASE Acknowledged
  <2>1. Reads
    BY <1>1 DEF Acknowledged
  <2>2. toStub' \in Seq(Asking)
    BY <1>0, <1>1, LineKept, MarksOnLines DEF Acknowledged
  <2>3. DebuggerTyped' /\ reply' = reply
    BY <1>1, <2>1, ReadsTyped DEF Acknowledged, Typed, DebuggerTyped
  <2> QED BY <2>1, <2>2, <2>3, ReadsTyped DEF Typed, LineTyped, TargetTyped
<1>2. CASE AskedAgain \/ Skips
  <2>1. Reads /\ UNCHANGED <<gdb, call, result, phase, reply>>
    BY <1>2 DEF AskedAgain, Skips
  <2>2. toStub' \in Seq(Asking)
    <3>1. AskedAgain => call \in Commands /\ toStub' = Append(toStub, Packet(call))
      BY DEF AskedAgain, Typed, DebuggerTyped
    <3>2. Skips => toStub' = toStub
      BY DEF Skips
    <3> QED BY <1>0, <1>2, <3>1, <3>2, LineKept, MarksOnLines
  <2>3. DebuggerTyped'
    BY <2>1, ReadsTyped DEF Typed, DebuggerTyped
  <2> QED BY <2>1, <2>2, <2>3, ReadsTyped DEF Typed, LineTyped, TargetTyped
<1>3. CASE Answered
  <2>1. Reads /\ Head(toGdb).type = "packet"
    BY <1>3 DEF Answered
  <2>2. Head(toGdb).body \in Answers \cup {NoAnswer}
    BY <2>1, ReadsTyped, Lined
  <2>3. toStub' \in Seq(Asking)
    <3>1. toStub' = Append(toStub, Char("+")) \/ toStub' = Append(toStub, Char("-"))
      BY <1>3 DEF Answered
    <3> QED BY <1>0, <3>1, LineKept, MarksOnLines
  <2>4. DebuggerTyped' /\ reply' \in Answers \cup {NoAnswer}
    BY <1>3, <2>1, <2>2, ReadsTyped DEF Answered, Typed, DebuggerTyped, TargetTyped
  <2> QED BY <2>1, <2>3, <2>4, ReadsTyped DEF Typed, LineTyped, TargetTyped
<1>4. CASE Timeout
  <2>1. call \in Commands /\ toStub' = Append(toStub, Packet(call))
    BY <1>4 DEF Timeout, Typed, DebuggerTyped
  <2>2. toStub' \in Seq(Asking)
    BY <1>0, <2>1, LineKept, MarksOnLines
  <2>3. UNCHANGED <<target, ended, gdb, call, result, issued, toGdb, stub, work, packet, open,
                    damage, noise, phase, reply>>
    BY <1>4 DEF Timeout, debugger, stubState, faults, history
  <2> QED BY <2>2, <2>3 DEF Typed, LineTyped, TargetTyped, DebuggerTyped, StubTyped, FaultsTyped
<1>5. CASE AnswerTimeout
  <2>1. toStub' \in Seq(Asking)
    BY <1>0, <1>5, LineKept, MarksOnLines DEF AnswerTimeout
  <2>2. UNCHANGED <<target, ended, gdb, call, result, issued, toGdb, stub, work, packet, open,
                    damage, noise, phase, reply>>
    BY <1>5 DEF AnswerTimeout, debugger, stubState, faults, history
  <2> QED BY <2>1, <2>2 DEF Typed, LineTyped, TargetTyped, DebuggerTyped, StubTyped, FaultsTyped
<1> QED BY <1>1, <1>2, <1>3, <1>4, <1>5 DEF Debugger

\* A fault leaves a packet of the same kind, puts bytes that scan as no packet on
\* the line, or takes away what is read next.
LEMMA FaultTyped == ASSUME Typed, Damage \/ Noise \/ Loss PROVE Typed'
<1>0. toStub \in Seq(Asking) /\ toGdb \in Seq(Telling)
  BY DEF Typed, LineTyped
<1>1. UNCHANGED <<target, ended, gdb, call, result, issued, stub, work, packet, open, phase, reply>>
  BY DEF Damage, Noise, Loss, debugger, stubState, history
<1>2. damage \in Nat /\ noise \in Nat /\ MaxFaults \in Nat
  BY ProtocolAssumption DEF Typed, FaultsTyped
<1>3. CASE Damage
  <2>1. FaultsTyped'
    BY <1>2, <1>3 DEF Damage, FaultsTyped
  <2>2. ASSUME Spoils(toStub)
        PROVE  Struck(toStub, Token("packet", Head(toStub).body, FALSE)) \in Seq(Asking)
    BY <1>0, <2>2, LineKept, Lined DEF Spoils
  <2>3. ASSUME Spoils(toGdb)
        PROVE  Struck(toGdb, Token("packet", Head(toGdb).body, FALSE)) \in Seq(Telling)
    BY <1>0, <2>3, LineKept, Lined DEF Spoils
  <2>4. LineTyped'
    BY <1>0, <1>3, <2>2, <2>3 DEF Damage, LineTyped
  <2> QED BY <1>1, <2>1, <2>4 DEF Typed, TargetTyped, DebuggerTyped, StubTyped
<1>4. CASE Noise
  <2>1. PICK bytes \in Garbles :
          /\ damage + noise + Invalid(bytes) <= MaxFaults
          /\ noise' = noise + Invalid(bytes)
          /\ \/ toStub' = toStub \o bytes
             \/ Spoils(toStub) /\ toStub' = bytes \o Tail(toStub)
          /\ UNCHANGED <<toGdb, damage>>
    BY <1>4 DEF Noise
  <2>2. FaultsTyped'
    BY <1>2, <2>1, GarbleCounts DEF FaultsTyped
  <2>3. bytes \in Seq(Asking)
    <3>1. bytes \in Seq({Char("noise"), Char("+"), Char("-")})
      BY GarblesAssumption
    <3>2. {Char("noise"), Char("+"), Char("-")} \subseteq Asking
      BY MarksOnLines
    <3> QED BY <3>1, <3>2, SeqMonotonic
  <2>4. toStub' \in Seq(Asking)
    <3>1. toStub \o bytes \in Seq(Asking)
      BY <1>0, <2>3, LineKept
    <3>2. Spoils(toStub) => bytes \o Tail(toStub) \in Seq(Asking)
      BY <1>0, <2>3, LineKept DEF Spoils
    <3> QED BY <2>1, <3>1, <3>2
  <2> QED BY <1>0, <1>1, <2>1, <2>2, <2>4
          DEF Typed, LineTyped, TargetTyped, DebuggerTyped, StubTyped
<1>5. CASE Loss
  <2>1. FaultsTyped'
    BY <1>2, <1>5 DEF Loss, FaultsTyped
  <2>2. LineTyped'
    BY <1>0, <1>5, LineKept DEF Loss, LineTyped
  <2> QED BY <1>1, <2>1, <2>2 DEF Typed, TargetTyped, DebuggerTyped, StubTyped
<1> QED BY <1>3, <1>4, <1>5

\* The stub sends what gdb may be told.
LEMMA SendsTyped ==
    ASSUME Typed, NEW tokens \in Seq(Telling), Sends(tokens)
    PROVE  toGdb' \in Seq(Telling) /\ ended' \in BOOLEAN
BY LineKept DEF Sends, Typed, LineTyped, TargetTyped

\* What the stub answers by itself.
LEMMA StubTells ==
    ASSUME Typed
    PROVE  /\ handle_error \in Seq(Telling)
           /\ gdb_transmit_packet \in Seq(Telling)
           /\ handle_error \o gdb_transmit_packet \in Seq(Telling)
           /\ \A c \in {Char("+"), Char("-")} : handle_error \o <<c>> \in Seq(Telling)
           /\ <<>> \in Seq(Telling)
<1>1. \A t \in Telling : <<t>> \in Seq(Telling)
  OBVIOUS
<1>2. <<>> \in Seq(Telling)
  OBVIOUS
<1>3. handle_error \in Seq(Telling)
  BY <1>1, <1>2, MarksOnLines DEF handle_error
<1>4. gdb_transmit_packet \in Seq(Telling)
  BY <1>1, <1>2, MarksOnLines DEF gdb_transmit_packet, Typed, TargetTyped
<1>5. \A c \in {Char("+"), Char("-")} : <<c>> \in Seq(Telling)
  BY <1>1, MarksOnLines
<1> QED BY <1>2, <1>3, <1>4, <1>5, LineKept

\* A token is scanned.
LEMMA ScanTyped ==
    ASSUME Typed, ScanAck \/ ScanNak \/ ScanPacket \/ add_character_to_error \/ ScanEof
    PROVE  Typed'
<1>0. toStub \in Seq(Asking)
  BY DEF Typed, LineTyped
<1>1. /\ \E type : Scans(type)
      /\ \E tokens \in Seq(Telling) : Sends(tokens)
  <2>1. CASE ScanAck \/ ScanEof
    BY <2>1, StubTells DEF ScanAck, ScanEof
  <2>2. CASE ScanNak
    BY <2>2, StubTells DEF ScanNak
  <2>3. CASE ScanPacket
    <3>1. PICK c \in {Char("+"), Char("-")} : Sends(handle_error \o <<c>>)
      BY <2>3 DEF ScanPacket
    <3> QED BY <2>3, <3>1, StubTells DEF ScanPacket
  <2>4. CASE add_character_to_error
    BY <2>4, StubTells DEF add_character_to_error
  <2> QED BY <2>1, <2>2, <2>3, <2>4
<1>2. toGdb' \in Seq(Telling) /\ ended' \in BOOLEAN
  BY <1>1, SendsTyped
<1>3. /\ stub = "scan" /\ toStub # <<>> /\ toStub' = Tail(toStub)
      /\ UNCHANGED <<target, gdb, call, result, issued, open, damage, noise, phase, reply>>
  BY <1>1 DEF Scans, debugger, faults, history
<1>4. Head(toStub) \in Asking /\ toStub' \in Seq(Asking)
  BY <1>0, <1>3, LineKept
<1>5. packet' = packet
  BY DEF ScanAck, ScanNak, ScanPacket, add_character_to_error, ScanEof
<1>6. StubTyped'
  <2>1. CASE ScanPacket
    <3>1. Head(toStub).body \in Commands
      BY <1>4, <2>1, Lined DEF ScanPacket, Scans
    <3>2. Head(toStub).body # NoCommand
      BY <3>1, ProtocolAssumption
    <3> QED BY <1>3, <2>1, <3>1, <3>2 DEF ScanPacket, Typed, StubTyped
  <2>2. CASE ScanEof
    BY <1>3, <2>2 DEF ScanEof, Typed, StubTyped
  <2>3. CASE ScanAck \/ ScanNak \/ add_character_to_error
    BY <1>3, <2>3 DEF ScanAck, ScanNak, add_character_to_error, Typed, StubTyped
  <2> QED BY <2>1, <2>2, <2>3
<1> QED BY <1>2, <1>3, <1>4, <1>5, <1>6
        DEF Typed, LineTyped, TargetTyped, DebuggerTyped, FaultsTyped

\* A handler runs.
LEMMA HandlesTyped == ASSUME HandlersTyped, Typed, Handles PROVE Typed'
<1>1. work \in Commands /\ target \in Targets
  BY DEF Handles, Typed, StubTyped, TargetTyped
<1>2. PICK o \in Outcomes(work, target) :
        /\ target' = o.target
        /\ reply' = o.answer
        /\ IF o.ended \/ work \in Kills
           THEN ended' = (ended \/ o.ended) /\ UNCHANGED <<packet, toGdb>>
           ELSE packet' = o.answer /\ Sends(<<Packet(o.answer)>>)
  BY DEF Handles
<1>3. o.target \in Targets /\ o.answer \in Answers \cup {NoAnswer} /\ o.ended \in BOOLEAN
  BY <1>1 DEF HandlersTyped
<1>4. <<Packet(o.answer)>> \in Seq(Telling)
  BY <1>3, MarksOnLines
<1>5. toGdb' \in Seq(Telling) /\ ended' \in BOOLEAN
  BY <1>2, <1>3, <1>4, SendsTyped DEF Typed, LineTyped, TargetTyped
<1>6. packet' \in Answers \cup {NoAnswer}
  BY <1>2, <1>3 DEF Typed, TargetTyped
<1>7. /\ stub' = "scan" /\ work' = NoCommand /\ phase' = "executed"
      /\ open' = (open /\ work \notin Kills)
      /\ UNCHANGED <<gdb, call, result, issued, toStub, damage, noise>>
  BY DEF Handles, debugger, faults
<1>8. TargetTyped'
  BY <1>2, <1>3, <1>5, <1>6 DEF TargetTyped
<1>9. DebuggerTyped' /\ FaultsTyped'
  BY <1>7 DEF Typed, DebuggerTyped, FaultsTyped
<1>10. StubTyped'
  BY <1>7 DEF StubTyped
<1> QED BY <1>5, <1>7, <1>8, <1>9, <1>10 DEF Typed, LineTyped

\* TypeOK: with handlers that keep their types the packets carry commands one
\* way and answers the other, whatever is asked, damaged and sent again.
THEOREM ProtocolTyped == ASSUME HandlersTyped PROVE Spec => []TypeOK
<1>1. Init => Typed
  <2> SUFFICES ASSUME Init PROVE Typed
    OBVIOUS
  <2>1. target \in Targets /\ toStub \in Seq(Asking) /\ toGdb \in Seq(Telling)
    BY DEF Init, HandlersTyped
  <2>2. TargetTyped
    BY <2>1 DEF Init, TargetTyped
  <2>3. StubTyped
    BY DEF Init, StubTyped
  <2>4. DebuggerTyped
    BY ProtocolAssumption DEF Init, DebuggerTyped
  <2>5. FaultsTyped
    BY ProtocolAssumption DEF Init, FaultsTyped
  <2> QED BY <2>1, <2>2, <2>3, <2>4, <2>5 DEF Typed, LineTyped
<1>2. Typed /\ [Next]_vars => Typed'
  <2> SUFFICES ASSUME Typed, [Next]_vars PROVE Typed'
    OBVIOUS
  <2>1. CASE Issue \/ Leave
    BY <2>1, AskTyped
  <2>2. CASE Debugger
    BY <2>2, DebuggerKeepsTypes
  <2>3. CASE Damage \/ Noise \/ Loss
    BY <2>3, FaultTyped
  <2>4. CASE Stub
    BY <2>4, ScanTyped, HandlesTyped DEF Stub
  <2>5. CASE UNCHANGED vars
    BY <2>5 DEF vars, Typed, LineTyped, TargetTyped, DebuggerTyped, StubTyped, FaultsTyped
  <2> QED BY <2>1, <2>2, <2>3, <2>4, <2>5 DEF Next
<1>3. Typed => TypeOK
  <2> SUFFICES ASSUME Typed PROVE TypeOK
    OBVIOUS
  <2>1. \A i \in DOMAIN toStub : toStub[i].type \in Tokens
    <3>1. \A i \in DOMAIN toStub : toStub[i] \in Asking
      BY DEF Typed, LineTyped
    <3> QED BY <3>1, Lined
  <2>2. \A i \in DOMAIN toGdb : toGdb[i].type \in {"+", "-", "packet"}
    <3>1. \A i \in DOMAIN toGdb : toGdb[i] \in Telling
      BY DEF Typed, LineTyped
    <3> QED BY <3>1, Lined
  <2>3. damage \in 0..MaxFaults /\ noise \in 0..MaxFaults
    BY ProtocolAssumption DEF Typed, FaultsTyped
  <2> QED BY <2>1, <2>2, <2>3 DEF Typed, TargetTyped, DebuggerTyped, StubTyped, TypeOK
<1> QED BY <1>1, <1>2, <1>3, PTL DEF Spec

---------------------------------------------------------------------------
(* Counting up to a number, and what is defined that way.                  *)

\* What holds of 0 and goes on from each number below n holds up to n.
LEMMA Upwards ==
    ASSUME NEW n \in Nat, NEW S, 0 \in S, \A k \in 0..(n - 1) : k \in S => k + 1 \in S
    PROVE  \A k \in 0..n : k \in S
<1> DEFINE Missing == {k \in 0..n : k \notin S}
           R == OpToRel(<, Nat)
<1>1. SUFFICES ASSUME Missing # {} PROVE FALSE
  OBVIOUS
<1>2. IsWellFoundedOn(R, Nat) /\ Missing \in SUBSET Nat
  <2>1. IsWellFoundedOn(R, Nat)
    BY NatLessThanWellFounded
  <2>2. \A k \in 0..n : k \in Nat
    OBVIOUS
  <2> QED BY <2>1, <2>2
<1>3. \A a, b \in Nat : <<a, b>> \in R <=> a < b
  BY DEF OpToRel
<1> HIDE DEF R
<1>4. PICK j \in Missing : \A k \in Missing : ~(<<k, j>> \in R)
  <2> HIDE DEF Missing
  <2> QED BY <1>1, <1>2, WFMin
<1>5. \A k \in Missing : ~(k < j)
  <2> TAKE k \in Missing
  <2>1. k \in Nat /\ j \in Nat
    BY <1>2
  <2> QED BY <1>3, <1>4, <2>1
<1>6. j \in 0..n /\ j \notin S
  OBVIOUS
<1>7. j # 0 /\ j - 1 \in 0..(n - 1) /\ (j - 1) + 1 = j /\ j - 1 < j /\ j - 1 \in 0..n
  BY <1>6
<1>8. j - 1 \in S
  BY <1>5, <1>7
<1> QED BY <1>6, <1>7, <1>8

\* f starts with base and takes the steps up to n.
Solution(f, n, D, base, step) ==
    /\ f \in [0..n -> D]
    /\ f[0] = base
    /\ \A k \in 1..n : f[k] = step[k][f[k - 1]]

StepsIn(step, n, D) == step \in [1..n -> [D -> D]]

\* A start and a step define a function up to n.
LEMMA StepsSolved ==
    ASSUME NEW n \in Nat, NEW D, NEW base \in D, NEW step, StepsIn(step, n, D)
    PROVE  \E f : Solution(f, n, D, base, step)
<1> DEFINE Solves(f, k) == f[0] = base /\ \A j \in 1..k : f[j] = step[j][f[j - 1]]
           S == {k \in 0..n : \E f \in [0..k -> D] : Solves(f, k)}
<1>0. step \in [1..n -> [D -> D]]
  BY DEF StepsIn
<1>1. 0 \in S
  <2> DEFINE f == [k \in 0..0 |-> base]
  <2>1. f \in [0..0 -> D] /\ f[0] = base /\ 0 \in 0..n
    OBVIOUS
  <2>2. 1..0 = {}
    OBVIOUS
  <2> HIDE DEF f
  <2>3. Solves(f, 0)
    BY <2>1, <2>2
  <2> HIDE DEF Solves
  <2> QED BY <2>1, <2>3
<1>2. ASSUME NEW k \in 0..(n - 1), k \in S PROVE k + 1 \in S
  <2>1. PICK f \in [0..k -> D] : Solves(f, k)
    BY <1>2
  <2> DEFINE d == step[k + 1][f[k]]
             g == [j \in 0..(k + 1) |-> IF j = k + 1 THEN d ELSE f[j]]
  <2>2. d \in D
    <3>1. k + 1 \in 1..n /\ f[k] \in D
      OBVIOUS
    <3> QED BY <1>0, <3>1
  <2> HIDE DEF d
  <2>3. g \in [0..(k + 1) -> D]
    <3>1. \A j \in 0..(k + 1) : j # k + 1 => j \in 0..k
      OBVIOUS
    <3> QED BY <2>2, <3>1
  <2>4. g[k + 1] = d /\ \A j \in 0..k : g[j] = f[j]
    OBVIOUS
  <2> HIDE DEF g
  <2>5. g[0] = base
    BY <2>1, <2>4
  <2>6. ASSUME NEW j \in 1..(k + 1) PROVE g[j] = step[j][g[j - 1]]
    <3>1. CASE j = k + 1
      <4>1. j - 1 = k /\ k \in 0..k
        BY <3>1
      <4> QED BY <2>4, <3>1, <4>1 DEF d
    <3>2. CASE j \in 1..k
      <4>1. j \in 0..k /\ j - 1 \in 0..k
        BY <3>2
      <4> QED BY <2>1, <2>4, <3>2, <4>1
    <3> QED BY <3>1, <3>2
  <2> QED BY <2>3, <2>5, <2>6
<1>3. n \in 0..n
  OBVIOUS
<1>4. n \in S
  <2> HIDE DEF S
  <2> QED BY <1>1, <1>2, <1>3, Upwards
<1> QED BY <1>4 DEF Solution

---------------------------------------------------------------------------
(* The results of an instruction.                                          *)

\* What an instruction may return, and how it may end the process.
Results == (0..255) \cup ProcessEnds

\* The results of the exceptions and of accesses are among them.
LEMMA ResultsAre ==
    /\ {0, FAULT, EXIT, ABORT, SEGV, UNDEFINED_INSTRUCTION, SOFTWARE_INTERRUPT,
        PREFETCH_ABORT} \subseteq Results
    /\ \A a, n : Access(a, n) \in Results
BY DEF Results, ProcessEnds, FAULT, EXIT, ABORT, SEGV, UNDEFINED_INSTRUCTION, SOFTWARE_INTERRUPT,
       PREFETCH_ABORT, Access

\* Loads and stores return the status of an access, or 0.
LEMMA TransferResults ==
    ASSUME NEW r, NEW m, NEW ins, NEW junk
    PROVE  /\ arm_load_store(r, m, ins, junk).result \in Results
           /\ arm_load_store_multiple(r, m, ins, junk).result \in Results
<1>1. /\ \A address, n, value, mm : Store(r, mm, address, n, value).result \in Results
      /\ \A rr : Outcome(rr, m, 0).result \in Results
      /\ Outcome(r, m, UNDEFINED_INSTRUCTION).result \in Results
  BY ResultsAre DEF Store, Outcome
<1>2. \A address : LDRB(r, m, address).result \in Results
  BY ResultsAre DEF LDRB, Outcome
<1>3. \A rd, address : LDR(r, m, rd, address, junk).result \in Results
  <2> TAKE rd, address
  <2>1. LDR(r, m, rd, address, junk).result \in {SEGV, 0}
    BY OutcomeFields DEF LDR
  <2> QED BY <2>1, ResultsAre
<1>4. \A address : executeInstr_word_byte(r, m, ins, address, junk).result \in Results
  <2> TAKE address
  <2> DEFINE stored == IF condition_passed(r, ins)
                       THEN Store(r, m, address, IF get_bit(ins, 22) THEN 1 ELSE 4,
                                  arm_read_register(r, Rd(ins)))
                       ELSE Outcome(r, m, 0)
             status == IF stored.result = SEGV THEN SEGV ELSE 0
  <2>1. stored.result \in Results /\ status \in Results
    BY <1>1, ResultsAre
  <2>2. [stored EXCEPT !.result = status].result = status
    BY DEF Store, Outcome
  <2>3. executeInstr_word_byte(r, m, ins, address, junk) \in
            {LDRB(r, m, address), LDR(r, m, Rd(ins), address, junk), stored,
             [stored EXCEPT !.result = status]}
    BY DEF executeInstr_word_byte
  <2> HIDE DEF stored, status
  <2> QED BY <1>2, <1>3, <2>1, <2>2, <2>3
<1>5. \A address : executeInstr_miscellaneous(r, m, ins, address).result \in Results
  <2> TAKE address
  <2>1. /\ \A rd : LDRD(r, m, rd, address).result \in {SEGV, 0}
        /\ \A rd : LDRH(r, m, rd, address).result = Access(address, 2)
    BY OutcomeFields DEF LDRD, LDRH
  <2>2. \A rd : STRD(r, m, rd, address).result \in Results
    BY <1>1 DEF STRD
  <2>3. executeInstr_miscellaneous(r, m, ins, address) \in
            {Outcome(r, m, 0), Outcome(r, m, UNDEFINED_INSTRUCTION),
             Store(r, m, address, 2, arm_read_register(r, Rd(ins))),
             STRD(r, m, Rd(ins), address),
             LDRD(r, m, Rd(ins), address), LDRH(r, m, Rd(ins), address)}
    BY DEF executeInstr_miscellaneous
  <2> QED BY <1>1, <2>1, <2>2, <2>3, ResultsAre
<1>6. arm_load_store(r, m, ins, junk).result \in Results
  BY <1>1, <1>4, <1>5 DEF arm_load_store
<1>7. \A start, list : MultipleResult(start, list) \in Results
  BY ResultsAre DEF MultipleResult
<1>8. arm_load_store_multiple(r, m, ins, junk).result \in Results
  <2>1. /\ \A list, start : LDM(r, m, list, start, junk).result = MultipleResult(start, list)
        /\ \A list, start : STM(r, m, list, start).result = MultipleResult(start, list)
    BY OutcomeFields DEF LDM, STM
  <2> QED BY <1>7, <2>1 DEF arm_load_store_multiple
<1> QED BY <1>6, <1>8

\* arm_step keeps registers and memory what they are, and returns a result that
\* fits in the byte it is stored in, unless the process ends.
LEMMA StepTyped ==
    ASSUME NEW r \in RegisterFile, NEW m \in MemoryContent, NEW ins \in Word,
           NEW junk \in JunkLocals
    PROVE  LET done == arm_step(r, m, ins, junk)
           IN  /\ done.result \in Results
               /\ done.regs \in RegisterFile /\ done.mem \in MemoryContent
<1> DEFINE o == arm_execute_instruction(r, m, ins, junk)
<1>1. o.regs \in RegisterFile /\ o.mem \in MemoryContent
  BY InstructionStays DEF OutcomeStays, StaysIn
<1>2. o.result \in Results
  <2>1. \A rr, mm : Dispatch(rr, mm, ins, junk).result \in Results
    <3> TAKE rr, mm
    <3>1. \A s, t, value : value \in Results => Outcome(s, t, value).result \in Results
      BY OutcomeFields
    <3>2. arm_coprocessor_others_swi(ins) \in Results
      BY ResultsAre DEF arm_coprocessor_others_swi
    <3>3. Dispatch(rr, mm, ins, junk) \in
            {Outcome(arm_miscellaneous(rr, ins), mm, 0),
             Outcome(arm_data_processing_shift(rr, ins), mm, 0),
             Outcome(arm_data_processing_immediate_msr(rr, ins), mm, 0),
             arm_load_store(rr, mm, ins, junk),
             arm_load_store_multiple(rr, mm, ins, junk),
             Outcome(arm_branch(rr, ins), mm, 0),
             Outcome(rr, mm, UNDEFINED_INSTRUCTION),
             Outcome(rr, mm, arm_coprocessor_others_swi(ins))}
      BY DEF Dispatch
    <3> QED BY <3>1, <3>2, <3>3, ResultsAre, TransferResults
  <2>2. \A rr, mm : Execute(rr, mm, ins, junk).result \in Results
    <3> TAKE rr, mm
    <3>1. Execute(rr, mm, ins, junk) \in
            {Outcome(rr, mm, UNDEFINED_INSTRUCTION), Dispatch(rr, mm, ins, junk), Outcome(rr, mm, 0)}
      BY DEF Execute
    <3> QED BY <2>1, <3>1, OutcomeFields, ResultsAre
  <2>3. o \in {Outcome(AfterFetch(r), m, PREFETCH_ABORT), Outcome(r, m, SEGV),
               Execute(AfterFetch(r), m, ins, junk)}
    BY DEF arm_execute_instruction
  <2> HIDE DEF o
  <2> QED BY <2>2, <2>3, OutcomeFields, ResultsAre
<1>3. arm_step(r, m, ins, junk)
        \in {o, Outcome(arm_exception(o.regs, o.result), o.mem, o.result)}
  BY DEF arm_step, TakeResult
<1> HIDE DEF o
<1>4. arm_exception(o.regs, o.result) \in RegisterFile
  BY <1>1, ExceptionEnters DEF Enters
<1> QED BY <1>1, <1>2, <1>3, <1>4, OutcomeFields

---------------------------------------------------------------------------
(* Addresses.                                                              *)

\* Words that differ give different sums with the same word: they do so at the
\* least bit they differ in, which the same carry enters.
LEMMA SumsDiffer ==
    ASSUME NEW a, NEW x \in Word, NEW y \in Word, x # y
    PROVE  Add(a, x) # Add(a, y) /\ Add(x, a) # Add(y, a)
<1> DEFINE differ == (x \ y) \cup (y \ x)
<1>1. \E d \in differ : \A i \in differ : ~(i < d)
  <2> DEFINE R == OpToRel(<, Nat)
  <2>1. IsWellFoundedOn(R, Nat) /\ differ \in SUBSET Nat /\ differ # {}
    <3>1. IsWellFoundedOn(R, Nat)
      BY NatLessThanWellFounded
    <3>2. x \subseteq 0..31 /\ y \subseteq 0..31
      BY WordWidth DEF Word
    <3>3. differ \in SUBSET Nat /\ differ # {}
      BY <3>2
    <3> QED BY <3>1, <3>3
  <2>2. \A i, j \in Nat : <<i, j>> \in R <=> i < j
    BY DEF OpToRel
  <2> HIDE DEF R, differ
  <2>3. PICK d \in differ : \A i \in differ : ~(<<i, d>> \in R)
    BY <2>1, WFMin, Zenon
  <2> QED BY <2>1, <2>2, <2>3
<1>2. PICK d \in differ : \A i \in differ : ~(i < d)
  BY <1>1
<1>3. d \in 0..31 /\ d \in Bits /\ d \in 0..WordBits
  BY WordWidth DEF Word
<1>4. \A i \in 0..(d - 1) : i \in x <=> i \in y
  BY <1>2, <1>3, WordWidth DEF Word
<1>5. ~(d \in x <=> d \in y)
  OBVIOUS
<1> HIDE DEF differ
<1> DEFINE born(p, q, g) == g < d /\ ((g + 1)..(d - 1)) \subseteq (p \ q) \cup (q \ p)
<1>6. \A p, q : d \in Carries(p, q, FALSE) <=> \E g \in p \cap q : born(p, q, g)
  BY <1>3 DEF Carries
<1>7. ASSUME NEW g \in a
      PROVE  /\ g \in x /\ born(a, x, g) <=> g \in y /\ born(a, y, g)
             /\ g \in x /\ born(x, a, g) <=> g \in y /\ born(y, a, g)
  <2>1. CASE g \in x \cup y /\ g < d
    <3>1. g \in 0..(d - 1)
      <4>1. g \in 0..31
        BY <2>1, WordWidth DEF Word
      <4> QED BY <1>3, <2>1, <4>1
    <3>2. \A i \in (g + 1)..(d - 1) : i \in 0..(d - 1)
      BY <1>3, <3>1
    <3> QED BY <1>4, <3>1, <3>2
  <2>2. CASE ~(g \in x \cup y /\ g < d)
    BY <2>2
  <2> QED BY <2>1, <2>2
<1>8. /\ d \in Carries(a, x, FALSE) <=> d \in Carries(a, y, FALSE)
      /\ d \in Carries(x, a, FALSE) <=> d \in Carries(y, a, FALSE)
  <2> HIDE DEF born
  <2> QED BY <1>6, <1>7
<1>9. \A p, q : Add(p, q) = {i \in Bits : ((i \in p) # (i \in q)) # (i \in Carries(p, q, FALSE))}
  BY Zenon DEF Add, AddCarry
<1> HIDE DEF born
<1>10. ASSUME NEW p, NEW q
       PROVE  d \in Add(p, q) <=> ((d \in p <=> d \in q) <=> d \in Carries(p, q, FALSE))
  <2> DEFINE K == Carries(p, q, FALSE)
             sum == Add(p, q)
  <2>1. sum = {i \in Bits : ((i \in p) # (i \in q)) # (i \in K)}
    BY <1>9, Zenon
  <2> HIDE DEF K, sum
  <2>2. d \in sum <=> ((d \in p) # (d \in q)) # (d \in K)
    BY <1>3, <2>1
  <2>3. d \in sum <=> ((d \in p <=> d \in q) <=> d \in K)
    BY <2>2
  <2> QED BY <2>3 DEF K, sum
<1>11. ~(d \in Add(a, x) <=> d \in Add(a, y)) /\ ~(d \in Add(x, a) <=> d \in Add(y, a))
  BY <1>5, <1>8, <1>10
<1> QED BY <1>11

\* How far the bytes of a packet are from its address.
Offsets == 0..1023

\* The number of one is not that of another.
LEMMA NumbersDiffer ==
    ASSUME NEW m \in Offsets, NEW n \in Offsets, FromNat(m) = FromNat(n)
    PROVE  m = n
<1> DEFINE digit(k, i) == (k \div 2^i) % 2
           sum(k) == ((k \div 1) % 2) + 2 * ((k \div 2) % 2) + 4 * ((k \div 4) % 2)
                        + 8 * ((k \div 8) % 2) + 16 * ((k \div 16) % 2)
                        + 32 * ((k \div 32) % 2) + 64 * ((k \div 64) % 2)
                        + 128 * ((k \div 128) % 2) + 256 * ((k \div 256) % 2)
                        + 512 * ((k \div 512) % 2)
<1>1. \A k \in Nat, i \in 0..9 : i \in FromNat(k) <=> digit(k, i) = 1
  BY WordWidth DEF FromNat
<1>0. m \in Nat /\ n \in Nat
  BY DEF Offsets
<1>2. /\ 2^0 = 1 /\ 2^1 = 2 /\ 2^2 = 4 /\ 2^3 = 8 /\ 2^4 = 16
      /\ 2^5 = 32 /\ 2^6 = 64 /\ 2^7 = 128 /\ 2^8 = 256 /\ 2^9 = 512
  OBVIOUS
<1>3. ASSUME NEW w \in {1, 2, 4, 8, 16, 32, 64, 128, 256, 512},
             (m \div w) % 2 = 1 <=> (n \div w) % 2 = 1
      PROVE  (m \div w) % 2 = (n \div w) % 2
  <2>1. m \div w \in Nat /\ n \div w \in Nat
    BY <1>0
  <2>2. \A k \in Nat : k % 2 \in {0, 1}
    OBVIOUS
  <2> QED BY <1>3, <2>1, <2>2
<1>4. \A i \in 0..9 : digit(m, i) = 1 <=> digit(n, i) = 1
  <2> HIDE DEF digit
  <2> QED BY <1>0, <1>1
<1>5. /\ (m \div 1) % 2 = (n \div 1) % 2 /\ (m \div 2) % 2 = (n \div 2) % 2
      /\ (m \div 4) % 2 = (n \div 4) % 2 /\ (m \div 8) % 2 = (n \div 8) % 2
      /\ (m \div 16) % 2 = (n \div 16) % 2
  BY <1>2, <1>3, <1>4
<1>6. /\ (m \div 32) % 2 = (n \div 32) % 2 /\ (m \div 64) % 2 = (n \div 64) % 2
      /\ (m \div 128) % 2 = (n \div 128) % 2 /\ (m \div 256) % 2 = (n \div 256) % 2
      /\ (m \div 512) % 2 = (n \div 512) % 2
  BY <1>2, <1>3, <1>4
<1>7. ASSUME NEW k \in 0..1023 PROVE k = sum(k)
  <2>1. /\ k \div 1 = k /\ k \div 4 = (k \div 2) \div 2 /\ k \div 8 = (k \div 4) \div 2
        /\ k \div 16 = (k \div 8) \div 2 /\ k \div 32 = (k \div 16) \div 2
    OBVIOUS
  <2>2. /\ k \div 64 = (k \div 32) \div 2 /\ k \div 128 = (k \div 64) \div 2
        /\ k \div 256 = (k \div 128) \div 2 /\ k \div 512 = (k \div 256) \div 2
        /\ k \div 512 \in {0, 1}
    OBVIOUS
  <2>3. \A q \in Nat : q = (q % 2) + 2 * (q \div 2)
    OBVIOUS
  <2>4. \A w \in {1, 2, 4, 8, 16, 32, 64, 128, 256, 512} : k \div w \in Nat
    OBVIOUS
  <2>5. /\ k = (k % 2) + 2 * (k \div 2)
        /\ k \div 2 = ((k \div 2) % 2) + 2 * (k \div 4)
        /\ k \div 4 = ((k \div 4) % 2) + 2 * (k \div 8)
        /\ k \div 8 = ((k \div 8) % 2) + 2 * (k \div 16)
        /\ k \div 16 = ((k \div 16) % 2) + 2 * (k \div 32)
    BY <2>1, <2>3, <2>4
  <2>6. /\ k \div 32 = ((k \div 32) % 2) + 2 * (k \div 64)
        /\ k \div 64 = ((k \div 64) % 2) + 2 * (k \div 128)
        /\ k \div 128 = ((k \div 128) % 2) + 2 * (k \div 256)
        /\ k \div 256 = ((k \div 256) % 2) + 2 * (k \div 512)
        /\ k \div 512 = (k \div 512) % 2
    BY <2>2, <2>3, <2>4
  <2> QED BY <2>1, <2>5, <2>6
<1>8. m = sum(m) /\ n = sum(n)
  <2> HIDE DEF sum
  <2> QED BY <1>7 DEF Offsets
<1>9. sum(m) = sum(n)
  <2> HIDE DEF digit
  <2> QED BY <1>5, <1>6
<1> QED BY <1>8, <1>9

\* The bytes of a packet have addresses of their own.
LEMMA BytesDiffer ==
    ASSUME NEW a
    PROVE  \A m, n \in Offsets : ByteAddress(a, m) = ByteAddress(a, n) => m = n
<1> SUFFICES ASSUME NEW m \in Offsets, NEW n \in Offsets, ByteAddress(a, m) = ByteAddress(a, n)
             PROVE  m = n
  OBVIOUS
<1>1. FromNat(m) \in Word /\ FromNat(n) \in Word
  BY WordWidth DEF FromNat, Word
<1>2. Add(a, FromNat(m)) = Add(a, FromNat(n))
  BY DEF ByteAddress
<1>3. FromNat(m) = FromNat(n)
  BY <1>1, <1>2, SumsDiffer, Zenon
<1> QED BY <1>3, NumbersDiffer

\* The bytes up to the first that is outside the memory.
LEMMA InMemoryIsInitial ==
    ASSUME NEW a, NEW size \in Nat
    PROVE  \E n \in 0..size :
                /\ InMemory(a, size) = 0..(n - 1)
                /\ {k + 1 : k \in InMemory(a, size)} = 1..n
                /\ Cardinality(InMemory(a, size)) = n
<1> DEFINE in == InMemory(a, size)
           out == {k \in 0..size : k \notin in}
           R == OpToRel(<, Nat)
<1>1. in \subseteq 0..(size - 1) /\ \A i \in in : \A k \in 0..i : k \in in
  BY DEF InMemory
<1>2. \E n \in out : \A k \in out : ~(k < n)
  <2>1. IsWellFoundedOn(R, Nat) /\ out \in SUBSET Nat /\ size \in out
    <3>1. IsWellFoundedOn(R, Nat)
      BY NatLessThanWellFounded
    <3> HIDE DEF in
    <3>2. out \in SUBSET Nat /\ size \in out
      BY <1>1
    <3> QED BY <3>1, <3>2
  <2>2. \A i, j \in Nat : <<i, j>> \in R <=> i < j
    BY DEF OpToRel
  <2> HIDE DEF R, out
  <2>3. PICK n \in out : \A i \in out : ~(<<i, n>> \in R)
    BY <2>1, WFMin, Zenon
  <2> QED BY <2>1, <2>2, <2>3
<1>3. PICK n \in out : \A k \in out : ~(k < n)
  BY <1>2
<1> HIDE DEF in, R
<1>4. n \in 0..size /\ n \notin in /\ \A k \in 0..(n - 1) : k \in in
  BY <1>3
<1>5. in = 0..(n - 1)
  <2>1. \A k \in in : k \in 0..(n - 1)
    <3> TAKE k \in in
    <3>1. k \in 0..(size - 1) /\ (n \in 0..k => n \in in)
      BY <1>1
    <3> QED BY <1>4, <3>1
  <2> QED BY <1>4, <2>1
<1>6. {k + 1 : k \in in} = 1..n
  <2>1. \A i \in 1..n : i - 1 \in 0..(n - 1) /\ i = (i - 1) + 1
    BY <1>4
  <2>2. \A i \in 0..(n - 1) : i + 1 \in 1..n
    BY <1>4
  <2> QED BY <1>5, <2>1, <2>2
<1>7. Cardinality(in) = n
  <2>1. IsFiniteSet(0..(n - 1)) /\ Cardinality(0..(n - 1)) = IF 0 > n - 1 THEN 0 ELSE (n - 1) - 0 + 1
    BY <1>4, FS_Interval
  <2> QED BY <1>4, <1>5, <2>1
<1> QED BY <1>4, <1>5, <1>6, <1>7 DEF in

---------------------------------------------------------------------------
(* Words as text.                                                          *)

\* Each byte of a word has its place in the text.
LEMMA TextLanes ==
    /\ \A i \in 0..3 : HostLane(TextIndex(i)) = Lane(4, i)
    /\ \A i \in 0..3 : Lane(4, i) \in 0..3
    /\ \A n \in 0..3 : \E i \in 0..3 : Lane(4, i) = n
<1>1. BigEndian \in BOOLEAN /\ HostBigEndian \in BOOLEAN
  BY MemoryAssumption, HandlersAssumption
<1>2. \A i \in 0..3 : Lane(4, i) \in 0..3 /\ Lane(4, i) = IF BigEndian THEN 3 - i ELSE i
  BY DEF Lane
<1>3. \A i \in 0..3 : HostLane(TextIndex(i)) = Lane(4, i)
  BY <1>1, <1>2 DEF HostLane, TextIndex
<1>4. \A n \in 0..3 : 3 - n \in 0..3 /\ 3 - (3 - n) = n
  OBVIOUS
<1> QED BY <1>2, <1>3, <1>4

\* The text of a word, and the word of a text.
LEMMA TextOfWord ==
    ASSUME NEW v \in Word
    PROVE  /\ write_uint32(v) \in WordText
           /\ \A i \in 1..4 : write_uint32(v)[i] = ByteOf(v, Lane(4, i - 1))
           /\ read_uint32(write_uint32(v)) = v
<1> DEFINE text == write_uint32(v)
<1>1. text = [i \in 1..4 |-> ByteOf(v, Lane(4, i - 1))]
  <2>1. \A i \in 1..4 : i - 1 \in 0..3
    OBVIOUS
  <2> QED BY <2>1, TextLanes DEF write_uint32
<1>2. \A i \in 1..4 : ByteOf(v, Lane(4, i - 1)) \in Byte
  <2>1. \A i \in 1..4 : i - 1 \in 0..3
    OBVIOUS
  <2>2. \A i \in 1..4 : Lane(4, i - 1) \in Int
    BY <2>1, TextLanes
  <2> QED BY <2>2, ByteOfIsByte
<1>3. \A i \in 0..3 : text[i + 1] = ByteOf(v, Lane(4, i))
  <2>1. \A i \in 0..3 : i + 1 \in 1..4 /\ (i + 1) - 1 = i
    OBVIOUS
  <2> QED BY <1>1, <2>1
<1>4. read_uint32(text) = {b \in Bits : \E i \in 0..3 : (b - 8 * Lane(4, i)) \in text[i + 1]}
  BY TextLanes DEF read_uint32
<1> HIDE DEF text
<1>5. ASSUME NEW b \in Bits
      PROVE  (\E i \in 0..3 : (b - 8 * Lane(4, i)) \in text[i + 1]) <=> b \in v
  <2>1. ASSUME NEW n \in 0..3
        PROVE  b - 8 * n \in ByteOf(v, n) <=> b \in v /\ b \in (8 * n)..(8 * n + 7)
    <3>1. ByteOf(v, n) = {c - 8 * n : c \in v \cap ((8 * n)..(8 * n + 7))}
      BY DEF ByteOf, get_bits
    <3>2. \A c \in v : c \in Int
      BY WordWidth DEF Word
    <3>3. \A c \in Int : c - 8 * n = b - 8 * n => c = b
      BY WordWidth
    <3> QED BY <3>1, <3>2, <3>3
  <2>2. \E n \in 0..3 : b \in (8 * n)..(8 * n + 7)
    BY WordWidth
  <2> QED BY <1>3, <2>1, <2>2, TextLanes
<1>6. read_uint32(text) = v
  BY <1>4, <1>5 DEF Word
<1> QED BY <1>1, <1>2, <1>6 DEF WordText, text

\* Any text is read as a word.
LEMMA WordOfText ==
    ASSUME NEW text
    PROVE  read_uint32(text) \in Word
BY DEF read_uint32, Word

---------------------------------------------------------------------------
(* The escapes of binary contents.                                         *)

\* What is kept while a content is read.
Readings == [bytes : Seq(Byte), escaped : BOOLEAN]

\* An escaped byte is a byte, and escaping it twice gives it back.
LEMMA Escapes ==
    /\ \A b \in Byte : Toggle(b) \in Byte /\ Toggle(Toggle(b)) = b
    /\ Escape \in Byte /\ Escape \in Special
    /\ \A s \in Readings, b \in Byte : Taken(s, b) \in Readings
<1>1. \A b \in Byte : Toggle(b) \in Byte /\ Toggle(Toggle(b)) = b
  BY DEF Toggle, Byte
<1>2. Escape \in Byte /\ Escape \in Special
  BY DEF Escape, Byte, Special
<1>3. ASSUME NEW s \in Readings, NEW b \in Byte PROVE Taken(s, b) \in Readings
  <2>1. s.bytes \in Seq(Byte) /\ s.escaped \in BOOLEAN
    BY DEF Readings
  <2>2. Append(s.bytes, b) \in Seq(Byte) /\ Append(s.bytes, Toggle(b)) \in Seq(Byte)
    BY <1>1, <2>1
  <2>3. CASE s.escaped = TRUE
    BY <2>2, <2>3 DEF Taken, Readings
  <2>4. CASE s.escaped = FALSE /\ b = Escape
    BY <2>1, <2>4 DEF Taken, Readings
  <2>5. CASE s.escaped = FALSE /\ b # Escape
    BY <2>2, <2>5 DEF Taken, Readings
  <2> QED BY <2>1, <2>3, <2>4, <2>5
<1> QED BY <1>1, <1>2, <1>3

\* A content is read byte by byte.
LEMMA UnescapeReads ==
    ASSUME NEW content \in Seq(Byte)
    PROVE  \E read \in [0..Len(content) -> Readings] :
                /\ read[0] = [bytes |-> <<>>, escaped |-> FALSE]
                /\ \A k \in 1..Len(content) : read[k] = Taken(read[k - 1], content[k])
                /\ Unescape(content) = read[Len(content)].bytes
<1> DEFINE n == Len(content)
           base == [bytes |-> <<>>, escaped |-> FALSE]
           Solves(f) == f = [k \in 0..n |-> IF k = 0 THEN base ELSE Taken(f[k - 1], content[k])]
           step == [k \in 1..n |-> [s \in Readings |-> Taken(s, content[k])]]
           read == CHOOSE f : Solves(f)
<1>1. Unescape(content) = read[n].bytes
  BY DEF Unescape
<1>2. n \in Nat /\ base \in Readings /\ \A k \in 1..n : content[k] \in Byte
  BY DEF Readings
<1> HIDE DEF n, base
<1>3. \E f : Solves(f)
  <2>1. StepsIn(step, n, Readings)
    <3>1. step \in [1..n -> [Readings -> Readings]]
      BY <1>2, Escapes
    <3> QED BY <3>1 DEF StepsIn
  <2>2. \A k \in 1..n, s \in Readings : step[k][s] = Taken(s, content[k])
    OBVIOUS
  <2> HIDE DEF step
  <2>3. PICK f : Solution(f, n, Readings, base, step)
    BY <1>2, <2>1, StepsSolved, Zenon
  <2>4. /\ f \in [0..n -> Readings] /\ f[0] = base
        /\ \A k \in 1..n : f[k] = step[k][f[k - 1]]
    BY <2>3 DEF Solution
  <2>5. \A k \in 0..n : f[k] = IF k = 0 THEN base ELSE Taken(f[k - 1], content[k])
    <3> TAKE k \in 0..n
    <3>1. CASE k = 0
      BY <2>4, <3>1
    <3>2. CASE k \in 1..n
      <4>1. f[k - 1] \in Readings /\ k # 0
        <5>1. k - 1 \in 0..n /\ k # 0
          BY <1>2, <3>2
        <5> QED BY <2>4, <5>1
      <4> QED BY <2>2, <2>4, <3>2, <4>1
    <3> QED BY <3>1, <3>2
  <2> QED BY <2>4, <2>5
<1>4. Solves(read)
  <2> HIDE DEF Solves
  <2> QED BY <1>3
<1> HIDE DEF read
<1>5. \A k \in 0..n : read[k] = IF k = 0 THEN base ELSE Taken(read[k - 1], content[k])
  BY <1>4
<1>6. read = [k \in 0..n |-> read[k]]
  BY <1>4
<1>7. read[0] = base /\ \A k \in 1..n : read[k] = Taken(read[k - 1], content[k])
  BY <1>2, <1>5
<1> DEFINE S == {k \in 0..n : read[k] \in Readings}
<1>8. \A k \in 0..n : k \in S
  <2>1. 0 \in S
    BY <1>2, <1>7
  <2>2. ASSUME NEW k \in 0..(n - 1), k \in S PROVE k + 1 \in S
    <3>1. k + 1 \in 1..n /\ (k + 1) - 1 = k
      BY <1>2
    <3>2. read[k + 1] = Taken(read[k], content[k + 1])
      BY <1>7, <3>1
    <3> QED BY <1>2, <2>2, <3>1, <3>2, Escapes
  <2> HIDE DEF S
  <2> QED BY <1>2, <2>1, <2>2, Upwards
<1>9. read \in [0..n -> Readings]
  BY <1>6, <1>8
<1> QED BY <1>1, <1>7, <1>9 DEF n, base

\* What a binary content stands for are bytes.
LEMMA UnescapeTyped ==
    ASSUME NEW content \in Seq(Byte)
    PROVE  Unescape(content) \in Seq(Byte)
<1>1. PICK read \in [0..Len(content) -> Readings] : Unescape(content) = read[Len(content)].bytes
  BY UnescapeReads
<1>2. Len(content) \in 0..Len(content)
  OBVIOUS
<1> QED BY <1>1, <1>2 DEF Readings

\* What gdb writes for a byte.
Spelled(b) == IF b \in Special THEN <<Escape, Toggle(b)>> ELSE <<b>>

\* gdb escapes byte by byte.
LEMMA EscapedWrites ==
    ASSUME NEW bytes \in Seq(Byte)
    PROVE  \E written \in [0..Len(bytes) -> Seq(Byte)] :
                /\ written[0] = <<>>
                /\ \A k \in 1..Len(bytes) : written[k] = written[k - 1] \o Spelled(bytes[k])
                /\ Escaped(bytes) = written[Len(bytes)]
<1> DEFINE n == Len(bytes)
           base == <<>>
           next(s, k) == s \o Spelled(bytes[k])
           Solves(f) == f = [k \in 0..n |-> IF k = 0 THEN base ELSE next(f[k - 1], k)]
           step == [k \in 1..n |-> [s \in Seq(Byte) |-> next(s, k)]]
           written == CHOOSE f : Solves(f)
<1>1. Escaped(bytes) = written[n]
  BY DEF Escaped, Spelled
<1>2. n \in Nat /\ base \in Seq(Byte) /\ \A k \in 1..n : bytes[k] \in Byte
  OBVIOUS
<1>3. \A s \in Seq(Byte), k \in 1..n : next(s, k) \in Seq(Byte)
  <2>1. \A b \in Byte : Spelled(b) \in Seq(Byte)
    BY Escapes DEF Spelled
  <2> QED BY <1>2, <2>1
<1> HIDE DEF n, base, next
<1>4. \E f : Solves(f)
  <2>1. StepsIn(step, n, Seq(Byte))
    <3>1. step \in [1..n -> [Seq(Byte) -> Seq(Byte)]]
      BY <1>2, <1>3
    <3> QED BY <3>1 DEF StepsIn
  <2>2. \A k \in 1..n, s \in Seq(Byte) : step[k][s] = next(s, k)
    OBVIOUS
  <2> HIDE DEF step
  <2>3. PICK f : Solution(f, n, Seq(Byte), base, step)
    BY <1>2, <2>1, StepsSolved, Zenon
  <2>4. /\ f \in [0..n -> Seq(Byte)] /\ f[0] = base
        /\ \A k \in 1..n : f[k] = step[k][f[k - 1]]
    BY <2>3 DEF Solution
  <2>5. \A k \in 0..n : f[k] = IF k = 0 THEN base ELSE next(f[k - 1], k)
    <3> TAKE k \in 0..n
    <3>1. CASE k = 0
      BY <2>4, <3>1
    <3>2. CASE k \in 1..n
      <4>1. f[k - 1] \in Seq(Byte) /\ k # 0
        <5>1. k - 1 \in 0..n /\ k # 0
          BY <1>2, <3>2
        <5> QED BY <2>4, <5>1
      <4> QED BY <2>2, <2>4, <3>2, <4>1
    <3> QED BY <3>1, <3>2
  <2> QED BY <2>4, <2>5
<1>5. Solves(written)
  <2> HIDE DEF Solves
  <2> QED BY <1>4
<1> HIDE DEF written
<1>6. \A k \in 0..n : written[k] = IF k = 0 THEN base ELSE next(written[k - 1], k)
  BY <1>5
<1>7. written = [k \in 0..n |-> written[k]]
  BY <1>5
<1>8. written[0] = base /\ \A k \in 1..n : written[k] = next(written[k - 1], k)
  BY <1>2, <1>6
<1> DEFINE S == {k \in 0..n : written[k] \in Seq(Byte)}
<1>9. \A k \in 0..n : k \in S
  <2>1. 0 \in S
    BY <1>2, <1>8
  <2>2. ASSUME NEW k \in 0..(n - 1), k \in S PROVE k + 1 \in S
    <3>1. k + 1 \in 1..n /\ (k + 1) - 1 = k
      BY <1>2
    <3>2. written[k + 1] = next(written[k], k + 1)
      BY <1>8, <3>1
    <3> QED BY <1>2, <1>3, <2>2, <3>1, <3>2
  <2> HIDE DEF S
  <2> QED BY <1>2, <2>1, <2>2, Upwards
<1>10. written \in [0..n -> Seq(Byte)]
  BY <1>7, <1>9
<1> QED BY <1>1, <1>8, <1>10 DEF n, base, next

\* The first k + 1 elements of a sequence.
LEMMA OneMore ==
    ASSUME NEW s \in Seq(Byte), NEW k \in 0..(Len(s) - 1)
    PROVE  Append(SubSeq(s, 1, k), s[k + 1]) = SubSeq(s, 1, k + 1)
<1> DEFINE l == Append(SubSeq(s, 1, k), s[k + 1])
           r == SubSeq(s, 1, k + 1)
<1>1. SubSeq(s, 1, k) \in Seq(Byte) /\ Len(SubSeq(s, 1, k)) = k
      /\ \A i \in 1..k : SubSeq(s, 1, k)[i] = s[i]
  OBVIOUS
<1>2. r \in Seq(Byte) /\ Len(r) = k + 1 /\ \A i \in 1..(k + 1) : r[i] = s[i]
  OBVIOUS
<1>3. s[k + 1] \in Byte
  OBVIOUS
<1>4. l \in Seq(Byte) /\ Len(l) = k + 1 /\ \A i \in 1..(k + 1) : l[i] = s[i]
  <2> DEFINE t == SubSeq(s, 1, k)
  <2> HIDE DEF t
  <2>1. t \in Seq(Byte) /\ Len(t) = k /\ \A i \in 1..k : t[i] = s[i]
    BY <1>1 DEF t
  <2>2. /\ Append(t, s[k + 1]) \in Seq(Byte) /\ Len(Append(t, s[k + 1])) = k + 1
        /\ \A i \in 1..(k + 1) : Append(t, s[k + 1])[i] = s[i]
    BY <1>3, <2>1
  <2> QED BY <2>2 DEF t
<1> HIDE DEF l, r
<1>5. l = r
  BY <1>2, <1>4, SeqEqual, Zenon
<1> QED BY <1>5 DEF l, r

\* The bytes gdb escapes are read as they were.
LEMMA EscapedIsRead ==
    ASSUME NEW bytes \in Seq(Byte)
    PROVE  Escaped(bytes) \in Seq(Byte) /\ Unescape(Escaped(bytes)) = bytes
<1> DEFINE n == Len(bytes)
           content == Escaped(bytes)
           base == <<>>
<1>0. PICK written \in [0..n -> Seq(Byte)] :
            /\ written[0] = base
            /\ \A k \in 1..n : written[k] = written[k - 1] \o Spelled(bytes[k])
            /\ content = written[n]
  BY EscapedWrites
<1>1. n \in Nat /\ n \in 0..n /\ 0 \in 0..n /\ Len(base) = 0 /\ \A k \in 1..n : bytes[k] \in Byte
  OBVIOUS
<1>2. content \in Seq(Byte)
  BY <1>0, <1>1
<1> HIDE DEF n, content, base
<1>3. \A k \in 0..(n - 1) : /\ k \in 0..n /\ k + 1 \in 0..n
                            /\ bytes[k + 1] \in Byte
                            /\ written[k] \in Seq(Byte) /\ written[k + 1] \in Seq(Byte)
                            /\ written[k + 1] = written[k] \o Spelled(bytes[k + 1])
  <2> TAKE k \in 0..(n - 1)
  <2>1. k \in 0..n /\ k + 1 \in 1..n /\ (k + 1) - 1 = k /\ k + 1 \in 0..n
    BY <1>1
  <2> QED BY <1>0, <1>1, <2>1
<1> DEFINE Prefix(s) == Len(s) <= Len(content) /\ \A i \in 1..Len(s) : content[i] = s[i]
           T == {j \in 0..n : Prefix(written[n - j])}
<1>4. \A k \in 0..n : Prefix(written[k])
  <2>1. 0 \in T
    BY <1>0, <1>1, <1>2
  <2>2. ASSUME NEW j \in 0..(n - 1), j \in T PROVE j + 1 \in T
    <3> DEFINE k == n - (j + 1)
               longer == written[k + 1]
               shorter == written[k]
    <3>1. k \in 0..(n - 1) /\ k + 1 = n - j /\ j + 1 \in 0..n
      BY <1>1
    <3>2. Prefix(longer)
      BY <2>2, <3>1
    <3>3. PICK more \in Seq(Byte) : longer = shorter \o more
      <4>1. bytes[k + 1] \in Byte /\ longer = shorter \o Spelled(bytes[k + 1])
        BY <1>3, <3>1
      <4>2. Spelled(bytes[k + 1]) \in Seq(Byte)
        BY <4>1, Escapes DEF Spelled
      <4> QED BY <4>1, <4>2
    <3>4. shorter \in Seq(Byte)
      BY <1>3, <3>1
    <3>5. Prefix(shorter)
      <4> HIDE DEF longer, shorter, k
      <4>1. Len(longer) = Len(shorter) + Len(more) /\ Len(more) \in Nat /\ Len(shorter) \in Nat
            /\ \A i \in 1..Len(shorter) : longer[i] = shorter[i]
        BY <3>3, <3>4
      <4>2. \A i \in 1..Len(shorter) : i \in 1..Len(longer)
        BY <4>1
      <4>3. Len(content) \in Nat
        BY <1>2
      <4> QED BY <3>2, <4>1, <4>2, <4>3
    <3> QED BY <3>1, <3>5
  <2>3. \A j \in 0..n : j \in T
    <3> HIDE DEF T
    <3> QED BY <1>1, <2>1, <2>2, Upwards
  <2>4. \A k \in 0..n : n - k \in 0..n /\ n - (n - k) = k
    BY <1>1
  <2> HIDE DEF Prefix
  <2> QED BY <2>3, <2>4
<1>5. PICK read \in [0..Len(content) -> Readings] :
            /\ read[0] = [bytes |-> <<>>, escaped |-> FALSE]
            /\ \A k \in 1..Len(content) : read[k] = Taken(read[k - 1], content[k])
            /\ Unescape(content) = read[Len(content)].bytes
  BY <1>2, UnescapeReads
<1> DEFINE after(k) == [bytes |-> SubSeq(bytes, 1, k), escaped |-> FALSE]
           S == {k \in 0..n : read[Len(written[k])] = after(k)}
<1>6. 0 \in S
  <2>1. SubSeq(bytes, 1, 0) = <<>>
    OBVIOUS
  <2> QED BY <1>0, <1>1, <1>5, <2>1
<1>7. ASSUME NEW k \in 0..(n - 1), k \in S PROVE k + 1 \in S
  <2> DEFINE b == bytes[k + 1]
             s == written[k]
             t == written[k + 1]
             seen == SubSeq(bytes, 1, k)
             seenNext == SubSeq(bytes, 1, k + 1)
             l == Len(s)
  <2>1. b \in Byte /\ s \in Seq(Byte) /\ t \in Seq(Byte) /\ t = s \o Spelled(b)
    BY <1>3
  <2>2. Len(t) <= Len(content) /\ \A i \in 1..Len(t) : content[i] = t[i]
    BY <1>3, <1>4
  <2>3. read[l] = [bytes |-> seen, escaped |-> FALSE]
    BY <1>7
  <2>4. Append(seen, b) = seenNext
    BY OneMore DEF n
  <2>5. l \in Nat /\ Len(content) \in Nat
    BY <1>2, <2>1
  <2> HIDE DEF b, s, t, seen, seenNext
  <2>6. CASE b \notin Special
    <3>1. t = s \o <<b>>
      BY <2>1, <2>6 DEF Spelled
    <3>2. Len(t) = l + 1 /\ t[l + 1] = b
      BY <2>1, <3>1
    <3>3. l + 1 \in 1..Len(content) /\ (l + 1) - 1 = l /\ content[l + 1] = b
      BY <2>2, <2>5, <3>2
    <3>4. read[l + 1] = Taken(read[l], b)
      BY <1>5, <3>3
    <3>5. b # Escape
      BY <2>6, Escapes
    <3>6. Taken([bytes |-> seen, escaped |-> FALSE], b)
            = [bytes |-> Append(seen, b), escaped |-> FALSE]
      BY <3>5 DEF Taken
    <3>7. read[Len(t)] = [bytes |-> seenNext, escaped |-> FALSE]
      BY <2>3, <2>4, <3>2, <3>4, <3>6
    <3> QED BY <1>3, <3>7 DEF t, seenNext
  <2>7. CASE b \in Special
    <3>1. t = s \o <<Escape, Toggle(b)>> /\ Escape \in Byte /\ Toggle(b) \in Byte
      BY <2>1, <2>7, Escapes DEF Spelled
    <3>2. Len(t) = l + 2 /\ t[l + 1] = Escape /\ t[l + 2] = Toggle(b)
      <4> DEFINE u == Toggle(b)
      <4> HIDE DEF u
      <4>1. t = s \o <<Escape, u>> /\ u \in Byte /\ Escape \in Byte
        BY <3>1 DEF u
      <4>2. Len(t) = l + 2 /\ t[l + 1] = Escape /\ t[l + 2] = u
        BY <2>1, <4>1
      <4> QED BY <4>2 DEF u
    <3>3. /\ l + 1 \in 1..Len(content) /\ (l + 1) - 1 = l /\ content[l + 1] = Escape
          /\ l + 2 \in 1..Len(content) /\ (l + 2) - 1 = l + 1 /\ content[l + 2] = Toggle(b)
      BY <2>2, <2>5, <3>2
    <3>4. read[l + 1] = Taken(read[l], Escape) /\ read[l + 2] = Taken(read[l + 1], Toggle(b))
      BY <1>5, <3>3
    <3>5. Taken([bytes |-> seen, escaped |-> FALSE], Escape) = [bytes |-> seen, escaped |-> TRUE]
      BY DEF Taken
    <3>6. Taken([bytes |-> seen, escaped |-> TRUE], Toggle(b))
            = [bytes |-> Append(seen, Toggle(Toggle(b))), escaped |-> FALSE]
      BY DEF Taken
    <3>7. Toggle(Toggle(b)) = b
      BY <2>1, Escapes
    <3>8. read[Len(t)] = [bytes |-> seenNext, escaped |-> FALSE]
      BY <2>3, <2>4, <3>2, <3>4, <3>5, <3>6, <3>7
    <3> QED BY <1>3, <3>8 DEF t, seenNext
  <2> QED BY <2>6, <2>7
<1>8. n \in S
  <2> HIDE DEF S
  <2>1. \A k \in 0..n : k \in S
    BY <1>1, <1>6, <1>7, Upwards
  <2> QED BY <1>1, <2>1
<1>9. Unescape(content) = SubSeq(bytes, 1, n)
  BY <1>0, <1>5, <1>8
<1>10. SubSeq(bytes, 1, n) = bytes
  BY DEF n
<1> QED BY <1>2, <1>9, <1>10 DEF content

---------------------------------------------------------------------------
(* The handlers keep their types.                                          *)

\* What a handler may yield.
Yields == [target : SimulatedTargets, answer : TextAnswers \cup {NoAnswer}, ended : BOOLEAN]

\* A target is registers, memory and exception, and changing one keeps the others.
LEMMA TargetFields ==
    /\ \A t \in SimulatedTargets :
            t.regs \in RegisterFile /\ t.mem \in MemoryContent /\ t.exception \in 0..255
    /\ \A t \in SimulatedTargets, r \in RegisterFile :
            /\ WithRegs(t, r) \in SimulatedTargets
            /\ WithRegs(t, r).regs = r /\ WithRegs(t, r).mem = t.mem
    /\ \A t \in SimulatedTargets, m \in MemoryContent :
            [t EXCEPT !.mem = m] \in SimulatedTargets /\ [t EXCEPT !.mem = m].mem = m
BY DEF SimulatedTargets, WithRegs

\* Texts are sequences of bytes.
LEMMA Texts ==
    /\ <<>> \in Seq(Byte)
    /\ \A n \in Nat : [1..n -> Byte] \subseteq Seq(Byte)
    /\ WordText \subseteq Seq(Byte)
<1>1. <<>> \in Seq(Byte)
  OBVIOUS
<1>2. ASSUME NEW n \in Nat, NEW s \in [1..n -> Byte] PROVE s \in Seq(Byte)
  OBVIOUS
<1>3. WordText \subseteq Seq(Byte)
  BY <1>2 DEF WordText
<1> QED BY <1>1, <1>2, <1>3

\* A handler that is done, or that ends the process, yields what it may.
LEMMA DoneYields ==
    ASSUME NEW t \in SimulatedTargets, NEW code \in Codes, NEW data \in Seq(Byte)
    PROVE  /\ Done(t, code, data) \in Yields
           /\ Done(t, code, data).target = t
           /\ Done(t, code, data).answer.data = data
           /\ Dead(t) \in Yields
<1>1. NoText = NoAnswer
  BY SessionAssumption
<1>2. [code |-> code, data |-> data] \in TextAnswers
  BY DEF TextAnswers
<1> QED BY <1>1, <1>2 DEF Done, Dead, Yields

\* The commands are well formed.
LEMMA CommandFields ==
    ASSUME NEW c \in Commands
    PROVE  /\ c.op = "m" => c.address \in Word /\ c.size \in Nat
           /\ c.op = "p" => c.reg \in Nat
           /\ c.op = "P" => c.reg \in Nat /\ c.text \in WordText
           /\ c.op = "G" => c.text \in [0..15 -> WordText] /\ c.cpsr \in WordText
           /\ c.op = "X" => /\ c.address \in Word /\ c.content \in Seq(Byte)
                            /\ c.size \in 0..Len(Unescape(c.content))
<1>1. WellFormed(c)
  BY SessionAssumption
<1>2. c.op = "m" => c.address \in Word /\ c.size \in Nat
  BY <1>1, Zenon DEF WellFormed
<1>3. c.op = "p" => c.reg \in Nat
  BY <1>1, Zenon DEF WellFormed
<1>4. c.op = "P" => c.reg \in Nat /\ c.text \in WordText
  BY <1>1, Zenon DEF WellFormed
<1>5. c.op = "G" => c.text \in [0..15 -> WordText] /\ c.cpsr \in WordText
  BY <1>1, Zenon DEF WellFormed
<1>6. c.op = "X" => /\ c.address \in Word /\ c.content \in Seq(Byte)
                    /\ c.size \in 0..Len(Unescape(c.content))
  BY <1>1, Zenon DEF WellFormed
<1> QED BY <1>2, <1>3, <1>4, <1>5, <1>6

\* The pc that is seen is a word too.
LEMMA SeenIsWord ==
    ASSUME NEW r \in RegisterFile, NEW reg
    PROVE  SeenRegister(r, reg) \in Word /\ ShownWord(r, reg) \in Word
BY ReadsAreWords, SumsAreWords DEF SeenRegister, ShownWord

\* The stop reason.
LEMMA ReasonsYield ==
    ASSUME NEW t \in SimulatedTargets
    PROVE  gdb_send_stop_reason(t) \in Yields
<1>1. \A code \in Codes : Done(t, code, <<>>) \in Yields
  BY Texts, DoneYields
<1> QED BY <1>1 DEF gdb_send_stop_reason, Codes

\* q, H, k, and the commands without a handler.
LEMMA QueriesYield ==
    ASSUME NEW t \in SimulatedTargets
    PROVE  /\ \A what : query(t, what) \in Yields
           /\ \A type, value : set_thread(t, type, value) \in Yields
           /\ kill_request(t) \in Yields
           /\ Done(t, "", <<>>) \in Yields
<1>1. \A code \in Codes : Done(t, code, <<>>) \in Yields
  BY Texts, DoneYields
<1>2. \A what : query(t, what) \in Yields
  BY <1>1 DEF query, Codes
<1>3. \A type, value : set_thread(t, type, value) \in Yields
  BY <1>1 DEF set_thread, Codes
<1>4. kill_request(t) \in Yields
  <2>1. NoText \in TextAnswers \cup {NoAnswer}
    BY SessionAssumption
  <2>3. Done(t, "", <<>>) \in Yields
    BY <1>1 DEF Codes
  <2>2. \A o \in Yields : [o EXCEPT !.answer = NoText] \in Yields
    BY <2>1 DEF Yields
  <2> QED BY <2>2, <2>3 DEF kill_request
<1> QED BY <1>1, <1>2, <1>3, <1>4 DEF Codes

\* The text of all registers.
LEMMA GeneralText ==
    ASSUME NEW t \in SimulatedTargets
    PROVE  /\ read_general_registers(t).answer.data \in Seq(Byte)
           /\ read_general_registers(t).answer.data
                = [i \in 1..68 |-> write_uint32(ShownWord(t.regs, (i - 1) \div 4))[((i - 1) % 4) + 1]]
           /\ read_general_registers(t) \in Yields
<1> DEFINE data == [i \in 1..68 |->
                        write_uint32(ShownWord(t.regs, (i - 1) \div 4))[((i - 1) % 4) + 1]]
<1>1. \A n : write_uint32(ShownWord(t.regs, n)) \in WordText
  BY TargetFields, SeenIsWord, TextOfWord
<1>2. \A i \in 1..68 : ((i - 1) % 4) + 1 \in 1..4
  OBVIOUS
<1>3. data \in [1..68 -> Byte]
  BY <1>1, <1>2 DEF WordText
<1> HIDE DEF data
<1>4. data \in Seq(Byte)
  BY <1>3, Texts
<1>5. read_general_registers(t) = Done(t, "data", data)
  BY DEF read_general_registers, data
<1>6. read_general_registers(t).answer.data = data /\ read_general_registers(t) \in Yields
  <2>1. "data" \in Codes
    BY DEF Codes
  <2>2. Done(t, "data", data) \in Yields /\ Done(t, "data", data).answer.data = data
    BY <1>4, <2>1, DoneYields
  <2> QED BY <1>5, <2>2
<1> QED BY <1>4, <1>6 DEF data

\* The bytes of a memory that is read.
LEMMA MemoryText ==
    ASSUME NEW t \in SimulatedTargets, NEW address, NEW size \in Nat
    PROVE  /\ read_memory(t, address, size) \in Yields
           /\ read_memory(t, address, size).answer.data
                = [i \in {k + 1 : k \in InMemory(address, size)} |->
                        t.mem[ByteAddress(address, i - 1)]]
<1> DEFINE data == [i \in {k + 1 : k \in InMemory(address, size)} |->
                        t.mem[ByteAddress(address, i - 1)]]
<1>1. PICK n \in 0..size : /\ InMemory(address, size) = 0..(n - 1)
                           /\ {k + 1 : k \in InMemory(address, size)} = 1..n
  BY InMemoryIsInitial
<1>2. \A i \in 1..n : ByteAddress(address, i - 1) \in MemAddress
  <2> TAKE i \in 1..n
  <2>1. i - 1 \in InMemory(address, size) /\ i - 1 \in 0..(i - 1)
    BY <1>1
  <2> QED BY <2>1 DEF InMemory
<1>3. data \in [1..n -> Byte]
  BY <1>1, <1>2, TargetFields DEF MemoryContent
<1> HIDE DEF data
<1>4. data \in Seq(Byte)
  BY <1>1, <1>3, Texts
<1>5. read_memory(t, address, size) = Done(t, "data", data)
  BY DEF read_memory, data
<1>6. read_memory(t, address, size).answer.data = data /\ read_memory(t, address, size) \in Yields
  <2>1. "data" \in Codes
    BY DEF Codes
  <2>2. Done(t, "data", data) \in Yields /\ Done(t, "data", data).answer.data = data
    BY <1>4, <2>1, DoneYields
  <2> QED BY <1>5, <2>2
<1> QED BY <1>6 DEF data

\* The text of one register, or the end of the process.
LEMMA RegisterText ==
    ASSUME NEW t \in SimulatedTargets, NEW number \in Nat
    PROVE  /\ read_register_command(t, number) \in Yields
           /\ Atoi(number) < 16 => read_register_command(t, number).answer.data
                                        = write_uint32(SeenRegister(t.regs, Atoi(number)))
<1>2. write_uint32(SeenRegister(t.regs, Atoi(number))) \in Seq(Byte)
  BY Texts, TargetFields, SeenIsWord, TextOfWord
<1> HIDE DEF Atoi
<1> DEFINE text == write_uint32(SeenRegister(t.regs, Atoi(number)))
<1> HIDE DEF text
<1>3. read_register_command(t, number)
        = IF Atoi(number) < 16 THEN Done(t, "data", text) ELSE Dead(t)
  BY DEF read_register_command, text
<1>4. /\ Done(t, "data", text) \in Yields /\ Dead(t) \in Yields
      /\ Done(t, "data", text).answer.data = text
  <2>1. "data" \in Codes
    BY DEF Codes
  <2>2. text \in Seq(Byte)
    BY <1>2 DEF text
  <2> QED BY <2>1, <2>2, DoneYields
<1> QED BY <1>3, <1>4 DEF text

\* G: the registers are written in the mode of the target, then the CPSR.
LEMMA GeneralWriteYields ==
    ASSUME NEW t \in SimulatedTargets, NEW text, NEW cpsr
    PROVE  LET written == write_registers(t.regs, 0..15, [reg \in 0..15 |-> read_uint32(text[reg])])
               r == write_cpsr(written, read_uint32(cpsr))
           IN  /\ write_general_registers(t, text, cpsr) \in Yields
               /\ write_general_registers(t, text, cpsr).target = WithRegs(t, r)
               /\ written \in RegisterFile /\ r \in RegisterFile
<1> DEFINE values == [reg \in 0..15 |-> read_uint32(text[reg])]
           written == write_registers(t.regs, 0..15, values)
           word == read_uint32(cpsr)
           r == write_cpsr(written, word)
<1>1. \A i \in 0..15 : values[i] \in Word
  BY WordOfText
<1> HIDE DEF values
<1>2. written \in RegisterFile
  BY <1>1, TargetFields, WriteRegistersStays DEF StaysIn
<1>3. r \in RegisterFile
  BY <1>2, WordOfText, WriteCpsrStays
<1>4. write_general_registers(t, text, cpsr) = Done(WithRegs(t, r), "OK", <<>>)
  BY DEF write_general_registers, values
<1> HIDE DEF r, written, word
<1>5. /\ write_general_registers(t, text, cpsr) \in Yields
      /\ write_general_registers(t, text, cpsr).target = WithRegs(t, r)
  <2>1. "OK" \in Codes
    BY DEF Codes
  <2>2. WithRegs(t, r) \in SimulatedTargets
    BY <1>3, TargetFields DEF r
  <2>3. /\ Done(WithRegs(t, r), "OK", <<>>) \in Yields
        /\ Done(WithRegs(t, r), "OK", <<>>).target = WithRegs(t, r)
    BY <2>1, <2>2, DoneYields, Texts
  <2> QED BY <1>4, <2>3
<1> QED BY <1>2, <1>3, <1>5 DEF r, written, word, values

\* P: the register is written in the mode of the target.
LEMMA RegisterWriteYields ==
    ASSUME NEW t \in SimulatedTargets, NEW reg, NEW text
    PROVE  /\ write_register_command(t, reg, text) \in Yields
           /\ reg < 16 => write_register_command(t, reg, text).target
                            = WithRegs(t, write_register(t.regs, reg, read_uint32(text)))
<1> DEFINE r == write_register(t.regs, reg, read_uint32(text))
<1>1. r \in RegisterFile
  BY TargetFields, WordOfText, WriteRegisterStays DEF StaysIn
<1>2. write_register_command(t, reg, text)
        = IF reg < 16 THEN Done(WithRegs(t, r), "OK", <<>>) ELSE Dead(t)
  BY DEF write_register_command
<1> HIDE DEF r
<1>3. /\ Done(WithRegs(t, r), "OK", <<>>) \in Yields /\ Dead(t) \in Yields
      /\ Done(WithRegs(t, r), "OK", <<>>).target = WithRegs(t, r)
  BY <1>1, TargetFields, DoneYields, Texts DEF Codes
<1> QED BY <1>2, <1>3 DEF r

\* X: the bytes up to the end of the memory, at their addresses.
StoredPairs(address, size, bytes) ==
    {<<ByteAddress(address, i), bytes[i + 1]>> : i \in InMemory(address, size)}

\* X keeps the types, and leaves the memory with the bytes of its content.
LEMMA MemoryWriteYields ==
    ASSUME NEW t \in SimulatedTargets, NEW address, NEW content \in Seq(Byte),
           NEW size \in 0..Len(Unescape(content))
    PROVE  /\ write_memory_binary(t, address, size, content) \in Yields
           /\ write_memory_binary(t, address, size, content).target
                = [t EXCEPT !.mem = StoreBytes(t.mem, StoredPairs(address, size, Unescape(content)))]
           /\ StoreBytes(t.mem, StoredPairs(address, size, Unescape(content))) \in MemoryContent
<1> DEFINE bytes == Unescape(content)
           stored == StoredPairs(address, size, bytes)
           m == StoreBytes(t.mem, stored)
           ok == address \in MemAddress /\ InMemory(address, size) = 0..(size - 1)
           o == write_memory_binary(t, address, size, content)
<1>1. bytes \in Seq(Byte)
  BY UnescapeTyped
<1>2. o = Done([t EXCEPT !.mem = m], IF ok THEN "OK" ELSE "E02", <<>>)
  BY DEF write_memory_binary, StoredPairs
<1> HIDE DEF bytes, o
<1>3. \A i \in InMemory(address, size) : bytes[i + 1] \in Byte
  <2> TAKE i \in InMemory(address, size)
  <2>1. i \in 0..(size - 1) /\ size \in Nat /\ size <= Len(bytes) /\ Len(bytes) \in Nat
    BY <1>1 DEF InMemory, bytes
  <2> QED BY <1>1, <2>1
<1>4. m \in MemoryContent
  <2>1. \A b \in stored : b[2] \in Byte
    BY <1>3 DEF StoredPairs
  <2> HIDE DEF stored
  <2> QED BY <2>1, TargetFields, StoreBytesKeepsMemory
<1> HIDE DEF m, ok
<1>5. (IF ok THEN "OK" ELSE "E02") \in Codes
  BY DEF Codes
<1> DEFINE changed == [t EXCEPT !.mem = m]
           code == IF ok THEN "OK" ELSE "E02"
<1>6. o \in Yields /\ o.target = changed
  <2>1. changed \in SimulatedTargets
    BY <1>4, TargetFields
  <2>2. o = Done(changed, code, <<>>)
    BY <1>2
  <2> HIDE DEF changed, code
  <2>3. code \in Codes
    BY <1>5 DEF code
  <2> QED BY <2>1, <2>2, <2>3, DoneYields, Texts
<1> QED BY <1>4, <1>6 DEF o, m, bytes

\* One arm_step of a handler.
LEMMA StepYields ==
    ASSUME NEW t \in SimulatedTargets, NEW fetched \in SUBSET Word
    PROVE  Stepped(t, fetched) \subseteq Yields
<1> SUFFICES ASSUME NEW ins \in fetched, NEW junk \in JunkLocals
             PROVE  Left(t, arm_step(t.regs, t.mem, ins, junk)) \in Yields
  BY DEF Stepped
<1> DEFINE done == arm_step(t.regs, t.mem, ins, junk)
<1>1. done.result \in Results /\ done.regs \in RegisterFile /\ done.mem \in MemoryContent
  BY TargetFields, StepTyped
<1> HIDE DEF done
<1>2. "" \in Codes
  BY DEF Codes
<1>3. Dead(t) \in Yields
  BY <1>2, DoneYields, Texts
<1>4. CASE done.result \in ProcessEnds
  BY <1>3, <1>4 DEF Left, done
<1>5. CASE done.result \notin ProcessEnds
  <2> DEFINE after == [regs |-> done.regs, mem |-> done.mem, exception |-> done.result]
  <2>1. after \in SimulatedTargets
    BY <1>1, <1>5 DEF SimulatedTargets, Results
  <2> HIDE DEF after
  <2>2. Done(after, "", <<>>) \in Yields
    BY <1>2, <2>1, DoneYields, Texts
  <2> QED BY <1>5, <2>2 DEF Left, done, after
<1> QED BY <1>4, <1>5

\* step and cont.
LEMMA ExecutionsYield ==
    ASSUME NEW t \in SimulatedTargets, NEW name \in {"s", "c"}
    PROVE  Executes(name, t) \subseteq Yields
<1> DEFINE n == MaxContinue
           fetched == IF name = "s" THEN Program ELSE Program \ Breakpoints
           base == {Done(t, "", <<>>)}
           next(S) == UNION {Stepped(outcome.target, fetched) :
                                outcome \in {o \in S : ~o.ended}}
           Solves(f) == f = [k \in 0..n |-> IF k = 0 THEN base ELSE next(f[k - 1])]
           step == [k \in 1..n |-> [S \in SUBSET Yields |-> next(S)]]
           run == CHOOSE f : Solves(f)
<1>1. Executes(name, t)
        = UNION {{Reasoned(outcome) : outcome \in {o \in run[k] : Stops(name, k, o)}} : k \in 0..n}
  BY DEF Executes
<1>2. n \in Nat
  BY HandlersAssumption
<1>3. fetched \in SUBSET Word
  BY ArmCoreAssumption
<1>4. base \in SUBSET Yields
  BY QueriesYield
<1> HIDE DEF n, fetched, base
<1>5. \A S \in SUBSET Yields : next(S) \in SUBSET Yields
  <2> TAKE S \in SUBSET Yields
  <2>1. \A o \in S : Stepped(o.target, fetched) \subseteq Yields
    <3> TAKE o \in S
    <3>1. o.target \in SimulatedTargets
      BY DEF Yields
    <3> QED BY <1>3, <3>1, StepYields
  <2> QED BY <2>1
<1> HIDE DEF next
<1>6. \E f : Solves(f)
  <2>1. StepsIn(step, n, SUBSET Yields)
    <3>1. step \in [1..n -> [SUBSET Yields -> SUBSET Yields]]
      BY <1>5
    <3> QED BY <3>1 DEF StepsIn
  <2>2. \A k \in 1..n, S \in SUBSET Yields : step[k][S] = next(S)
    OBVIOUS
  <2> HIDE DEF step
  <2>3. PICK f : Solution(f, n, SUBSET Yields, base, step)
    BY <1>2, <1>4, <2>1, StepsSolved, Zenon
  <2>4. /\ f \in [0..n -> SUBSET Yields] /\ f[0] = base
        /\ \A k \in 1..n : f[k] = step[k][f[k - 1]]
    BY <2>3 DEF Solution
  <2>5. \A k \in 0..n : f[k] = IF k = 0 THEN base ELSE next(f[k - 1])
    <3> TAKE k \in 0..n
    <3>1. CASE k = 0
      BY <2>4, <3>1
    <3>2. CASE k \in 1..n
      <4>1. f[k - 1] \in SUBSET Yields /\ k # 0
        <5>1. k - 1 \in 0..n /\ k # 0
          BY <1>2, <3>2
        <5> QED BY <2>4, <5>1
      <4> QED BY <2>2, <2>4, <3>2, <4>1
    <3> QED BY <3>1, <3>2
  <2> QED BY <2>4, <2>5
<1>7. Solves(run)
  <2> HIDE DEF Solves
  <2> QED BY <1>6
<1> HIDE DEF run
<1>8. \A k \in 0..n : run[k] = IF k = 0 THEN base ELSE next(run[k - 1])
  BY <1>7
<1> DEFINE S == {k \in 0..n : run[k] \in SUBSET Yields}
<1>9. \A k \in 0..n : k \in S
  <2>1. 0 \in S
    BY <1>2, <1>4, <1>8
  <2>2. ASSUME NEW k \in 0..(n - 1), k \in S PROVE k + 1 \in S
    <3>1. k + 1 \in 0..n /\ k + 1 # 0 /\ (k + 1) - 1 = k
      BY <1>2
    <3>2. run[k + 1] = next(run[k])
      BY <1>8, <3>1
    <3> QED BY <1>5, <2>2, <3>1, <3>2
  <2> HIDE DEF S
  <2> QED BY <1>2, <2>1, <2>2, Upwards
<1>10. \A k \in 0..n : \A o \in run[k] : Reasoned(o) \in Yields
  <2> TAKE k \in 0..n
  <2> TAKE o \in run[k]
  <2>1. o \in Yields
    BY <1>9
  <2>2. o.target \in SimulatedTargets
    BY <2>1 DEF Yields
  <2> QED BY <2>1, <2>2, ReasonsYield DEF Reasoned
<1> QED BY <1>1, <1>10

\* gdb_packet_analysis, with any of the handlers.
LEMMA HandlersYield ==
    ASSUME NEW c \in Commands, NEW t \in SimulatedTargets
    PROVE  Handle(c, t) \subseteq Yields
<1>1. CASE c.op \in {"s", "c"}
  BY <1>1, ExecutionsYield DEF Handle, handler
<1>2. CASE c.op \in {"k", "q", "?", "H"}
  BY <1>2, QueriesYield, ReasonsYield DEF Handle, handler
<1>3. CASE c.op = "g"
  BY <1>3, GeneralText DEF Handle, handler
<1>4. CASE c.op = "m"
  <2>1. Handle(c, t) = {read_memory(t, c.address, c.size)}
    BY <1>4 DEF Handle, handler
  <2>2. read_memory(t, c.address, c.size) \in Yields
    BY <1>4, CommandFields, MemoryText
  <2> QED BY <2>1, <2>2
<1>5. CASE c.op = "p"
  <2>1. Handle(c, t) = {read_register_command(t, c.reg)}
    BY <1>5 DEF Handle, handler
  <2>2. read_register_command(t, c.reg) \in Yields
    BY <1>5, CommandFields, RegisterText
  <2> QED BY <2>1, <2>2
<1>6. CASE c.op = "G"
  <2>1. Handle(c, t) = {write_general_registers(t, c.text, c.cpsr)}
    BY <1>6 DEF Handle, handler
  <2>2. write_general_registers(t, c.text, c.cpsr) \in Yields
    BY GeneralWriteYields, Zenon
  <2> QED BY <2>1, <2>2
<1>7. CASE c.op = "X"
  <2>1. Handle(c, t) = {write_memory_binary(t, c.address, c.size, c.content)}
    BY <1>7 DEF Handle, handler
  <2>2. write_memory_binary(t, c.address, c.size, c.content) \in Yields
    BY <1>7, CommandFields, MemoryWriteYields
  <2> QED BY <2>1, <2>2
<1>8. CASE c.op = "P"
  <2>1. Handle(c, t) = {write_register_command(t, c.reg, c.text)}
    BY <1>8 DEF Handle, handler
  <2>2. write_register_command(t, c.reg, c.text) \in Yields
    BY RegisterWriteYields
  <2> QED BY <2>1, <2>2
<1>9. CASE c.op \notin handler
  BY <1>9, QueriesYield DEF Handle, handler
<1> QED BY <1>1, <1>2, <1>3, <1>4, <1>5, <1>6, <1>7, <1>8, <1>9 DEF handler

\* The session of the stub with the simulator behind it.
Simulated ==
    /\ Targets = SimulatedTargets /\ Answers = TextAnswers
    /\ InitialTargets = FreshTargets
    /\ \A c \in Commands, t \in Targets : Outcomes(c, t) = Handle(c, t)

\* The handlers of the simulator keep their types.
LEMMA SimulatorTyped == ASSUME Simulated PROVE HandlersTyped
<1>1. FreshTargets \subseteq SimulatedTargets
  <2>1. Created \subseteq RegisterFile
    BY CreateTyped DEF Created
  <2> QED BY <2>1, ArmCoreAssumption DEF FreshTargets, SimulatedTargets
<1>2. \A c \in Commands, t \in SimulatedTargets : \A o \in Handle(c, t) :
            o.target \in SimulatedTargets /\ o.answer \in TextAnswers \cup {NoAnswer}
                /\ o.ended \in BOOLEAN
  <2> TAKE c \in Commands, t \in SimulatedTargets
  <2> TAKE o \in Handle(c, t)
  <2>1. o \in Yields
    BY HandlersYield
  <2> QED BY <2>1 DEF Yields
<1> QED BY <1>1, <1>2 DEF Simulated, HandlersTyped

\* TypeOK: whatever a debugger sends, in whatever state, every handler leaves
\* registers and a memory, the exception fits its byte, and the answer is one of
\* the stub's with data of whole bytes.
THEOREM SessionTyped == ASSUME Simulated PROVE Spec => []TypeOK
BY SimulatorTyped, ProtocolTyped

---------------------------------------------------------------------------
(* What the debugger reads back.                                           *)

\* The pc that is shown is the pc that was written, if no bit 1 is cleared.
LEMMA FetchBack ==
    ASSUME NEW v \in Word, 1 \notin v
    PROVE  Sub(AheadOfFetch(v), FromNat(4)) = v
<1> DEFINE s == Add(v, {2})
           K == Carries(v, {2}, FALSE)
<1>1. s = {i \in Bits : ((i \in v) # (i \in {2})) # (i \in K)}
  BY Zenon DEF Add, AddCarry
<1>2. 1 \notin K
  BY DEF Carries
<1>3. s \in Word
  BY SumsAreWords
<1> HIDE DEF K, s
<1>4. 1 \notin s
  BY <1>1, <1>2
<1>5. AheadOfFetch(v) = s
  BY <1>4, Four DEF AheadOfFetch, clr_bit, s
<1> DEFINE d == Sub(s, {2})
<1>6. d \in Word /\ Add(d, {2}) = Add(v, {2})
  BY <1>3, SumsAreWords, AddBack DEF s
<1> HIDE DEF d
<1>7. d = v
  BY <1>6, SumsDiffer, Zenon
<1> QED BY <1>5, <1>7, Four DEF d

\* The words of the answer to "g".
LEMMA WordsOfGeneral ==
    ASSUME NEW t \in SimulatedTargets, NEW n \in 0..16
    PROVE  WordOf(read_general_registers(t).answer.data, n) = write_uint32(ShownWord(t.regs, n))
<1> DEFINE data == read_general_registers(t).answer.data
           shown(k) == write_uint32(ShownWord(t.regs, k))
           text == shown(n)
           word == SubSeq(data, 4 * n + 1, 4 * n + 4)
<1>1. data \in Seq(Byte) /\ data = [i \in 1..68 |-> shown((i - 1) \div 4)[((i - 1) % 4) + 1]]
  BY GeneralText
<1>2. text \in WordText
  BY TargetFields, SeenIsWord, TextOfWord
<1> HIDE DEF data, shown
<1>3. Len(data) = 68
  BY <1>1
<1>4. word \in Seq(Byte) /\ Len(word) = 4 /\ \A i \in 1..4 : word[i] = data[4 * n + i]
  <2> DEFINE from == 4 * n + 1
             to == 4 * n + 4
  <2>1. /\ from \in Int /\ to \in Int /\ from <= to /\ to - from + 1 = 4
        /\ from..to \subseteq 1..68 /\ \A i \in 1..4 : from + i - 1 = 4 * n + i
    OBVIOUS
  <2> HIDE DEF from, to
  <2>2. \A i \in from..to : data[i] \in Byte
    <3>1. ASSUME NEW s \in Seq(Byte), Len(s) = 68 PROVE \A i \in 1..68 : s[i] \in Byte
      BY <3>1, ElementOfSeq
    <3> QED BY <1>1, <1>3, <2>1, <3>1
  <2>3. /\ SubSeq(data, from, to) \in Seq(Byte)
        /\ Len(SubSeq(data, from, to)) = 4
        /\ \A i \in 1..4 : SubSeq(data, from, to)[i] = data[from + i - 1]
    BY <2>1, <2>2, SubSeqProperties
  <2>4. word = SubSeq(data, from, to)
    BY DEF from, to
  <2> HIDE DEF word
  <2> QED BY <2>1, <2>3, <2>4
<1>5. \A i \in 1..4 : 4 * n + i \in 1..68 /\ (4 * n + i - 1) \div 4 = n /\ (4 * n + i - 1) % 4 = i - 1
  OBVIOUS
<1>6. \A i \in 1..4 : data[4 * n + i] = text[i]
  <2> TAKE i \in 1..4
  <2> DEFINE j == 4 * n + i
  <2>1. j \in 1..68 /\ (j - 1) \div 4 = n /\ ((j - 1) % 4) + 1 = i
    BY <1>5
  <2> HIDE DEF j
  <2>2. data[j] = shown((j - 1) \div 4)[((j - 1) % 4) + 1]
    BY <1>1, <2>1
  <2>3. data[j] = shown(n)[i]
    BY <2>1, <2>2
  <2> QED BY <2>3 DEF j
<1>7. text \in Seq(Byte) /\ Len(text) = 4
  BY <1>2, Texts DEF WordText
<1> HIDE DEF text, word
<1>8. word = text
  BY <1>4, <1>6, <1>7, SeqEqual, Zenon
<1> QED BY <1>8 DEF word, text, data, shown, WordOf

\* G and g.
LEMMA GeneralReadBack ==
    ASSUME NEW t \in SimulatedTargets, NEW values \in [0..15 -> Word], NEW cpsr \in Word,
           1 \notin values[PC], get_mode(t.regs) \in NamedModes,
           cpsr \cap ModeBits = get_mode(t.regs)
    PROVE  LET shown == read_general_registers(
                            write_general_registers(t, [reg \in 0..15 |-> write_uint32(values[reg])],
                                                    write_uint32(cpsr)).target).answer.data
           IN  /\ \A reg \in 0..15 : WordOf(shown, reg) = write_uint32(values[reg])
               /\ WordOf(shown, 16) = write_uint32(cpsr)
<1> DEFINE text == [reg \in 0..15 |-> write_uint32(values[reg])]
           read == [reg \in 0..15 |-> read_uint32(text[reg])]
           written == write_registers(t.regs, 0..15, read)
           r == write_cpsr(written, read_uint32(write_uint32(cpsr)))
           after == write_general_registers(t, text, write_uint32(cpsr)).target
<1>1. read = values
  <2>1. \A reg \in 0..15 : read[reg] = values[reg]
    BY TextOfWord
  <2> HIDE DEF read
  <2>2. read = [reg \in 0..15 |-> read[reg]]
    BY DEF read
  <2> QED BY <2>1, <2>2
<1>2. read_uint32(write_uint32(cpsr)) = cpsr
  BY TextOfWord
<1>3. after = WithRegs(t, r) /\ written \in RegisterFile /\ r \in RegisterFile
  <2> HIDE DEF text
  <2> QED BY GeneralWriteYields
<1>4. after \in SimulatedTargets /\ after.regs = r
  <2> HIDE DEF r, after
  <2> QED BY <1>3, TargetFields
<1>5. t.regs \in RegisterFile
  BY TargetFields
<1>6. \A i \in 0..15 : read_register(written, i) = values[i]
  <2> HIDE DEF read
  <2>1. \A i \in 0..15 : values[i] \in Word
    OBVIOUS
  <2> QED BY <1>1, <1>5, <2>1, WrittenAreRead
<1>7. read_cpsr(written) = read_cpsr(t.regs)
  <2> HIDE DEF read
  <2>1. \A i \in 0..15 : values[i] \in Word
    OBVIOUS
  <2> QED BY <1>1, <1>5, <2>1, WriteRegistersStays
<1>8. r = [written EXCEPT ![CPSR] = cpsr]
  BY <1>2 DEF write_cpsr
<1> HIDE DEF written, read, text, after, r
<1>9. read_cpsr(r) = cpsr /\ get_mode(r) = get_mode(t.regs) /\ get_mode(written) = get_mode(t.regs)
  BY <1>3, <1>7, <1>8 DEF read_cpsr, get_mode, RegisterFile, Slots, NB_REGISTER, CPSR
<1>10. \A i \in 0..15 : Slot(r, i) = Slot(written, i) /\ Slot(written, i) \in Slots \ {CPSR}
  BY <1>3, <1>9, SlotInReach DEF Slot
<1>11. \A i \in 0..15 : read_register(r, i) = values[i]
  <2>1. \A i \in 0..15 : r[Slot(r, i)] = written[Slot(written, i)]
    BY <1>3, <1>8, <1>10 DEF RegisterFile
  <2> QED BY <1>6, <2>1 DEF read_register, is_valid
<1>12. \A i \in 0..15 : SeenRegister(r, i) = values[i]
  <2> TAKE i \in 0..15
  <2>1. CASE i # PC
    BY <1>11, <2>1 DEF SeenRegister, arm_read_register
  <2>2. CASE i = PC
    <3>1. values[PC] \in Word /\ read_register(r, PC) = values[PC]
      BY <1>11, <2>2
    <3>2. Sub(AheadOfFetch(values[PC]), FromNat(4)) = values[PC]
      BY <3>1, FetchBack
    <3> QED BY <2>2, <3>1, <3>2 DEF SeenRegister, arm_read_register
  <2> QED BY <2>1, <2>2
<1>13. (\A i \in 0..15 : ShownWord(r, i) = values[i]) /\ ShownWord(r, 16) = cpsr
  BY <1>9, <1>12 DEF ShownWord
<1> DEFINE shown == read_general_registers(after).answer.data
<1>14. \A n \in 0..16 : WordOf(shown, n) = write_uint32(ShownWord(r, n))
  BY <1>4, WordsOfGeneral
<1> HIDE DEF shown
<1>15. /\ \A reg \in 0..15 : WordOf(shown, reg) = write_uint32(values[reg])
       /\ WordOf(shown, 16) = write_uint32(cpsr)
  BY <1>13, <1>14
<1> QED BY <1>15 DEF shown, after, text

\* P and p, for the numbers that atoi reads as they are.
LEMMA RegisterReadBack ==
    ASSUME NEW t \in SimulatedTargets, NEW reg \in 0..9, NEW v \in Word,
           get_mode(t.regs) \in NamedModes
    PROVE  read_register_command(write_register_command(t, reg, write_uint32(v)).target, reg).answer.data
                = write_uint32(v)
<1> DEFINE r == write_register(t.regs, reg, v)
           after == write_register_command(t, reg, write_uint32(v)).target
<1>1. reg % 16 = reg /\ reg \div 16 = 0 /\ reg \in 0..15 /\ reg < 16 /\ reg # PC
  BY DEF PC
<1>2. Atoi(reg) = reg
  BY <1>1 DEF Atoi
<1>3. read_uint32(write_uint32(v)) = v
  BY TextOfWord
<1>4. after = WithRegs(t, r)
  BY <1>1, <1>3, RegisterWriteYields
<1>5. r \in RegisterFile /\ read_register(r, reg) = v
  <2>1. t.regs \in RegisterFile
    BY TargetFields
  <2>2. r \in RegisterFile
    BY <2>1, WriteRegisterStays DEF StaysIn
  <2>3. read_register(r, reg) = IF reg = reg THEN v ELSE read_register(t.regs, reg)
    BY <1>1, <2>1, WrittenIsRead
  <2> QED BY <2>2, <2>3
<1> HIDE DEF r, after
<1>6. after \in SimulatedTargets /\ after.regs = r
  BY <1>4, <1>5, TargetFields
<1>7. SeenRegister(r, reg) = v
  BY <1>1, <1>5 DEF SeenRegister, arm_read_register
<1>8. read_register_command(after, reg).answer.data = write_uint32(SeenRegister(after.regs, Atoi(reg)))
  BY <1>1, <1>2, <1>6, RegisterText
<1> QED BY <1>2, <1>6, <1>7, <1>8 DEF after

\* Bytes stored at the addresses of a packet are read there.
PairsAt(a, S, f) == {<<ByteAddress(a, k), f[k]>> : k \in S}

LEMMA StoredAreRead ==
    ASSUME NEW m, NEW a, NEW S \in SUBSET Offsets, NEW f,
           NEW i \in S, ByteAddress(a, i) \in MemAddress
    PROVE  StoreBytes(m, PairsAt(a, S, f))[ByteAddress(a, i)] = f[i]
<1> DEFINE stored == {<<ByteAddress(a, k), f[k]>> : k \in S}
           at == ByteAddress(a, i)
           chosen == CHOOSE b \in stored : b[1] = at
<1>1. <<at, f[i]>> \in stored
  OBVIOUS
<1>2. \A b \in stored : b[1] = at => b[2] = f[i]
  <2> SUFFICES ASSUME NEW k \in S, ByteAddress(a, k) = at PROVE f[k] = f[i]
    OBVIOUS
  <2>1. k \in Offsets /\ i \in Offsets
    OBVIOUS
  <2>2. ByteAddress(a, k) = ByteAddress(a, i)
    OBVIOUS
  <2>3. k = i
    BY <2>1, <2>2, BytesDiffer
  <2> QED BY <2>3
<1>3. StoreBytes(m, stored)[at]
        = IF \E b \in stored : b[1] = at THEN (CHOOSE b \in stored : b[1] = at)[2] ELSE m[at]
  BY DEF StoreBytes
<1> HIDE DEF stored, at
<1>4. \E b \in stored : b[1] = at
  BY <1>1
<1>5. (CHOOSE b \in stored : b[1] = at) \in stored /\ (CHOOSE b \in stored : b[1] = at)[1] = at
  BY <1>4
<1>6. StoreBytes(m, stored)[at] = f[i]
  BY <1>2, <1>3, <1>4, <1>5
<1> QED BY <1>6 DEF stored, at, PairsAt

\* X and m, up to the end of the memory.
LEMMA MemoryReadBack ==
    ASSUME NEW t \in SimulatedTargets, NEW a \in Word, NEW bytes \in Seq(Byte), Len(bytes) <= 1024
    PROVE  read_memory(write_memory_binary(t, a, Len(bytes), Escaped(bytes)).target,
                       a, Len(bytes)).answer.data
                = SubSeq(bytes, 1, Cardinality(InMemory(a, Len(bytes))))
<1> DEFINE size == Len(bytes)
           in == InMemory(a, size)
           stored == StoredPairs(a, size, bytes)
           m == StoreBytes(t.mem, stored)
           after == write_memory_binary(t, a, size, Escaped(bytes)).target
           f == [k \in in |-> bytes[k + 1]]
<1>1. Escaped(bytes) \in Seq(Byte) /\ Unescape(Escaped(bytes)) = bytes
  BY EscapedIsRead
<1>2. size \in Nat /\ size \in 0..size
  OBVIOUS
<1>3. after = [t EXCEPT !.mem = m] /\ m \in MemoryContent
  <2> DEFINE content == Escaped(bytes)
  <2> HIDE DEF content, size
  <2>1. content \in Seq(Byte) /\ Unescape(content) = bytes /\ size \in 0..Len(Unescape(content))
    BY <1>1 DEF content, size
  <2>2. /\ write_memory_binary(t, a, size, content).target
                = [t EXCEPT !.mem = StoreBytes(t.mem, StoredPairs(a, size, bytes))]
        /\ StoreBytes(t.mem, StoredPairs(a, size, bytes)) \in MemoryContent
    BY <2>1, MemoryWriteYields
  <2> QED BY <2>2, Zenon DEF content
<1>4. after \in SimulatedTargets /\ after.mem = m
  <2> HIDE DEF m, after
  <2> QED BY <1>3, TargetFields
<1>5. PICK n \in 0..size : /\ in = 0..(n - 1)
                           /\ {k + 1 : k \in in} = 1..n
                           /\ Cardinality(in) = n
  BY <1>2, InMemoryIsInitial
<1>6. \A k \in in : ByteAddress(a, k) \in MemAddress
  <2> TAKE k \in in
  <2>1. k \in 0..k
    BY <1>5
  <2> QED BY <2>1 DEF InMemory
<1> DEFINE data == read_memory(after, a, size).answer.data
<1>7. data = [i \in 1..n |-> m[ByteAddress(a, i - 1)]]
  <2>1. data = [i \in {k + 1 : k \in in} |-> after.mem[ByteAddress(a, i - 1)]]
    BY <1>2, <1>4, MemoryText
  <2> HIDE DEF data, after, m
  <2> QED BY <1>4, <1>5, <2>1
<1>8. \A i \in 1..n : m[ByteAddress(a, i - 1)] = bytes[i]
  <2> TAKE i \in 1..n
  <2>1. i - 1 \in in /\ (i - 1) + 1 = i
    BY <1>5
  <2>2. in \in SUBSET Offsets
    BY <1>2, <1>5 DEF Offsets
  <2>3. stored = PairsAt(a, in, f)
    BY DEF StoredPairs, PairsAt
  <2>4. f[i - 1] = bytes[i]
    BY <2>1
  <2> DEFINE j == i - 1
  <2> HIDE DEF f, stored, in, j
  <2>5. j \in in /\ ByteAddress(a, j) \in MemAddress
    BY <1>6, <2>1 DEF j
  <2>6. StoreBytes(t.mem, stored)[ByteAddress(a, j)] = f[j]
    <3>1. StoreBytes(t.mem, PairsAt(a, in, f))[ByteAddress(a, j)] = f[j]
      BY <2>2, <2>5, StoredAreRead
    <3> QED BY <2>3, <3>1
  <2> QED BY <2>4, <2>6 DEF j
<1> HIDE DEF data, m, in, stored, f
<1>9. data = [i \in 1..n |-> bytes[i]]
  BY <1>7, <1>8
<1>10. SubSeq(bytes, 1, n) = [i \in 1..n |-> bytes[i]]
  BY <1>5
<1> QED BY <1>5, <1>9, <1>10 DEF data, in, after, size

\* A word that is stored, and m.
LEMMA WordReadBack ==
    ASSUME NEW t \in SimulatedTargets, NEW a \in Word, NEW v \in Word, InMemory(a, 4) = 0..3
    PROVE  read_memory([t EXCEPT !.mem = memory_write(t.mem, a, 4, v)], a, 4).answer.data
                = write_uint32(v)
<1> DEFINE f == [k \in 0..3 |-> ByteOf(v, Lane(4, k))]
           m == memory_write(t.mem, a, 4, v)
           after == [t EXCEPT !.mem = m]
<1>1. \A k \in 0..3 : ByteAddress(a, k) \in MemAddress
  <2> TAKE k \in 0..3
  <2>1. k \in InMemory(a, 4) /\ k \in 0..k
    OBVIOUS
  <2> QED BY <2>1 DEF InMemory
<1>2. m = StoreBytes(t.mem, PairsAt(a, 0..3, f))
  <2>1. InBounds(a, 4)
    BY <1>1 DEF InBounds
  <2>2. BytesOf(a, 4, v) = PairsAt(a, 0..3, f)
    BY DEF BytesOf, PairsAt
  <2> HIDE DEF f
  <2> QED BY <2>1, <2>2 DEF memory_write
<1>3. m \in MemoryContent
  BY TargetFields, WriteKeepsMemory
<1> HIDE DEF m
<1>4. after \in SimulatedTargets /\ after.mem = m
  BY <1>3, TargetFields
<1> HIDE DEF after
<1> DEFINE data == read_memory(after, a, 4).answer.data
<1>5. data = [i \in 1..4 |-> m[ByteAddress(a, i - 1)]]
  <2>1. {k + 1 : k \in 0..3} = 1..4
    OBVIOUS
  <2>2. data = [i \in {k + 1 : k \in InMemory(a, 4)} |-> after.mem[ByteAddress(a, i - 1)]]
    BY <1>4, MemoryText
  <2> HIDE DEF data
  <2> QED BY <1>4, <2>1, <2>2
<1>6. \A i \in 1..4 : m[ByteAddress(a, i - 1)] = ByteOf(v, Lane(4, i - 1))
  <2> TAKE i \in 1..4
  <2>1. i - 1 \in 0..3 /\ (0..3) \in SUBSET Offsets
    BY DEF Offsets
  <2>2. f[i - 1] = ByteOf(v, Lane(4, i - 1))
    BY <2>1
  <2> HIDE DEF f
  <2> DEFINE j == i - 1
  <2> HIDE DEF j
  <2>3. j \in 0..3 /\ ByteAddress(a, j) \in MemAddress
    BY <1>1, <2>1 DEF j
  <2>4. m[ByteAddress(a, j)] = f[j]
    <3> DEFINE lanes == 0..3
    <3>1. m = StoreBytes(t.mem, PairsAt(a, lanes, f)) /\ j \in lanes /\ lanes \in SUBSET Offsets
      BY <1>2, <2>1, <2>3
    <3> HIDE DEF lanes
    <3>2. StoreBytes(t.mem, PairsAt(a, lanes, f))[ByteAddress(a, j)] = f[j]
      BY <2>3, <3>1, StoredAreRead
    <3> QED BY <3>1, <3>2
  <2> QED BY <2>2, <2>4 DEF j
<1>7. write_uint32(v) = [i \in 1..4 |-> ByteOf(v, Lane(4, i - 1))]
  <2>1. \A i \in 1..4 : write_uint32(v)[i] = ByteOf(v, Lane(4, i - 1))
    BY TextOfWord
  <2> DEFINE text == write_uint32(v)
  <2>2. text = [i \in 1..4 |-> text[i]]
    BY DEF write_uint32
  <2> HIDE DEF text
  <2> QED BY <2>1, <2>2 DEF text
<1> HIDE DEF data
<1>8. data = write_uint32(v)
  BY <1>5, <1>6, <1>7
<1> QED BY <1>8 DEF data, after, m

\* Every target reads back what it is written.
LEMMA TargetsReadBack ==
    ASSUME target \in SimulatedTargets
    PROVE  DebuggerReadsBack
<1>1. ASSUME NEW p \in GeneralWrites, get_mode(target.regs) \in NamedModes,
             p[2] \cap ModeBits = get_mode(target.regs)
      PROVE  /\ \A reg \in 0..15 : WordOf(ShownAfter(p), reg) = write_uint32(p[1][reg])
             /\ WordOf(ShownAfter(p), 16) = write_uint32(p[2])
  <2>1. p[1] \in [0..15 -> Word] /\ p[2] \in Word
    BY ArmCoreAssumption
  <2>2. 1 \notin p[1][PC]
    BY SessionAssumption
  <2> QED BY <1>1, <2>1, <2>2, GeneralReadBack DEF ShownAfter
<1>2. ASSUME NEW p \in RegisterWrites, get_mode(target.regs) \in NamedModes, p[1] \in 0..9
      PROVE  ReadAfter(p) = write_uint32(p[2])
  <2>1. p[2] \in Word
    BY ArmCoreAssumption
  <2> QED BY <1>2, <2>1, RegisterReadBack DEF ReadAfter
<1>3. ASSUME NEW p \in MemoryWrites
      PROVE  SeenAfter(p) = SubSeq(p[2], 1, Cardinality(InMemory(p[1], Len(p[2]))))
  <2>1. p[1] \in Word /\ p[2] \in Seq(Byte) /\ Len(p[2]) <= 1024
    BY ArmCoreAssumption
  <2> QED BY <2>1, MemoryReadBack DEF SeenAfter
<1>4. ASSUME NEW p \in RegisterWrites, NEW q \in MemoryWrites, InMemory(q[1], 4) = 0..3
      PROVE  read_memory([target EXCEPT !.mem = memory_write(@, q[1], 4, p[2])], q[1], 4).answer.data
                = write_uint32(p[2])
  <2>1. p[2] \in Word /\ q[1] \in Word
    BY ArmCoreAssumption
  <2> QED BY <1>4, <2>1, WordReadBack
<1> QED BY <1>1, <1>2, <1>3, <1>4 DEF DebuggerReadsBack

\* DebuggerReadsBack: in every state a session reaches, the debugger reads back
\* every register file, register and memory it could write, in both byte orders
\* of the target and of the host.
THEOREM DebuggerReads == ASSUME Simulated PROVE Spec => []DebuggerReadsBack
<1>1. TypeOK => DebuggerReadsBack
  <2> SUFFICES ASSUME TypeOK PROVE DebuggerReadsBack
    OBVIOUS
  <2>1. target \in SimulatedTargets
    BY DEF TypeOK, Simulated
  <2> QED BY <2>1, TargetsReadBack
<1>2. Spec => []TypeOK
  BY SessionTyped
<1> QED BY <1>1, <1>2, PTL

=============================================================================
