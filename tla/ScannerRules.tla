---------------------------- MODULE ScannerRules ----------------------------
(***************************************************************************)
(* scanner.l: the lexical rules of the gdb protocol, as flex promises to   *)
(* apply them.  At every point of the stream the rule that matches most    *)
(* bytes runs, the first of them when several match as many; the text it   *)
(* matched is taken from the stream.                                       *)
(*                                                                         *)
(* What the actions of the rules do is the subject of GdbProtocol.         *)
(***************************************************************************)
EXTENDS Integers, Sequences

CONSTANT Streams    \* the byte sequences a connection may carry

VARIABLES
    stream,     \* all that gdb sends before it closes the connection
    taken,      \* how many bytes of it the rules have taken
    token,      \* the last rule that ran and its yytext
    ended       \* "no", "eof", or "failed" when a read reported an error

rulesVars == <<stream, taken, token, ended>>

Byte == 0..255
NL == 10
HASH == 35
DOLLAR == 36
PLUS == 43
MINUS == 45
HEX == (48..57) \cup (65..70) \cup (97..102)

\* "$"[^$#]*"#"{HEX}{HEX} matches the n bytes of s that begin at i.
IsPacket(s, i, n) ==
    /\ n >= 4
    /\ s[i] = DOLLAR
    /\ \A j \in (i + 1)..(i + n - 4) : s[j] \notin {DOLLAR, HASH}
    /\ s[i + n - 3] = HASH
    /\ s[i + n - 2] \in HEX
    /\ s[i + n - 1] \in HEX

\* Rule number "rule" of the file matches the n bytes that begin at i.  5 is
\* the default rule of flex, for what "." leaves: a newline.
RuleMatches(rule, s, i, n) ==
    \/ rule = 1 /\ n = 1 /\ s[i] = PLUS
    \/ rule = 2 /\ n = 1 /\ s[i] = MINUS
    \/ rule = 3 /\ IsPacket(s, i, n)
    \/ rule = 4 /\ n = 1 /\ s[i] # NL
    \/ rule = 5 /\ n = 1

Init ==
    /\ stream \in Streams
    /\ taken = 0
    /\ token = <<0, <<>> >>
    /\ ended = "no"

Token ==
    /\ ended = "no"
    /\ taken < Len(stream)
    /\ \E rule \in 1..5, n \in 1..(Len(stream) - taken) :
            /\ RuleMatches(rule, stream, taken + 1, n)
            /\ \A other \in 1..5, m \in 1..(Len(stream) - taken) :
                    RuleMatches(other, stream, taken + 1, m) =>
                        m < n \/ (m = n /\ rule <= other)
            /\ token' = <<rule, SubSeq(stream, taken + 1, taken + n)>>
            /\ taken' = taken + n
    /\ UNCHANGED <<stream, ended>>

\* The rule <<EOF>>.
EndOfFile ==
    /\ ended = "no"
    /\ taken = Len(stream)
    /\ ended' = "eof"
    /\ UNCHANGED <<stream, taken, token>>

\* The connection breaks: the scanner ends the process.
Broken ==
    /\ ended = "no"
    /\ ended' = "failed"
    /\ UNCHANGED <<stream, taken, token>>

Next == Token \/ EndOfFile \/ Broken

Spec == Init /\ [][Next]_rulesVars

=============================================================================
