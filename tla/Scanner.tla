------------------------------ MODULE Scanner ------------------------------
(***************************************************************************)
(* scanner.c: the scanner flex generated from scanner.l, as the debugger   *)
(* thread runs it: a table-driven automaton over a buffer that is filled   *)
(* by read() with as many bytes as happen to have arrived.                 *)
(*                                                                         *)
(* Positions are indices of yy_ch_buf.  yytext is kept in the buffer and   *)
(* ended by a NUL that overwrites the byte after it; the byte waits in     *)
(* yy_hold_char.  Two NULs after the last byte mark the end of the buffer; *)
(* the input may hold NULs of its own (a binary write of gdb does).        *)
(***************************************************************************)
EXTENDS ScannerRules

CONSTANTS
    YY_BUF_SIZE,        \* first size of the buffer: 16384
    YY_READ_BUF_SIZE    \* most bytes asked of one read: 8192

ASSUME ScannerAssumption ==
    /\ Streams \subseteq Seq(Byte)
    /\ YY_BUF_SIZE \in Nat /\ YY_BUF_SIZE >= 2
    /\ YY_READ_BUF_SIZE \in Nat \ {0}

VARIABLES
    nread,          \* how much of the stream read() has returned
    ch_buf, n_chars, buf_size, buffer_status,   \* yy_buffer_state
    c_buf_p,        \* where the next token begins (the end of this one)
    hold_char,
    text, leng,     \* yytext_ptr, yyleng
    dfa,            \* yy_current_state and the last accepting state and position
    cp, bp, act,    \* yy_cp, yy_bp, yy_act of yylex
    pc              \* where yylex is

buffer == <<ch_buf, n_chars, buf_size, buffer_status>>
position == <<c_buf_p, hold_char, text, leng>>
local == <<dfa, cp, bp, act>>
vars == <<rulesVars, nread, buffer, position, local, pc>>

---------------------------------------------------------------------------
(* The tables.                                                             *)

Table(seq) == [i \in 0..(Len(seq) - 1) |-> seq[i + 1]]

yy_accept == Table(<<0, 0, 0, 6, 4, 5, 4, 1, 2, 0, 0, 0, 3, 0>>)
yy_ec == [b \in Byte |->
            CASE b = 0 -> 0 [] b = NL -> 2 [] b = HASH -> 3 [] b = DOLLAR -> 4
              [] b = PLUS -> 5 [] b = MINUS -> 6 [] b \in HEX -> 7 [] OTHER -> 1]
yy_meta == Table(<<0, 1, 1, 1, 2, 1, 1, 1>>)
yy_base == Table(<<0, 0, 0, 13, 14, 14, 9, 14, 14, 8, 3, 2, 14, 14, 7>>)
yy_def == Table(<<0, 13, 1, 13, 13, 13, 14, 13, 13, 14, 13, 13, 13, 0, 13>>)
yy_nxt == Table(<<0, 4, 5, 4, 6, 7, 8, 4, 9, 12, 11, 10, 10, 13, 3,
                  13, 13, 13, 13, 13, 13, 13>>)
yy_chk == Table(<<0, 1, 1, 1, 1, 1, 1, 1, 14, 11, 10, 9, 6, 3, 13,
                  13, 13, 13, 13, 13, 13, 13>>)

YY_END_OF_BUFFER == 6
YY_STATE_EOF == YY_END_OF_BUFFER + 1
JAM == 13
JAM_BASE == 14
TEMPLATE == 14      \* states from here on are reached through yy_meta

\* A state without an entry for the class leaves it to its default.
HasEntry(s, c) == yy_chk[yy_base[s] + c] = s
Default(s, c) ==
    IF HasEntry(s, c)
    THEN <<s, c>>
    ELSE <<yy_def[s], IF yy_def[s] >= TEMPLATE THEN yy_meta[c] ELSE c>>

\* The transition from state s on the class c: along yy_def to a state that
\* has an entry for it, which is at most two further.
Transition(s, c) ==
    LET one == Default(s, c)
        two == Default(one[1], one[2])
    IN  yy_nxt[yy_base[two[1]] + two[2]]

\* Mutant: states that accept are not noted on the way.
AdvanceForgets(d, p, class) ==
    [d EXCEPT !.state = Transition(d.state, class)]

\* One turn of the matching loop, at position p.
Advance(d, p, class) ==
    [state |-> Transition(d.state, class),
     last |-> IF yy_accept[d.state] # 0 THEN d.state ELSE d.last,
     lastPos |-> IF yy_accept[d.state] # 0 THEN p ELSE d.lastPos]

\* The automaton in its start state.
Restarted == [dfa EXCEPT !.state = 1]

\* In these two, every NUL is a byte of the input.
InputClass(b) == IF b = 0 THEN 1 ELSE yy_ec[b]

\* One more byte, for the automata in ds.
Advanced(ds, p, b) == {Advance(d, p, InputClass(b)) : d \in ds}

\* yy_get_previous_state: the automaton after the bytes from..to-1.  (As the
\* set with that one state in it.)
StatesBefore(buf, from, to) ==
    LET Before[p \in from..to] ==
            IF p = from THEN {Restarted} ELSE Advanced(Before[p - 1], p - 1, buf[p - 1])
    IN  Before

yy_get_previous_state(buf, from, to) == StatesBefore(buf, from, to)[to]

\* yy_try_NUL_trans
yy_try_NUL_trans(d, p) == Advance(d, p, InputClass(0))

---------------------------------------------------------------------------
(* gdb_scanner up to the loop of yylex.                                    *)

\* Mutant: one end mark only.
EmptyBufferOneMark == [i \in 0..0 |-> 0]

\* yy_flush_buffer: a buffer with nothing but the two end marks.
EmptyBuffer == [i \in 0..1 |-> 0]

yy_init_buffer == ch_buf = EmptyBuffer /\ n_chars = 0 /\ buffer_status = "NEW"
yy_create_buffer == yy_init_buffer /\ buf_size = YY_BUF_SIZE
yy_load_buffer_state == c_buf_p = 0 /\ text = 0 /\ hold_char = ch_buf[0]

\* yylex_init_extra zeroes the scanner.
yy_init_globals ==
    /\ leng = 0
    /\ dfa = [state |-> 0, last |-> 0, lastPos |-> 0]
    /\ cp = 0 /\ bp = 0 /\ act = 0

gdb_scanner ==
    /\ Init
    /\ nread = 0
    /\ yy_init_globals
    /\ yy_create_buffer
    /\ yy_load_buffer_state
    /\ pc = "start"

---------------------------------------------------------------------------
(* yylex: find a token.                                                    *)

\* The head of the loop: the byte under the NUL comes back.
Start ==
    /\ pc = "start"
    /\ cp' = c_buf_p /\ bp' = c_buf_p
    /\ ch_buf' = [ch_buf EXCEPT ![c_buf_p] = hold_char]
    /\ dfa' = Restarted
    /\ pc' = "match"
    /\ UNCHANGED <<rulesVars, nread, n_chars, buf_size, buffer_status, position, act>>

Match ==
    /\ pc = "match"
    /\ dfa' = Advance(dfa, cp, yy_ec[ch_buf[cp]])
    /\ cp' = cp + 1
    /\ pc' = IF yy_base[dfa'.state] = JAM_BASE THEN "find" ELSE "match"
    /\ UNCHANGED <<rulesVars, nread, buffer, position, bp, act>>

\* A state that accepts nothing: back to the last one that did.
BackUp(d, p) == IF yy_accept[d.state] = 0 THEN <<d.last, d.lastPos>> ELSE <<d.state, p>>

\* The n bytes from bp are yytext.
YY_DO_BEFORE_ACTION(n) ==
    /\ text' = bp
    /\ leng' = n
    /\ hold_char' = ch_buf[bp + n]
    /\ ch_buf' = [ch_buf EXCEPT ![bp + n] = 0]
    /\ c_buf_p' = bp + n

\* yy_find_action
FindAction ==
    /\ pc = "find"
    /\ \E found \in {BackUp(dfa, cp)} :
            /\ act' = yy_accept[found[1]]
            /\ dfa' = [dfa EXCEPT !.state = found[1]]
            /\ cp' = found[2]
            /\ YY_DO_BEFORE_ACTION(found[2] - bp)
    /\ pc' = "action"
    /\ UNCHANGED <<rulesVars, nread, n_chars, buf_size, buffer_status, bp>>

---------------------------------------------------------------------------
(* yylex: act on it.                                                       *)

\* The action of a rule is given yytext and yyleng.
RuleAction ==
    /\ pc = "action"
    /\ act \in 1..5
    /\ token' = <<act, [i \in 1..leng |-> ch_buf[text + i - 1]]>>
    /\ taken' = taken + leng
    /\ pc' = "start"
    /\ UNCHANGED <<stream, ended, nread, buffer, position, local>>

\* The rule <<EOF>>: yylex returns.
EofAction ==
    /\ pc = "action"
    /\ act = YY_STATE_EOF
    /\ pc' = "return"
    /\ ended' = "eof"
    /\ UNCHANGED <<stream, taken, token, nread, buffer, position, local>>

\* The buffer is freed and the scanner zeroed; gdb_scanner returns.
yylex_destroy ==
    /\ pc = "return"
    /\ buffer_status' = "FREED"
    /\ c_buf_p' = 0 /\ text' = 0 /\ leng' = 0 /\ hold_char' = 0
    /\ pc' = "ended"
    /\ UNCHANGED <<rulesVars, nread, ch_buf, n_chars, buf_size, local>>

\* The first NUL after the token, when it is not that of the end.
Restored == [ch_buf EXCEPT ![cp] = hold_char]
AmountMatched == cp - text - 1

\* Mutant: a NUL that is the last byte in the buffer is taken for its end.
IsRealNulBeforeLast == c_buf_p < n_chars

IsRealNul == c_buf_p <= n_chars

\* This was really a NUL: a transition on it, or the action of what precedes.
RealNul ==
    /\ pc = "action"
    /\ act = YY_END_OF_BUFFER
    /\ IsRealNul
    /\ ch_buf' = Restored
    /\ bp' = text
    /\ \E previous \in yy_get_previous_state(ch_buf', text, text + AmountMatched) :
       \E next \in {yy_try_NUL_trans(previous, text + AmountMatched)} :
            IF next.state # JAM
            THEN /\ dfa' = next
                 /\ cp' = text + AmountMatched + 1
                 /\ pc' = "match"
            ELSE /\ dfa' = [next EXCEPT !.state = previous.state]
                 /\ cp' = text + AmountMatched
                 /\ pc' = "find"
    /\ c_buf_p' = cp'
    /\ UNCHANGED <<rulesVars, nread, n_chars, buf_size, buffer_status, hold_char, text,
                   leng, act>>

---------------------------------------------------------------------------
(* yy_get_next_buffer.                                                     *)

\* The bytes of the token begun, which move to the front.
NumberToMove == c_buf_p - text - 1

\* The end of the buffer.
EndOfBuffer ==
    /\ pc = "action"
    /\ act = YY_END_OF_BUFFER
    /\ ~IsRealNul
    /\ buffer_status' = IF buffer_status = "NEW" THEN "NORMAL" ELSE buffer_status
    /\ IF c_buf_p > n_chars + 1
       THEN pc' = "internal" /\ ended' = "failed" /\ ch_buf' = Restored
       ELSE /\ pc' = "fill"
            /\ ch_buf' = [i \in 0..(n_chars + 1) |->
                            IF i < NumberToMove THEN Restored[text + i] ELSE Restored[i]]
            /\ UNCHANGED ended
    /\ UNCHANGED <<stream, taken, token, nread, n_chars, buf_size, position, local>>

\* Mutant: the buffer keeps its size.
GrownNot(size) == size

Grown(size) == 2 * size

\* Mutant: no room is kept for the end of the buffer.
NumToReadToTheEnd == buf_size - NumberToMove

NumToRead == buf_size - NumberToMove - 1

\* Not enough room in the buffer.
GrowBuffer ==
    /\ pc = "fill"
    /\ buffer_status # "EOF_PENDING"
    /\ NumToRead <= 0
    /\ buf_size' = Grown(buf_size)
    /\ UNCHANGED <<rulesVars, nread, ch_buf, n_chars, buffer_status, position, local, pc>>

\* What is left to do with n bytes read behind the ones moved: they, then the
\* two end marks; yytext begins the buffer.
Filled(n) ==
    /\ ch_buf' = [i \in 0..(NumberToMove + n + 1) |->
                    IF i < NumberToMove THEN ch_buf[i]
                    ELSE IF i < NumberToMove + n THEN stream[nread + i - NumberToMove + 1]
                    ELSE 0]
    /\ nread' = nread + n
    /\ n_chars' = NumberToMove + n
    /\ buf_size' = IF NumberToMove + n > buf_size
                   THEN NumberToMove + n + (n \div 2) - 2
                   ELSE buf_size
    /\ text' = 0 /\ bp' = 0

\* EOB_ACT_CONTINUE_SCAN
ReadMore ==
    /\ pc = "fill"
    /\ buffer_status # "EOF_PENDING"
    /\ \E n \in 1..YY_READ_BUF_SIZE :
            /\ n <= NumToRead
            /\ n <= Len(stream) - nread
            /\ Filled(n)
    /\ cp' = NumberToMove /\ c_buf_p' = NumberToMove
    /\ dfa' \in yy_get_previous_state(ch_buf', 0, NumberToMove)
    /\ pc' = "match"
    /\ UNCHANGED <<rulesVars, buffer_status, hold_char, leng, act>>

\* read() returned 0, or is not called because it did before.
NothingRead ==
    /\ pc = "fill"
    /\ buffer_status = "EOF_PENDING" \/ (NumToRead > 0 /\ nread = Len(stream))
    /\ Filled(0)

yyrestart == buffer_status' = "NEW" /\ c_buf_p' = 0 /\ hold_char' = 0

\* EOB_ACT_END_OF_FILE: no text is left.
EndOfStream ==
    /\ NothingRead
    /\ NumberToMove = 0
    /\ yyrestart
    /\ act' = YY_STATE_EOF
    /\ pc' = "action"
    /\ UNCHANGED <<rulesVars, leng, dfa, cp>>

\* EOB_ACT_LAST_MATCH: the text before the end is matched as it is.
LastMatch ==
    /\ NothingRead
    /\ NumberToMove > 0
    /\ buffer_status' = "EOF_PENDING"
    /\ c_buf_p' = NumberToMove /\ cp' = NumberToMove
    /\ dfa' \in yy_get_previous_state(ch_buf', 0, NumberToMove)
    /\ pc' = "find"
    /\ UNCHANGED <<rulesVars, leng, hold_char, act>>

\* YY_INPUT: an error of read() other than EINTR ends the process.
ReadFails ==
    /\ pc = "fill"
    /\ buffer_status # "EOF_PENDING"
    /\ NumToRead > 0
    /\ pc' = "failed"
    /\ ended' = "failed"
    /\ UNCHANGED <<stream, taken, token, nread, buffer, position, local>>

---------------------------------------------------------------------------
ScannerNext ==
    \/ Start \/ Match \/ FindAction
    \/ RuleAction \/ EofAction \/ yylex_destroy \/ RealNul
    \/ EndOfBuffer \/ GrowBuffer \/ ReadMore \/ EndOfStream \/ LastMatch \/ ReadFails

ScannerSpec == gdb_scanner /\ [][ScannerNext]_vars

\* The thread is scheduled, and gdb sends the stream and closes the
\* connection in the end.
FairScanner == ScannerSpec /\ WF_vars(ScannerNext)

---------------------------------------------------------------------------
(* Properties.                                                             *)

TypeOK ==
    /\ nread \in 0..Len(stream)
    /\ taken \in 0..Len(stream)
    /\ ch_buf \in [0..(n_chars + 1) -> Byte]
    /\ buffer_status \in {"NEW", "NORMAL", "EOF_PENDING", "FREED"}
    /\ {c_buf_p, text, bp} \subseteq 0..(n_chars + 2)
    /\ cp \in 0..(n_chars + 2) \/ act = YY_STATE_EOF
    /\ dfa.state \in 0..JAM
    /\ pc \in {"start", "match", "find", "action", "fill", "return", "ended", "failed", "internal"}

\* The generated scanner applies the rules of scanner.l: whatever pieces the
\* stream arrives in, whatever NULs it holds and wherever it ends, each rule
\* runs on exactly the text the rules give it, in order, and nothing is lost.
ImplementsRules == Spec

\* The bytes and the end marks stay inside the allocation of buf_size + 2
\* bytes, with room for one more read: yy_get_next_buffer.
BufferFits == n_chars < buf_size

\* Neither fatal error of the generated code is ever reported, "end of buffer
\* missed" (yy_get_next_buffer) and "no action found" (yylex), nor is the case 0
\* of its switch reached, which would back up from a state that accepts nothing
\* again and again: there is always a text to fall back to, also when the bytes
\* that led beyond it came in another read or were NULs.
NoInternalError ==
    /\ pc # "internal"
    /\ pc = "action" => act \in 1..YY_STATE_EOF

\* The scanner comes to the end of every stream: it never loops over a buffer
\* it cannot fill.
ReachesEnd == <>(pc \in {"ended", "failed"})

=============================================================================
