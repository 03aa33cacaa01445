---------------------------- MODULE ScannerProofs ----------------------------
(***************************************************************************)
(* The scanner that flex generated applies the rules of scanner.l, for     *)
(* every stream, every way to cut it into reads and every buffer.          *)
(***************************************************************************)
EXTENDS Scanner, SequenceTheorems, WellFoundedInduction, TLAPS

---------------------------------------------------------------------------
(* The automaton: its transitions.                                         *)

\* The rows of the tables that the scanner reaches.
LEMMA Tables ==
    /\ yy_accept[1] = 0 /\ yy_accept[3] = 6 /\ yy_accept[4] = 4 /\ yy_accept[5] = 5
    /\ yy_accept[6] = 4 /\ yy_accept[7] = 1 /\ yy_accept[8] = 2 /\ yy_accept[9] = 0
    /\ yy_accept[10] = 0 /\ yy_accept[11] = 0 /\ yy_accept[12] = 3 /\ yy_accept[13] = 0
    /\ yy_base[1] = 0 /\ yy_base[3] = 13 /\ yy_base[4] = 14 /\ yy_base[5] = 14
    /\ yy_base[6] = 9 /\ yy_base[7] = 14 /\ yy_base[8] = 14 /\ yy_base[9] = 8
    /\ yy_base[10] = 3 /\ yy_base[11] = 2 /\ yy_base[12] = 14 /\ yy_base[13] = 14
    /\ yy_base[14] = 7
    /\ yy_def[1] = 13 /\ yy_def[3] = 13 /\ yy_def[4] = 13 /\ yy_def[5] = 13 /\ yy_def[6] = 14
    /\ yy_def[7] = 13 /\ yy_def[8] = 13 /\ yy_def[9] = 14 /\ yy_def[10] = 13
    /\ yy_def[11] = 13 /\ yy_def[12] = 13 /\ yy_def[14] = 13
    /\ yy_meta[0] = 0 /\ yy_meta[1] = 1 /\ yy_meta[2] = 1 /\ yy_meta[3] = 1
    /\ yy_meta[4] = 2 /\ yy_meta[5] = 1 /\ yy_meta[6] = 1 /\ yy_meta[7] = 1
BY DEF yy_accept, yy_base, yy_def, yy_meta, Table

\* The entries.
LEMMA Entries ==
    /\ yy_chk[1] = 1 /\ yy_chk[2] = 1 /\ yy_chk[3] = 1 /\ yy_chk[4] = 1 /\ yy_chk[5] = 1
    /\ yy_chk[6] = 1 /\ yy_chk[7] = 1 /\ yy_chk[8] = 14 /\ yy_chk[9] = 11 /\ yy_chk[10] = 10
    /\ yy_chk[11] = 9 /\ yy_chk[12] = 6 /\ yy_chk[13] = 3 /\ yy_chk[0] = 0
    /\ \A i \in 14..21 : yy_chk[i] = JAM
    /\ yy_nxt[0] = 0 /\ yy_nxt[1] = 4 /\ yy_nxt[2] = 5 /\ yy_nxt[3] = 4 /\ yy_nxt[4] = 6
    /\ yy_nxt[5] = 7 /\ yy_nxt[6] = 8 /\ yy_nxt[7] = 4 /\ yy_nxt[8] = 9 /\ yy_nxt[9] = 12
    /\ yy_nxt[10] = 11 /\ yy_nxt[11] = 10 /\ yy_nxt[12] = 10 /\ yy_nxt[13] = JAM
    /\ yy_nxt[14] = 3
    /\ \A i \in 15..21 : yy_nxt[i] = JAM
BY DEF yy_chk, yy_nxt, Table, JAM

\* The end of the buffer leads nowhere.
LEMMA FromEnd == \A c \in 0..7 : Transition(3, c) = JAM
BY Tables, Entries DEF Transition, Default, HasEntry, TEMPLATE, JAM

\* The first byte of a token.
LEMMA FromStart ==
    /\ Transition(1, 0) = 3 /\ Transition(1, 1) = 4 /\ Transition(1, 2) = 5
    /\ Transition(1, 3) = 4 /\ Transition(1, 4) = 6 /\ Transition(1, 5) = 7
    /\ Transition(1, 6) = 8 /\ Transition(1, 7) = 4
BY Tables, Entries DEF Transition, Default, HasEntry, TEMPLATE, JAM

\* Complete texts, and the jam itself.
LEMMA FromComplete ==
    \A q \in {4, 5, 7, 8, 12, JAM}, c \in 0..7 :
        Transition(q, c) = IF c = 0 THEN 3 ELSE JAM
BY Tables, Entries DEF Transition, Default, HasEntry, TEMPLATE, JAM

\* A packet as far as its body goes: "#" ends it, "$" does not belong to it.
LEMMA FromBody ==
    \A q \in {6, 9}, c \in 0..7 :
        Transition(q, c) = IF c = 0 THEN 3 ELSE IF c = 3 THEN 10 ELSE IF c = 4 THEN JAM ELSE 9
BY Tables, Entries DEF Transition, Default, HasEntry, TEMPLATE, JAM

\* The two digits after "#".
LEMMA FromHash ==
    \A c \in 0..7 :
        /\ Transition(10, c) = IF c = 0 THEN 3 ELSE IF c = 7 THEN 11 ELSE JAM
        /\ Transition(11, c) = IF c = 0 THEN 3 ELSE IF c = 7 THEN 12 ELSE JAM
BY Tables, Entries DEF Transition, Default, HasEntry, TEMPLATE, JAM

\* Classes of bytes.
LEMMA Classes ==
    ASSUME NEW b \in Byte
    PROVE  /\ yy_ec[b] \in 0..7
           /\ yy_ec[b] = 0 <=> b = 0
           /\ yy_ec[b] = 2 <=> b = NL
           /\ yy_ec[b] = 3 <=> b = HASH
           /\ yy_ec[b] = 4 <=> b = DOLLAR
           /\ yy_ec[b] = 5 <=> b = PLUS
           /\ yy_ec[b] = 6 <=> b = MINUS
           /\ yy_ec[b] = 7 <=> b \in HEX
BY DEF yy_ec, Byte, NL, HASH, DOLLAR, PLUS, MINUS, HEX

\* The class of a byte that is known to be one of the input.
LEMMA InputClasses ==
    ASSUME NEW b \in Byte
    PROVE  /\ InputClass(b) \in 1..7
           /\ InputClass(b) = 2 <=> b = NL
           /\ InputClass(b) = 3 <=> b = HASH
           /\ InputClass(b) = 4 <=> b = DOLLAR
           /\ InputClass(b) = 5 <=> b = PLUS
           /\ InputClass(b) = 6 <=> b = MINUS
           /\ InputClass(b) = 7 <=> b \in HEX
           /\ b # 0 => yy_ec[b] = InputClass(b)
<1>1. 0 \notin HEX /\ 0 # NL /\ 0 # HASH /\ 0 # DOLLAR /\ 0 # PLUS /\ 0 # MINUS
  BY DEF HEX, NL, HASH, DOLLAR, PLUS, MINUS
<1> QED BY <1>1, Classes DEF InputClass

---------------------------------------------------------------------------
(* The automaton: the texts that lead to a state.                          *)

\* No byte from..to of s begins or ends a packet.
Clean(s, from, to) == \A j \in from..to : s[j] \notin {DOLLAR, HASH}

\* What follows "#" at j is no sum: one of the next two bytes, of those up to
\* the end, is not a digit, or there are more than two.
Spoilt(s, j, end) ==
    \/ j + 1 <= end /\ s[j + 1] \notin HEX
    \/ j + 2 <= end /\ s[j + 2] \notin HEX
    \/ j + 3 <= end

\* The n bytes of s from i on begin no text of a rule.
Dead(s, i, n) ==
    /\ n >= 2
    /\ \/ s[i] # DOLLAR
       \/ \E j \in (i + 1)..(i + n - 1) :
            /\ Clean(s, i + 1, j - 1)
            /\ s[j] = DOLLAR \/ (s[j] = HASH /\ Spoilt(s, j, i + n - 1))

\* The automaton is in the state q after the n bytes of s from i on.
Reads(q, s, i, n) ==
    \/ q = 1 /\ n = 0
    \/ q = 4 /\ n = 1 /\ s[i] \notin {NL, DOLLAR, PLUS, MINUS}
    \/ q = 5 /\ n = 1 /\ s[i] = NL
    \/ q = 6 /\ n = 1 /\ s[i] = DOLLAR
    \/ q = 7 /\ n = 1 /\ s[i] = PLUS
    \/ q = 8 /\ n = 1 /\ s[i] = MINUS
    \/ q = 9 /\ n >= 2 /\ s[i] = DOLLAR /\ Clean(s, i + 1, i + n - 1)
    \/ q = 10 /\ n >= 2 /\ s[i] = DOLLAR /\ Clean(s, i + 1, i + n - 2) /\ s[i + n - 1] = HASH
    \/ /\ q = 11 /\ n >= 3 /\ s[i] = DOLLAR /\ Clean(s, i + 1, i + n - 3)
       /\ s[i + n - 2] = HASH /\ s[i + n - 1] \in HEX
    \/ q = 12 /\ IsPacket(s, i, n)
    \/ q = JAM /\ Dead(s, i, n)

\* Where a text begins and how long it is.
Text(s, i, n) == s \in Seq(Byte) /\ i \in Nat \ {0} /\ n \in Nat

\* One byte more, as a byte of the input.
LEMMA OneByteMore ==
    ASSUME NEW s \in Seq(Byte), NEW i \in Nat \ {0}, NEW n \in Nat, i + n <= Len(s),
           NEW q, Reads(q, s, i, n)
    PROVE  Reads(Transition(q, InputClass(s[i + n])), s, i, n + 1)
<1> DEFINE b == s[i + n]
           c == InputClass(b)
           next == Transition(q, c)
<1> SUFFICES Reads(next, s, i, n + 1)
  OBVIOUS
<1>1. i + n \in 1..Len(s) /\ b \in Byte
  BY ElementOfSeq
<1>2. /\ c \in 1..7 /\ c \in 0..7 /\ c # 0
      /\ c = 2 <=> b = NL
      /\ c = 3 <=> b = HASH
      /\ c = 4 <=> b = DOLLAR
      /\ c = 5 <=> b = PLUS
      /\ c = 6 <=> b = MINUS
      /\ c = 7 <=> b \in HEX
  BY <1>1, InputClasses
<1>3. /\ DOLLAR \notin HEX /\ HASH \notin HEX /\ DOLLAR # HASH /\ NL # DOLLAR /\ PLUS # DOLLAR
      /\ MINUS # DOLLAR
  BY DEF DOLLAR, HASH, HEX, NL, PLUS, MINUS
<1>4. /\ i + (n + 1) - 1 = i + n /\ i + (n + 1) - 2 = i + n - 1
      /\ i + (n + 1) - 3 = i + n - 2 /\ i + (n + 1) - 4 = i + n - 3
  OBVIOUS
<1> HIDE DEF c
<1>5. CASE q = 1
  <2>1. n = 0 /\ b = s[i] /\ n + 1 = 1
    BY <1>5 DEF Reads, JAM
  <2>2. Reads(next, s, i, 1)
    BY <1>2, <1>3, <1>5, <2>1, FromStart DEF Reads
  <2> QED BY <2>1, <2>2
<1>6. CASE q \in {4, 5, 7, 8}
  <2>1. next = JAM
    BY <1>2, <1>6, FromComplete
  <2>2. n + 1 >= 2 /\ s[i] # DOLLAR
    BY <1>3, <1>6 DEF Reads, JAM
  <2> QED BY <2>1, <2>2 DEF Reads, Dead
<1>7. CASE q = 12
  <2>1. next = JAM
    BY <1>2, <1>7, FromComplete
  <2>2. IsPacket(s, i, n)
    BY <1>7 DEF Reads, JAM
  <2> DEFINE j == i + n - 3
  <2>3. j \in (i + 1)..(i + n) /\ s[j] = HASH /\ Spoilt(s, j, i + n)
    BY <2>2 DEF IsPacket, Spoilt
  <2>4. Clean(s, i + 1, j - 1)
    BY <2>2 DEF IsPacket, Clean
  <2>5. n + 1 >= 2
    BY <2>2 DEF IsPacket
  <2> HIDE DEF j
  <2>6. Dead(s, i, n + 1)
    BY <1>4, <2>3, <2>4, <2>5 DEF Dead
  <2> QED BY <2>1, <2>6 DEF Reads
<1>8. CASE q \in {6, 9}
  <2>1. n >= 1 /\ s[i] = DOLLAR /\ Clean(s, i + 1, i + n - 1)
    BY <1>8 DEF Reads, JAM, Clean
  <2>2. CASE b = HASH
    <3>1. next = 10
      BY <1>2, <1>8, <2>2, FromBody
    <3> QED BY <1>4, <2>1, <2>2, <3>1 DEF Reads
  <2>3. CASE b = DOLLAR
    <3>1. next = JAM
      BY <1>2, <1>8, <2>3, FromBody
    <3>2. i + n \in (i + 1)..(i + n)
      BY <2>1
    <3>3. Dead(s, i, n + 1)
      BY <1>4, <2>1, <2>3, <3>2 DEF Dead
    <3> QED BY <3>1, <3>3 DEF Reads
  <2>4. CASE b \notin {HASH, DOLLAR}
    <3>1. next = 9
      BY <1>2, <1>8, <2>4, FromBody
    <3>2. Clean(s, i + 1, i + n)
      BY <2>1, <2>4 DEF Clean
    <3> QED BY <1>4, <2>1, <3>1, <3>2 DEF Reads
  <2> QED BY <2>2, <2>3, <2>4
<1>9. CASE q = 10
  <2>1. n >= 2 /\ s[i] = DOLLAR /\ Clean(s, i + 1, i + n - 2) /\ s[i + n - 1] = HASH
    BY <1>9 DEF Reads, JAM
  <2>2. CASE b \in HEX
    <3>1. next = 11
      BY <1>2, <1>9, <2>2, FromHash
    <3> QED BY <1>4, <2>1, <2>2, <3>1 DEF Reads
  <2>3. CASE b \notin HEX
    <3>1. next = JAM
      BY <1>2, <1>9, <2>3, FromHash
    <3> DEFINE j == i + n - 1
    <3>2. j \in (i + 1)..(i + n) /\ s[j] = HASH /\ Spoilt(s, j, i + n) /\ j - 1 = i + n - 2
      BY <2>1, <2>3 DEF Spoilt
    <3> HIDE DEF j
    <3>3. Dead(s, i, n + 1)
      BY <1>4, <2>1, <3>2 DEF Dead
    <3> QED BY <3>1, <3>3 DEF Reads
  <2> QED BY <2>2, <2>3
<1>10. CASE q = 11
  <2>1. /\ n >= 3 /\ s[i] = DOLLAR /\ Clean(s, i + 1, i + n - 3)
        /\ s[i + n - 2] = HASH /\ s[i + n - 1] \in HEX
    BY <1>10 DEF Reads, JAM
  <2>2. CASE b \in HEX
    <3>1. next = 12
      BY <1>2, <1>10, <2>2, FromHash
    <3>2. IsPacket(s, i, n + 1)
      BY <1>4, <2>1, <2>2 DEF IsPacket, Clean
    <3> QED BY <3>1, <3>2 DEF Reads
  <2>3. CASE b \notin HEX
    <3>1. next = JAM
      BY <1>2, <1>10, <2>3, FromHash
    <3> DEFINE j == i + n - 2
    <3>2. j \in (i + 1)..(i + n) /\ s[j] = HASH /\ Spoilt(s, j, i + n) /\ j - 1 = i + n - 3
      BY <2>1, <2>3 DEF Spoilt
    <3> HIDE DEF j
    <3>3. Dead(s, i, n + 1)
      BY <1>4, <2>1, <3>2 DEF Dead
    <3> QED BY <3>1, <3>3 DEF Reads
  <2> QED BY <2>2, <2>3
<1>11. CASE q = JAM
  <2>1. next = JAM
    BY <1>2, <1>11, FromComplete
  <2>2. Dead(s, i, n)
    BY <1>11 DEF Reads, JAM
  <2>3. \A j : Spoilt(s, j, i + n - 1) /\ j \in Nat => Spoilt(s, j, i + n)
    BY DEF Spoilt
  <2>4. \A j \in (i + 1)..(i + n - 1) : j \in (i + 1)..(i + n) /\ j \in Nat
    OBVIOUS
  <2>5. Dead(s, i, n + 1)
    BY <1>4, <2>2, <2>3, <2>4 DEF Dead
  <2> QED BY <2>1, <2>5 DEF Reads
<1> QED BY <1>5, <1>6, <1>7, <1>8, <1>9, <1>10, <1>11 DEF Reads

\* A state that accepts has read the text of its rule, and no rule before it
\* matches that text.
LEMMA Accepted ==
    ASSUME NEW s, NEW i \in Nat, NEW n \in Nat, NEW q, Reads(q, s, i, n), yy_accept[q] # 0
    PROVE  /\ yy_accept[q] \in 1..5 /\ n >= 1
           /\ RuleMatches(yy_accept[q], s, i, n)
           /\ \A rule \in 1..5 : RuleMatches(rule, s, i, n) => yy_accept[q] <= rule
<1>1. q \in {4, 5, 6, 7, 8, 12}
  BY Tables DEF Reads, JAM
<1>2. /\ DOLLAR # NL /\ DOLLAR # PLUS /\ DOLLAR # MINUS /\ PLUS # MINUS /\ PLUS # NL
      /\ MINUS # NL
  BY DEF DOLLAR, NL, PLUS, MINUS
<1>3. CASE q = 12
  <2>1. IsPacket(s, i, n) /\ n >= 4 /\ yy_accept[q] = 3
    BY <1>3, Tables DEF Reads, JAM, IsPacket
  <2> QED BY <2>1 DEF RuleMatches
<1>4. CASE q \in {4, 6}
  <2>1. /\ n = 1 /\ s[i] \notin {NL, PLUS, MINUS} /\ yy_accept[q] = 4
    BY <1>2, <1>4, Tables DEF Reads, JAM
  <2> QED BY <2>1 DEF RuleMatches, IsPacket
<1>5. CASE q = 5
  <2>1. n = 1 /\ s[i] = NL /\ yy_accept[q] = 5
    BY <1>5, Tables DEF Reads, JAM
  <2> QED BY <1>2, <2>1 DEF RuleMatches, IsPacket
<1>6. CASE q = 7
  <2>1. n = 1 /\ s[i] = PLUS /\ yy_accept[q] = 1
    BY <1>6, Tables DEF Reads, JAM
  <2> QED BY <1>2, <2>1 DEF RuleMatches, IsPacket
<1>7. CASE q = 8
  <2>1. n = 1 /\ s[i] = MINUS /\ yy_accept[q] = 2
    BY <1>7, Tables DEF Reads, JAM
  <2> QED BY <1>2, <2>1 DEF RuleMatches, IsPacket
<1> QED BY <1>1, <1>3, <1>4, <1>5, <1>6, <1>7

\* A dead text begins no packet.
LEMMA DeadNoPacket ==
    ASSUME NEW s, NEW i \in Nat, NEW n \in Nat, Dead(s, i, n), NEW m \in Nat, m >= n
    PROVE  ~IsPacket(s, i, m)
<1> SUFFICES ASSUME IsPacket(s, i, m) PROVE FALSE
  OBVIOUS
<1>1. /\ m >= 4 /\ s[i] = DOLLAR /\ Clean(s, i + 1, i + m - 4)
      /\ s[i + m - 3] = HASH /\ s[i + m - 2] \in HEX /\ s[i + m - 1] \in HEX
  BY DEF IsPacket, Clean
<1>2. PICK j \in (i + 1)..(i + n - 1) :
        /\ Clean(s, i + 1, j - 1)
        /\ s[j] = DOLLAR \/ (s[j] = HASH /\ Spoilt(s, j, i + n - 1))
  BY <1>1 DEF Dead
<1>3. DOLLAR # HASH /\ DOLLAR \notin HEX /\ HASH \notin HEX
  BY DEF DOLLAR, HASH, HEX
<1>4. j \in Nat /\ j >= i + 1 /\ j <= i + n - 1
  BY <1>2
<1>5. ~(j < i + m - 3)
  BY <1>1, <1>2, <1>3, <1>4 DEF Clean
<1>6. ~(i + m - 3 < j)
  BY <1>1, <1>2, <1>4 DEF Clean
<1>7. j = i + m - 3
  BY <1>4, <1>5, <1>6
<1>8. s[j] = HASH /\ Spoilt(s, j, i + n - 1)
  BY <1>1, <1>2, <1>3, <1>7
<1>9. j + 1 = i + m - 2 /\ j + 2 = i + m - 1 /\ ~(j + 3 <= i + n - 1)
  BY <1>7
<1> QED BY <1>1, <1>8, <1>9 DEF Spoilt

\* The automaton does not jam on a text that leads to another state.
LEMMA DeadReadsNothing ==
    ASSUME NEW s, NEW i \in Nat, NEW n \in Nat, NEW q, Reads(q, s, i, n), q # JAM
    PROVE  ~Dead(s, i, n)
<1> SUFFICES ASSUME Dead(s, i, n) PROVE FALSE
  OBVIOUS
<1>1. n >= 2
  BY DEF Dead
<1>2. DOLLAR # HASH /\ DOLLAR \notin HEX /\ HASH \notin HEX
  BY DEF DOLLAR, HASH, HEX
<1>3. ~IsPacket(s, i, n)
  BY DeadNoPacket
<1>4. q \in {9, 10, 11} /\ s[i] = DOLLAR
  BY <1>1, <1>3 DEF Reads
<1>5. PICK j \in (i + 1)..(i + n - 1) :
        /\ Clean(s, i + 1, j - 1)
        /\ s[j] = DOLLAR \/ (s[j] = HASH /\ Spoilt(s, j, i + n - 1))
  BY <1>4 DEF Dead
<1>6. j \in Nat /\ j >= i + 1 /\ j <= i + n - 1
  BY <1>5
<1>7. CASE q = 9
  <2>1. Clean(s, i + 1, i + n - 1)
    BY <1>1, <1>7 DEF Reads, JAM
  <2> QED BY <1>5, <2>1 DEF Clean
<1>8. CASE q = 10
  <2>1. Clean(s, i + 1, i + n - 2) /\ s[i + n - 1] = HASH
    BY <1>1, <1>8 DEF Reads, JAM
  <2>2. j = i + n - 1
    BY <1>5, <1>6, <2>1 DEF Clean
  <2> QED BY <1>2, <1>5, <2>1, <2>2 DEF Spoilt
<1>9. CASE q = 11
  <2>1. /\ n >= 3 /\ Clean(s, i + 1, i + n - 3)
        /\ s[i + n - 2] = HASH /\ s[i + n - 1] \in HEX
    BY <1>1, <1>9 DEF Reads, JAM
  <2>2. ~(j < i + n - 2)
    BY <1>5, <1>6, <2>1 DEF Clean
  <2>3. ~(i + n - 2 < j)
    BY <1>5, <1>6, <2>1 DEF Clean
  <2>4. j = i + n - 2
    BY <1>6, <2>2, <2>3
  <2> QED BY <1>2, <1>5, <2>1, <2>4 DEF Spoilt
<1> QED BY <1>4, <1>7, <1>8, <1>9

\* Inside a packet no packet has been complete yet.
LEMMA InsidePacket ==
    ASSUME NEW s, NEW i \in Nat, NEW n \in Nat, NEW q \in {9, 10, 11}, Reads(q, s, i, n)
    PROVE  /\ s[i] = DOLLAR /\ n >= 2
           /\ \A m \in 0..n : ~IsPacket(s, i, m)
<1>1. s[i] = DOLLAR /\ n >= 2
  BY DEF Reads, JAM
<1>2. DOLLAR # HASH /\ HASH \notin HEX
  BY DEF DOLLAR, HASH, HEX
<1>3. ASSUME NEW m \in 0..n, IsPacket(s, i, m) PROVE FALSE
  <2>1. m >= 4 /\ s[i + m - 3] = HASH /\ s[i + m - 2] \in HEX /\ s[i + m - 1] \in HEX
    BY <1>3 DEF IsPacket
  <2>2. CASE q = 9
    <3>1. Clean(s, i + 1, i + n - 1)
      BY <1>1, <2>2 DEF Reads, JAM
    <3> QED BY <2>1, <3>1 DEF Clean
  <2>3. CASE q = 10
    <3>1. Clean(s, i + 1, i + n - 2) /\ s[i + n - 1] = HASH
      BY <1>1, <2>3 DEF Reads, JAM
    <3> QED BY <2>1, <3>1 DEF Clean
  <2>4. CASE q = 11
    <3>1. Clean(s, i + 1, i + n - 3)
      BY <1>1, <2>4 DEF Reads, JAM
    <3> QED BY <2>1, <3>1 DEF Clean
  <2> QED BY <2>2, <2>3, <2>4
<1> QED BY <1>1, <1>3

---------------------------------------------------------------------------
(* The automaton: runs.                                                    *)

\* What dfa can hold.
Dfa == [state : 0..JAM, last : Nat, lastPos : Nat]

\* The token that begins at "from" of the buffer and at i of the stream has n
\* bytes so far, and the automaton knows where it last could have ended.
Running(d, s, i, n, from) ==
    /\ d \in Dfa
    /\ Reads(d.state, s, i, n)
    /\ d.state \in {9, 10, 11} => d.last = 6 /\ d.lastPos = from + 1

\* Advance, on a byte of the input.
LEMMA AdvanceRuns ==
    ASSUME NEW s \in Seq(Byte), NEW i \in Nat \ {0}, NEW n \in Nat, i + n <= Len(s),
           NEW from \in Nat, NEW d, Running(d, s, i, n, from)
    PROVE  Running(Advance(d, from + n, InputClass(s[i + n])), s, i, n + 1, from)
<1> DEFINE c == InputClass(s[i + n])
           next == Transition(d.state, c)
           e == Advance(d, from + n, c)
<1>1. s[i + n] \in Byte
  BY ElementOfSeq
<1>2. c \in 0..7 /\ c # 0
  BY <1>1, InputClasses
<1>3. Reads(next, s, i, n + 1)
  BY OneByteMore DEF Running
<1>4. next \in 1..JAM
  BY <1>3 DEF Reads, JAM
<1> HIDE DEF c, next
<1>5. /\ e.state = next
      /\ e.last = IF yy_accept[d.state] # 0 THEN d.state ELSE d.last
      /\ e.lastPos = IF yy_accept[d.state] # 0 THEN from + n ELSE d.lastPos
  BY DEF Advance, next
<1>6. d.state \in 0..JAM /\ d.last \in Nat /\ d.lastPos \in Nat /\ from + n \in Nat /\ d.state \in Nat
  <2>1. d \in Dfa
    BY DEF Running
  <2>2. d.state \in 0..JAM /\ d.last \in Nat /\ d.lastPos \in Nat
    BY <2>1 DEF Dfa
  <2>3. d.state \in Nat
    <3>1. 0..JAM \subseteq Nat
      BY DEF JAM
    <3> QED BY <2>2, <3>1
  <2>4. from + n \in Nat
    OBVIOUS
  <2> QED BY <2>2, <2>3, <2>4
<1>7. e \in Dfa
  <2>1. e = [state |-> e.state, last |-> e.last, lastPos |-> e.lastPos]
    BY DEF Advance
  <2> HIDE DEF e
  <2>2. e.state \in 0..JAM /\ e.last \in Nat /\ e.lastPos \in Nat
    BY <1>4, <1>5, <1>6 DEF JAM
  <2> QED BY <2>1, <2>2 DEF Dfa
<1>8. ASSUME next \in {9, 10, 11} PROVE e.last = 6 /\ e.lastPos = from + 1
  <2>1. d.state \in {1, 4, 5, 6, 7, 8, 9, 10, 11, 12, JAM}
    BY DEF Running, Reads
  <2>2. d.state \notin {4, 5, 7, 8, 12, JAM}
    <3>1. ASSUME d.state \in {4, 5, 7, 8, 12, JAM} PROVE next = JAM
      BY <1>2, <3>1, FromComplete DEF next
    <3> QED BY <1>8, <3>1 DEF JAM
  <2>3. d.state # 1
    BY <1>2, <1>8, FromStart DEF next
  <2>4. CASE d.state = 6
    <3>1. n = 1
      BY <2>4 DEF Running, Reads, JAM
    <3> QED BY <1>5, <2>4, <3>1, Tables
  <2>5. CASE d.state \in {9, 10, 11}
    BY <1>5, <2>5, Tables DEF Running
  <2> QED BY <2>1, <2>2, <2>3, <2>4, <2>5
<1> HIDE DEF e
<1>9. Running(e, s, i, n + 1, from)
  BY <1>3, <1>5, <1>7, <1>8 DEF Running
<1> QED BY <1>9 DEF e, c

\* Numbers have a least one among them.
LEMMA Least ==
    ASSUME NEW S \in SUBSET Nat, S # {}
    PROVE  \E j \in S : \A k \in S : j <= k
<1> DEFINE R == OpToRel(<, Nat)
<1>1. IsWellFoundedOn(R, Nat)
  BY NatLessThanWellFounded
<1>2. \A a, b \in Nat : <<a, b>> \in R <=> a < b
  BY DEF OpToRel
<1> HIDE DEF R
<1>3. PICK j \in S : \A k \in S : ~(<<k, j>> \in R)
  BY <1>1, WFMin
<1>4. \A k \in S : ~(k < j)
  BY <1>2, <1>3
<1> QED BY <1>4

\* g is what yy_get_previous_state defines by recursion.
Recursion(g, buf, from, n) ==
    /\ g[from] = {Restarted}
    /\ \A k \in 0..(n - 1) : g[from + (k + 1)] = Advanced(g[from + k], from + k, buf[from + k])

\* There is such a function.
LEMMA RunsExist ==
    ASSUME NEW buf, NEW from \in Nat, NEW n \in Nat
    PROVE  Recursion(StatesBefore(buf, from, from + n), buf, from, n)
<1> DEFINE Step(g, p) ==
                IF p = from THEN {Restarted} ELSE Advanced(g[p - 1], p - 1, buf[p - 1])
           Solved(k) == \E g : g = [p \in from..(from + k) |-> Step(g, p)]
<1>1. Solved(0)
  <2> DEFINE g == [p \in from..(from + 0) |-> {Restarted}]
  <2>1. \A p \in from..(from + 0) : p = from
    OBVIOUS
  <2>2. g = [p \in from..(from + 0) |-> Step(g, p)]
    BY <2>1
  <2> QED BY <2>2
<1>2. ASSUME NEW k \in Nat, Solved(k) PROVE Solved(k + 1)
  <2>1. PICK g : g = [p \in from..(from + k) |-> Step(g, p)]
    BY <1>2
  <2> DEFINE h == [p \in from..(from + (k + 1)) |->
                        IF p = from + (k + 1) THEN Step(g, p) ELSE g[p]]
  <2>2. \A p \in from..(from + k) : h[p] = g[p]
    OBVIOUS
  <2>3. \A p \in from..(from + (k + 1)) : h[p] = Step(h, p)
    <3> SUFFICES ASSUME NEW p \in from..(from + (k + 1)) PROVE h[p] = Step(h, p)
      OBVIOUS
    <3>1. p # from => p - 1 \in from..(from + k)
      OBVIOUS
    <3>2. Step(h, p) = Step(g, p)
      BY <2>2, <3>1
    <3>3. h[p] = Step(g, p)
      <4>1. CASE p = from + (k + 1)
        BY <4>1
      <4>2. CASE p \in from..(from + k)
        <5>1. g[p] = Step(g, p)
          BY <2>1, <4>2
        <5> QED BY <2>2, <4>2, <5>1
      <4> QED BY <4>1, <4>2
    <3> QED BY <3>2, <3>3
  <2>4. h = [p \in from..(from + (k + 1)) |-> h[p]]
    OBVIOUS
  <2> HIDE DEF h
  <2>5. h = [p \in from..(from + (k + 1)) |-> Step(h, p)]
    BY <2>3, <2>4
  <2> QED BY <2>5
<1> HIDE DEF Solved
<1>3. Solved(n)
  <2> SUFFICES ASSUME ~Solved(n) PROVE FALSE
    OBVIOUS
  <2> DEFINE S == {k \in Nat : ~Solved(k)}
  <2>1. PICK j \in S : \A k \in S : j <= k
    BY Least
  <2>2. j \in Nat /\ j # 0
    BY <1>1
  <2>3. j - 1 \in Nat /\ ~(j <= j - 1) /\ (j - 1) + 1 = j
    BY <2>2
  <2>4. Solved(j - 1)
    BY <2>1, <2>3
  <2>5. Solved(j)
    BY <1>2, <2>3, <2>4
  <2> QED BY <2>5
<1>4. StatesBefore(buf, from, from + n) = CHOOSE g : g = [p \in from..(from + n) |-> Step(g, p)]
  BY DEF StatesBefore
<1> DEFINE before == StatesBefore(buf, from, from + n)
<1>5. before = [p \in from..(from + n) |-> Step(before, p)]
  BY <1>3, <1>4 DEF Solved
<1> HIDE DEF before
<1>6. before[from] = {Restarted}
  BY <1>5
<1>7. ASSUME NEW k \in 0..(n - 1)
      PROVE  before[from + (k + 1)] = Advanced(before[from + k], from + k, buf[from + k])
  <2> DEFINE p == from + (k + 1)
  <2>1. p \in from..(from + n) /\ p # from /\ p - 1 = from + k
    OBVIOUS
  <2> HIDE DEF p
  <2>2. before[p] = Step(before, p)
    BY <1>5, <2>1
  <2> QED BY <2>1, <2>2 DEF p
<1>8. Recursion(before, buf, from, n)
  BY <1>6, <1>7 DEF Recursion
<1> QED BY <1>8 DEF before

\* The n bytes of buf from "from" on are those of s from i on.
Holds(buf, from, s, i, n) == \A p \in 0..(n - 1) : buf[from + p] = s[i + p]

\* yy_get_previous_state
LEMMA PreviousRuns ==
    ASSUME NEW s \in Seq(Byte), NEW i \in Nat \ {0}, NEW n \in Nat, i + n - 1 <= Len(s),
           NEW from \in Nat, NEW buf, Holds(buf, from, s, i, n), dfa \in Dfa
    PROVE  \A d \in yy_get_previous_state(buf, from, from + n) : Running(d, s, i, n, from)
<1> DEFINE g == StatesBefore(buf, from, from + n)
<1>1. Recursion(g, buf, from, n)
  BY RunsExist
<1> SUFFICES \A d \in g[from + n] : Running(d, s, i, n, from)
  BY DEF yy_get_previous_state
<1> DEFINE Good(k) == \A d \in g[from + k] : Running(d, s, i, k, from)
<1> HIDE DEF g
<1>2. Good(0)
  <2>1. from + 0 = from
    OBVIOUS
  <2>2. g[from + 0] = {Restarted}
    BY <1>1, <2>1 DEF Recursion
  <2>3. Restarted \in Dfa /\ Restarted.state = 1
    BY DEF Restarted, Dfa, JAM
  <2>4. Running(Restarted, s, i, 0, from)
    BY <2>3 DEF Running, Reads
  <2> QED BY <2>2, <2>4
<1>3. ASSUME NEW k \in Nat, k < n, Good(k) PROVE Good(k + 1)
  <2>1. k \in 0..(n - 1)
    BY <1>3
  <2>2. g[from + (k + 1)] = Advanced(g[from + k], from + k, buf[from + k])
    BY <1>1, <2>1 DEF Recursion
  <2>3. buf[from + k] = s[i + k] /\ i + k <= Len(s)
    <3>1. Len(s) \in Nat
      BY LenProperties
    <3> QED BY <1>3, <3>1 DEF Holds
  <2>4. \A d \in g[from + k] : Running(Advance(d, from + k, InputClass(s[i + k])), s, i, k + 1, from)
    BY <1>3, <2>3, AdvanceRuns
  <2> QED BY <2>2, <2>3, <2>4 DEF Advanced
<1> HIDE DEF Good
<1>4. Good(n)
  <2> SUFFICES ASSUME ~Good(n) PROVE FALSE
    OBVIOUS
  <2> DEFINE S == {k \in 0..n : ~Good(k)}
  <2>1. S \in SUBSET Nat /\ S # {}
    OBVIOUS
  <2>2. \E j \in S : \A k \in S : j <= k
    <3> HIDE DEF S
    <3> QED BY <2>1, Least
  <2> PICK j \in S : \A k \in S : j <= k
    BY <2>2
  <2>3. j \in 0..n /\ j # 0
    BY <1>2
  <2>4. j - 1 \in 0..n /\ j - 1 \in Nat /\ j - 1 < n /\ ~(j <= j - 1) /\ (j - 1) + 1 = j
    BY <2>3
  <2>5. Good(j - 1)
    BY <2>4
  <2>6. Good(j)
    BY <1>3, <2>4, <2>5
  <2> QED BY <2>6
<1> QED BY <1>4 DEF Good

---------------------------------------------------------------------------
(* The automaton: the longest match.                                       *)

\* A text complete as it is does not go on.
LEMMA CompleteNoLonger ==
    ASSUME NEW s, NEW i \in Nat, NEW n \in Nat, NEW q \in {4, 5, 7, 8, 12}, Reads(q, s, i, n),
           NEW m \in Nat, m > n
    PROVE  ~IsPacket(s, i, m)
<1>1. NL # DOLLAR /\ PLUS # DOLLAR /\ MINUS # DOLLAR
  BY DEF DOLLAR, NL, PLUS, MINUS
<1>2. CASE q \in {4, 5, 7, 8}
  BY <1>1, <1>2 DEF Reads, JAM, IsPacket
<1>3. CASE q = 12
  <2>1. n >= 4 /\ s[i + n - 3] = HASH
    BY <1>3 DEF Reads, JAM, IsPacket
  <2>2. i + n - 3 \in (i + 1)..(i + m - 4)
    BY <2>1
  <2> QED BY <2>1, <2>2 DEF IsPacket
<1> QED BY <1>2, <1>3

\* Of the texts of rules that begin at i, the one from "from" to p in the buffer
\* is the longest.
Best(q, p, s, i, from) ==
    /\ yy_accept[q] # 0
    /\ p \in Nat /\ p > from
    /\ Reads(q, s, i, p - from)
    /\ \A m \in Nat : m > p - from /\ i + m - 1 <= Len(s) => ~IsPacket(s, i, m)

\* What the automaton falls back to when there is no longer text.
LEMMA BestOf ==
    ASSUME NEW s, NEW i \in Nat, NEW n \in Nat, NEW from \in Nat, NEW d,
           Running(d, s, i, n, from), d.state # JAM, n # 0,
           \A m \in Nat : m > n /\ i + m - 1 <= Len(s) => ~IsPacket(s, i, m)
    PROVE  /\ yy_accept[d.state] # 0 => Best(d.state, from + n, s, i, from)
           /\ yy_accept[d.state] = 0 =>
                d.lastPos <= from + n /\ Best(d.last, d.lastPos, s, i, from)
<1> DEFINE q == d.state
<1>1. Reads(q, s, i, n)
  BY DEF Running
<1>2. q \in {4, 5, 6, 7, 8, 9, 10, 11, 12}
  BY <1>1 DEF Reads
<1>3. from + n \in Nat /\ from + n > from /\ (from + n) - from = n
  OBVIOUS
<1> HIDE DEF q
<1>4. yy_accept[q] # 0 => Best(q, from + n, s, i, from)
  BY <1>1, <1>3 DEF Best
<1>5. ASSUME yy_accept[q] = 0 PROVE d.lastPos <= from + n /\ Best(d.last, d.lastPos, s, i, from)
  <2>1. q \in {9, 10, 11}
    <3>1. /\ yy_accept[4] # 0 /\ yy_accept[5] # 0 /\ yy_accept[6] # 0 /\ yy_accept[7] # 0
          /\ yy_accept[8] # 0 /\ yy_accept[12] # 0
      BY Tables
    <3> QED BY <1>2, <1>5, <3>1
  <2>2. d.last = 6 /\ d.lastPos = from + 1
    BY <2>1 DEF Running, q
  <2>3. s[i] = DOLLAR /\ n >= 2 /\ \A m \in 0..n : ~IsPacket(s, i, m)
    BY <1>1, <2>1, InsidePacket
  <2>4. \A m \in Nat : i + m - 1 <= Len(s) => ~IsPacket(s, i, m)
    <3> SUFFICES ASSUME NEW m \in Nat, i + m - 1 <= Len(s) PROVE ~IsPacket(s, i, m)
      OBVIOUS
    <3>1. m \in 0..n \/ m > n
      OBVIOUS
    <3> QED BY <2>3, <3>1
  <2>5. from + 1 \in Nat /\ from + 1 > from /\ (from + 1) - from = 1 /\ from + 1 <= from + n
    BY <2>3
  <2>6. Reads(6, s, i, 1)
    BY <2>3 DEF Reads
  <2>7. Best(6, from + 1, s, i, from)
    BY <2>4, <2>5, <2>6, Tables DEF Best
  <2> QED BY <2>2, <2>5, <2>7
<1> QED BY <1>4, <1>5 DEF q

---------------------------------------------------------------------------
(* The scanner.                                                            *)

\* How much of the stream lies before the buffer.
Base == nread - n_chars

\* A buffer with the n bytes of s from i on and two NULs.
Content(buf, s, i, n) ==
    /\ buf \in [0..(n + 1) -> Byte]
    /\ Holds(buf, 0, s, i, n)
    /\ buf[n] = 0 /\ buf[n + 1] = 0

\* The buffer without the NUL that ends yytext.
InBuffer(buf) == Content(buf, stream, Base + 1, n_chars)

\* The token that begins at "from" of the buffer.
TokenAt(from) == from \in Nat /\ taken = Base + from

\* At p of the buffer there is a NUL, and before it a text that may go on.
NulAt(buf, p, n, s, i, from) ==
    /\ p \in from..n
    /\ buf[p] = 0
    /\ \E q : q # JAM /\ Reads(q, s, i, p - from)

AtStart ==
    /\ TokenAt(c_buf_p)
    /\ c_buf_p <= n_chars
    /\ InBuffer([ch_buf EXCEPT ![c_buf_p] = hold_char])

AtMatch ==
    /\ TokenAt(bp)
    /\ InBuffer(ch_buf)
    /\ cp \in bp..(n_chars + 1)
    /\ \/ /\ cp <= n_chars
          /\ dfa.state # JAM
          /\ Running(dfa, stream, taken + 1, cp - bp, bp)
       \/ dfa.state = 3 /\ NulAt(ch_buf, cp - 1, n_chars, stream, taken + 1, bp)

\* The automaton has found q to be the state at p.
Found(q, p, buf, n, s, i, from) ==
    \/ q = 3 /\ p \in Nat /\ NulAt(buf, p - 1, n, s, i, from)
    \/ p <= n /\ Best(q, p, s, i, from)

AtFind ==
    /\ TokenAt(bp)
    /\ InBuffer(ch_buf)
    /\ Found(BackUp(dfa, cp)[1], BackUp(dfa, cp)[2], ch_buf, n_chars, stream, taken + 1, bp)

TextFound ==
    /\ TokenAt(text)
    /\ c_buf_p = text + leng /\ leng \in Nat \ {0} /\ cp = c_buf_p
    /\ c_buf_p <= n_chars + 1
    /\ hold_char \in Byte
    /\ InBuffer([ch_buf EXCEPT ![c_buf_p] = hold_char])
    /\ \/ /\ act = YY_END_OF_BUFFER
          /\ NulAt([ch_buf EXCEPT ![c_buf_p] = hold_char], c_buf_p - 1, n_chars, stream,
                   taken + 1, text)
       \/ /\ c_buf_p <= n_chars
          /\ \E q : act = yy_accept[q] /\ Best(q, c_buf_p, stream, taken + 1, text)

AtAction ==
    \/ act = YY_STATE_EOF /\ taken = Len(stream)
    \/ act # YY_STATE_EOF /\ TextFound

AtFill ==
    /\ NumberToMove \in 0..n_chars
    /\ taken + NumberToMove = nread
    /\ Holds(ch_buf, 0, stream, taken + 1, NumberToMove)
    /\ \E q : q # JAM /\ Reads(q, stream, taken + 1, NumberToMove)
    /\ buffer_status # "NEW"

Shape ==
    /\ TypeOK
    /\ stream \in Seq(Byte)
    /\ n_chars \in Nat /\ n_chars <= nread
    /\ buf_size \in Nat /\ n_chars < buf_size
    /\ dfa \in Dfa
    /\ hold_char \in Byte
    /\ buffer_status = "EOF_PENDING" => nread = Len(stream)
    /\ pc # "internal"
    /\ ended = "no" <=> pc \in {"start", "match", "find", "action", "fill"}

ScanInv ==
    /\ Shape
    /\ pc = "start" => AtStart
    /\ pc = "match" => AtMatch
    /\ pc = "find" => AtFind
    /\ pc = "action" => AtAction
    /\ pc = "fill" => AtFill

\* STEPS
---------------------------------------------------------------------------
(* Every step keeps the invariant.                                         *)

\* What the buffer holds.
LEMMA ContentAt ==
    ASSUME NEW buf, NEW s \in Seq(Byte), NEW i \in Nat \ {0}, NEW n \in Nat, i + n - 1 <= Len(s),
           Content(buf, s, i, n), NEW p \in 0..(n + 1)
    PROVE  /\ buf[p] \in Byte
           /\ p < n => buf[p] = s[i + p] /\ i + p \in 1..Len(s)
           /\ p >= n => buf[p] = 0
<1>1. buf[p] \in Byte
  BY DEF Content
<1>2. ASSUME p < n PROVE buf[p] = s[i + p] /\ i + p \in 1..Len(s)
  <2>1. p \in 0..(n - 1) /\ 0 + p = p
    BY <1>2
  <2>2. buf[0 + p] = s[i + p]
    BY <2>1 DEF Content, Holds
  <2>3. Len(s) \in Nat
    BY LenProperties
  <2>4. i + p \in 1..Len(s)
    BY <2>1, <2>3
  <2> QED BY <2>1, <2>2, <2>4
<1>3. ASSUME p >= n PROVE buf[p] = 0
  <2>1. p = n \/ p = n + 1
    BY <1>3
  <2> QED BY <2>1 DEF Content
<1> QED BY <1>1, <1>2, <1>3

\* Numbers of the invariant.
LEMMA Numbers ==
    ASSUME ScanInv
    PROVE  /\ stream \in Seq(Byte) /\ Len(stream) \in Nat
           /\ nread \in 0..Len(stream) /\ taken \in 0..Len(stream)
           /\ n_chars \in Nat /\ n_chars <= nread
           /\ Base \in Nat /\ Base = nread - n_chars /\ Base + 1 \in Nat \ {0}
           /\ Base + 1 + n_chars - 1 <= Len(stream)
           /\ taken + 1 \in Nat \ {0}
           /\ dfa \in Dfa /\ dfa.state \in 0..JAM /\ dfa.last \in Nat /\ dfa.lastPos \in Nat
<1>1. /\ stream \in Seq(Byte) /\ nread \in 0..Len(stream) /\ taken \in 0..Len(stream)
      /\ n_chars \in Nat /\ n_chars <= nread /\ dfa \in Dfa
  BY DEF ScanInv, Shape, TypeOK
<1>2. Len(stream) \in Nat
  BY <1>1, LenProperties
<1>3. dfa.state \in 0..JAM /\ dfa.last \in Nat /\ dfa.lastPos \in Nat
  BY <1>1 DEF Dfa
<1> DEFINE length == Len(stream)
<1> HIDE DEF length
<1>4. nread \in 0..length /\ taken \in 0..length /\ length \in Nat
  BY <1>1, <1>2 DEF length
<1>5. /\ Base \in Nat /\ Base = nread - n_chars /\ Base + 1 \in Nat \ {0}
      /\ Base + 1 + n_chars - 1 <= length /\ taken + 1 \in Nat \ {0}
  BY <1>1, <1>4 DEF Base
<1> QED BY <1>1, <1>2, <1>3, <1>5 DEF length

\* Restarted is in state 1.
LEMMA InStart == ASSUME dfa \in Dfa PROVE Restarted \in Dfa /\ Restarted.state = 1
BY DEF Restarted, Dfa, JAM

\* The byte under the NUL comes back.
LEMMA StartStep == ASSUME ScanInv, Start PROVE ScanInv'
<1>1. /\ pc = "start" /\ pc' = "match"
      /\ cp' = c_buf_p /\ bp' = c_buf_p
      /\ ch_buf' = [ch_buf EXCEPT ![c_buf_p] = hold_char]
      /\ dfa' = Restarted
      /\ UNCHANGED <<stream, taken, ended, nread, n_chars, buf_size, buffer_status,
                     c_buf_p, hold_char, text, leng, act>>
  BY DEF Start, rulesVars, position
<1>2. AtStart
  BY <1>1 DEF ScanInv
<1>3. dfa' \in Dfa /\ dfa'.state = 1
  BY <1>1, Numbers, InStart
<1>4. c_buf_p \in Nat /\ c_buf_p <= n_chars /\ n_chars \in Nat
  BY <1>2, Numbers DEF AtStart, TokenAt
<1>5. InBuffer(ch_buf)' /\ TokenAt(bp)'
  BY <1>1, <1>2 DEF AtStart, InBuffer, TokenAt, Base
<1>6. ch_buf' \in [0..(n_chars' + 1) -> Byte]
  BY <1>5 DEF InBuffer, Content
<1>7. Running(dfa', stream', taken' + 1, cp' - bp', bp')
  <2>1. cp' - bp' = 0
    BY <1>1, <1>4
  <2>2. Reads(1, stream', taken' + 1, 0)
    BY DEF Reads
  <2> QED BY <1>3, <2>1, <2>2 DEF Running
<1>8. AtMatch'
  <2>1. cp' \in bp'..(n_chars' + 1) /\ cp' <= n_chars'
    BY <1>1, <1>4
  <2>2. dfa'.state # JAM
    BY <1>3 DEF JAM
  <2> QED BY <1>5, <1>7, <2>1, <2>2 DEF AtMatch
<1>9. Shape'
  <2>1. TypeOK'
    BY <1>1, <1>3, <1>4, <1>6 DEF ScanInv, Shape, TypeOK, JAM
  <2> QED BY <1>1, <1>3, <2>1 DEF ScanInv, Shape
<1> QED BY <1>1, <1>8, <1>9 DEF ScanInv

\* From a live text a NUL leads to the end of the buffer, and only a byte that
\* the text cannot go on with, or one that completes it, ends the loop.
LEMMA LiveMoves ==
    ASSUME NEW s, NEW i, NEW n, NEW q, Reads(q, s, i, n), q # JAM, NEW c \in 0..7
    PROVE  /\ c = 0 => Transition(q, c) = 3
           /\ c # 0 /\ Transition(q, c) = JAM => q # 1
<1>1. q \in {1, 4, 5, 6, 7, 8, 9, 10, 11, 12}
  BY DEF Reads
<1>2. c = 0 => Transition(q, c) = 3
  <2>1. CASE q = 1
    BY <2>1, FromStart
  <2>2. CASE q \in {4, 5, 7, 8, 12}
    BY <2>2, FromComplete
  <2>3. CASE q \in {6, 9}
    BY <2>3, FromBody
  <2>4. CASE q \in {10, 11}
    BY <2>4, FromHash
  <2> QED BY <1>1, <2>1, <2>2, <2>3, <2>4
<1>3. ASSUME c # 0, q = 1 PROVE Transition(q, c) # JAM
  <2>1. c \in {1, 2, 3, 4, 5, 6, 7}
    BY <1>3
  <2> QED BY <1>3, <2>1, FromStart DEF JAM
<1> QED BY <1>2, <1>3

\* The turns of the matching loop.
LEMMA MatchStep == ASSUME ScanInv, Match PROVE ScanInv'
<1> DEFINE b == ch_buf[cp]
           c == yy_ec[b]
           q == dfa.state
           i == taken + 1
           n == cp - bp
<1>1. /\ pc = "match" /\ dfa' = Advance(dfa, cp, c) /\ cp' = cp + 1
      /\ pc' = IF yy_base[dfa'.state] = JAM_BASE THEN "find" ELSE "match"
  BY DEF Match
<1>2. /\ stream' = stream /\ taken' = taken /\ ended' = ended /\ nread' = nread
      /\ n_chars' = n_chars /\ buf_size' = buf_size /\ buffer_status' = buffer_status
      /\ ch_buf' = ch_buf /\ c_buf_p' = c_buf_p /\ hold_char' = hold_char /\ text' = text
      /\ leng' = leng /\ bp' = bp /\ act' = act
  BY DEF Match, rulesVars, position, buffer
<1>3. AtMatch
  BY <1>1 DEF ScanInv
<1>4. /\ bp \in Nat /\ taken = Base + bp /\ cp \in Nat /\ bp <= cp /\ cp <= n_chars + 1
      /\ n_chars \in Nat /\ Base \in Nat /\ i \in Nat \ {0} /\ n \in Nat /\ i = Base + 1 + bp
      /\ bp + n = cp /\ cp \in 0..(n_chars + 1) /\ cp + 1 - bp = n + 1
  <2>1. bp \in Nat /\ taken = Base + bp /\ cp \in bp..(n_chars + 1)
    BY <1>3 DEF AtMatch, TokenAt
  <2>2. n_chars \in Nat /\ Base \in Nat /\ taken + 1 \in Nat \ {0}
    BY Numbers
  <2> QED BY <2>1, <2>2
<1>5. /\ b \in Byte
      /\ cp < n_chars => b = stream[Base + 1 + cp] /\ Base + 1 + cp \in 1..Len(stream)
      /\ cp >= n_chars => b = 0
  <2>1. Content(ch_buf, stream, Base + 1, n_chars)
    BY <1>3 DEF AtMatch, InBuffer
  <2>2. /\ stream \in Seq(Byte) /\ Base + 1 \in Nat \ {0} /\ Base + 1 + n_chars - 1 <= Len(stream)
    BY Numbers
  <2> HIDE DEF b, i, n
  <2> DEFINE base == Base + 1
  <2> HIDE DEF base
  <2>3. /\ ch_buf[cp] \in Byte
        /\ cp < n_chars => ch_buf[cp] = stream[base + cp] /\ base + cp \in 1..Len(stream)
        /\ cp >= n_chars => ch_buf[cp] = 0
    <3>1. Content(ch_buf, stream, base, n_chars) /\ base \in Nat \ {0} /\ base + n_chars - 1 <= Len(stream)
      BY <2>1, <2>2 DEF base
    <3> QED BY <1>4, <2>2, <3>1, ContentAt
  <2> QED BY <2>3 DEF b, base
<1>6. c \in 0..7 /\ (c = 0 <=> b = 0)
  BY <1>5, Classes
<1> HIDE DEF b, c, i, n, q
<1>7. /\ dfa'.state = Transition(q, c)
      /\ dfa'.last = IF yy_accept[q] # 0 THEN q ELSE dfa.last
      /\ dfa'.lastPos = IF yy_accept[q] # 0 THEN cp ELSE dfa.lastPos
  BY <1>1 DEF Advance, q
<1>8. TokenAt(bp)' /\ InBuffer(ch_buf)'
  <2>1. Base' = Base
    BY <1>2 DEF Base
  <2> QED BY <1>2, <1>3, <2>1 DEF AtMatch, TokenAt, InBuffer
<1>9. ASSUME dfa'.state \in 1..JAM PROVE Shape'
  <2>1. q \in Nat /\ dfa.last \in Nat /\ dfa.lastPos \in Nat /\ cp \in Nat
    <3>1. q \in 0..JAM
      BY Numbers DEF q
    <3> QED BY <1>4, <3>1, Numbers DEF JAM
  <2>2. dfa' \in Dfa /\ dfa'.state \in 0..JAM
    <3>1. dfa' = [state |-> dfa'.state, last |-> dfa'.last, lastPos |-> dfa'.lastPos]
      BY <1>1 DEF Advance
    <3>2. dfa'.state \in 0..JAM /\ dfa'.last \in Nat /\ dfa'.lastPos \in Nat
      BY <1>7, <1>9, <2>1 DEF JAM
    <3> QED BY <3>1, <3>2 DEF Dfa
  <2>3. cp' \in 0..(n_chars' + 2)
    BY <1>1, <1>2, <1>4
  <2>4. TypeOK'
    BY <1>1, <1>2, <2>2, <2>3 DEF ScanInv, Shape, TypeOK
  <2>5. ended' = "no" <=> pc' \in {"start", "match", "find", "action", "fill"}
    BY <1>1, <1>2 DEF ScanInv, Shape
  <2>6. pc' # "internal"
    BY <1>1
  <2> QED BY <1>2, <2>2, <2>4, <2>5, <2>6 DEF ScanInv, Shape
<1>10. CASE q = 3 /\ NulAt(ch_buf, cp - 1, n_chars, stream, i, bp)
  <2>1. dfa'.state = JAM /\ dfa'.last = 3 /\ dfa'.lastPos = cp
    BY <1>6, <1>7, <1>10, FromEnd, Tables
  <2>2. pc' = "find"
    BY <1>1, <2>1, Tables DEF JAM, JAM_BASE
  <2>3. BackUp(dfa', cp') = <<3, cp>>
    BY <2>1, Tables DEF BackUp, JAM
  <2>4. Found(3, cp, ch_buf, n_chars, stream, i, bp)
    BY <1>4, <1>10 DEF Found
  <2>5. AtFind'
    BY <1>2, <1>8, <2>3, <2>4 DEF AtFind, i
  <2>6. Shape'
    BY <1>9, <2>1 DEF JAM
  <2> QED BY <2>2, <2>5, <2>6 DEF ScanInv
<1>11. CASE cp <= n_chars /\ q # JAM /\ Running(dfa, stream, i, n, bp)
  <2>1. Reads(q, stream, i, n)
    BY <1>11 DEF Running, q
  <2>2. CASE b = 0
    <3>1. dfa'.state = 3 /\ pc' = "match"
      BY <1>1, <1>6, <1>7, <1>11, <2>1, <2>2, LiveMoves, Tables DEF JAM_BASE
    <3>2. NulAt(ch_buf, cp, n_chars, stream, i, bp)
      <4>1. cp \in bp..n_chars /\ ch_buf[cp] = 0 /\ cp - bp = n
        BY <1>4, <1>11, <2>2 DEF b, n
      <4> QED BY <1>11, <2>1, <4>1 DEF NulAt
    <3>3. cp' \in bp'..(n_chars' + 1) /\ cp' - 1 = cp
      BY <1>1, <1>2, <1>4, <1>11
    <3>4. NulAt(ch_buf', cp' - 1, n_chars', stream', taken' + 1, bp')
      BY <1>2, <3>2, <3>3 DEF i
    <3>5. AtMatch'
      BY <1>8, <3>1, <3>3, <3>4 DEF AtMatch
    <3>6. Shape'
      BY <1>9, <3>1 DEF JAM
    <3> QED BY <3>1, <3>5, <3>6 DEF ScanInv
  <2>3. CASE b # 0
    <3>1. cp < n_chars
      BY <1>4, <1>5, <2>3
    <3>2. b = stream[i + n] /\ i + n <= Len(stream)
      <4>1. Base + 1 + cp = i + n
        BY <1>4
      <4>2. Base + 1 + cp <= Len(stream)
        BY <1>5, <3>1, Numbers
      <4> QED BY <1>5, <3>1, <4>1, <4>2
    <3>3. c = InputClass(b)
      BY <1>5, <2>3, InputClasses DEF c
    <3>4. Running(dfa', stream, i, n + 1, bp)
      <4>1. Running(Advance(dfa, bp + n, InputClass(stream[i + n])), stream, i, n + 1, bp)
        BY <1>4, <1>11, <3>2, Numbers, AdvanceRuns
      <4> QED BY <1>1, <1>4, <3>2, <3>3, <4>1
    <3>5. Reads(dfa'.state, stream, i, n + 1)
      BY <3>4 DEF Running
    <3>6. dfa'.state \in 1..JAM /\ dfa'.state # 3 /\ dfa'.state # 2
      BY <3>5 DEF Reads, JAM
    <3>7. Shape'
      BY <1>9, <3>6
    <3>8. cp' - bp' = n + 1 /\ cp' <= n_chars' /\ cp' \in bp'..(n_chars' + 1) /\ cp' = bp + (n + 1)
      BY <1>1, <1>2, <1>4, <3>1
    <3>9. CASE pc' = "match"
      <4>1. dfa'.state # JAM
        BY <1>1, <3>9, Tables DEF JAM, JAM_BASE
      <4>2. Running(dfa', stream', taken' + 1, cp' - bp', bp')
        BY <1>2, <3>4, <3>8 DEF i
      <4>3. AtMatch'
        BY <1>8, <3>8, <4>1, <4>2 DEF AtMatch
      <4> QED BY <3>7, <3>9, <4>3 DEF ScanInv
    <3>10. CASE pc' = "find" /\ dfa'.state # JAM
      <4>1. dfa'.state \in {4, 5, 7, 8, 12}
        <5>1. dfa'.state \in {1, 4, 5, 6, 7, 8, 9, 10, 11, 12}
          BY <3>6, <3>10 DEF JAM
        <5> QED BY <1>1, <3>10, <5>1, Tables DEF JAM_BASE
      <4>2. yy_accept[dfa'.state] # 0
        BY <4>1, Tables
      <4>3. BackUp(dfa', cp') = <<dfa'.state, cp'>>
        BY <4>2 DEF BackUp
      <4> DEFINE long == n + 1
      <4>4. long \in Nat /\ long # 0 /\ i \in Nat
        BY <1>4
      <4>5. Running(dfa', stream, i, long, bp) /\ Reads(dfa'.state, stream, i, long) /\ cp' = bp + long
        BY <3>4, <3>5, <3>8
      <4> HIDE DEF long
      <4>6. \A m \in Nat : m > long => ~IsPacket(stream, i, m)
        BY <4>1, <4>4, <4>5, CompleteNoLonger
      <4>7. Best(dfa'.state, bp + long, stream, i, bp)
        BY <1>4, <3>10, <4>2, <4>4, <4>5, <4>6, BestOf
      <4>8. Found(dfa'.state, cp', ch_buf', n_chars', stream', taken' + 1, bp')
        BY <1>2, <3>8, <4>5, <4>7 DEF Found, i
      <4>9. AtFind'
        BY <1>8, <4>3, <4>8 DEF AtFind
      <4> QED BY <3>7, <3>10, <4>9 DEF ScanInv
    <3>11. CASE pc' = "find" /\ dfa'.state = JAM
      <4>1. q # 1
        BY <1>6, <1>7, <1>11, <2>1, <2>3, <3>11, LiveMoves
      <4>2. n # 0 /\ i \in Nat
        BY <1>4, <2>1, <4>1 DEF Reads, IsPacket, Dead
      <4>3. Dead(stream, i, n + 1)
        BY <3>5, <3>11 DEF Reads, JAM
      <4>4. \A m \in Nat : m > n => ~IsPacket(stream, i, m)
        <5>1. \A m \in Nat : m > n => m >= n + 1
          BY <1>4
        <5> QED BY <1>4, <4>2, <4>3, <5>1, DeadNoPacket
      <4>5. /\ yy_accept[q] # 0 => Best(q, cp, stream, i, bp)
            /\ yy_accept[q] = 0 => dfa.lastPos <= cp /\ Best(dfa.last, dfa.lastPos, stream, i, bp)
        BY <1>4, <1>11, <4>2, <4>4, BestOf DEF q
      <4>6. dfa'.lastPos <= cp /\ Best(dfa'.last, dfa'.lastPos, stream, i, bp)
        BY <1>4, <1>7, <4>5
      <4>7. BackUp(dfa', cp') = <<dfa'.last, dfa'.lastPos>>
        BY <3>11, Tables DEF BackUp, JAM
      <4>8. dfa'.lastPos <= n_chars'
        <5>1. dfa'.lastPos \in Nat
          BY <4>6 DEF Best
        <5> QED BY <1>2, <1>4, <1>11, <4>6, <5>1
      <4>9. Found(dfa'.last, dfa'.lastPos, ch_buf', n_chars', stream', taken' + 1, bp')
        BY <1>2, <4>6, <4>8 DEF Found, i
      <4>10. AtFind'
        BY <1>8, <4>7, <4>9 DEF AtFind
      <4> QED BY <3>7, <3>11, <4>10 DEF ScanInv
    <3> QED BY <1>1, <3>9, <3>10, <3>11
  <2> QED BY <2>2, <2>3
<1> QED BY <1>3, <1>10, <1>11 DEF AtMatch, i, n, q

\* A byte put away and back again.
LEMMA PutBack ==
    ASSUME NEW n \in Nat, NEW f \in [0..n -> Byte], NEW p \in 0..n
    PROVE  /\ [f EXCEPT ![p] = 0] \in [0..n -> Byte]
           /\ f[p] \in Byte
           /\ [[f EXCEPT ![p] = 0] EXCEPT ![p] = f[p]] = f
<1> DEFINE g == [f EXCEPT ![p] = 0]
           h == [g EXCEPT ![p] = f[p]]
<1>1. g \in [0..n -> Byte] /\ f[p] \in Byte
  BY DEF Byte
<1>2. \A m \in 0..n : h[m] = f[m]
  OBVIOUS
<1>3. h \in [0..n -> Byte]
  BY <1>1
<1> HIDE DEF h
<1>4. h = f
  BY <1>2, <1>3
<1> QED BY <1>1, <1>4 DEF h

\* The automaton falls back to the last text it accepted, and yytext is set.
LEMMA FindActionStep == ASSUME ScanInv, FindAction PROVE ScanInv'
<1> DEFINE q == BackUp(dfa, cp)[1]
           p == BackUp(dfa, cp)[2]
           i == taken + 1
<1>1. /\ pc = "find" /\ pc' = "action" /\ act' = yy_accept[q]
      /\ dfa' = [dfa EXCEPT !.state = q] /\ cp' = p
      /\ YY_DO_BEFORE_ACTION(p - bp)
  BY DEF FindAction
<1>2. /\ stream' = stream /\ taken' = taken /\ ended' = ended /\ nread' = nread
      /\ n_chars' = n_chars /\ buf_size' = buf_size /\ buffer_status' = buffer_status
      /\ bp' = bp
  BY DEF FindAction, rulesVars
<1>3. AtFind
  BY <1>1 DEF ScanInv
<1>4. /\ TokenAt(bp) /\ InBuffer(ch_buf) /\ Found(q, p, ch_buf, n_chars, stream, i, bp)
      /\ bp \in Nat /\ n_chars \in Nat /\ i \in Nat
  BY <1>3, Numbers DEF AtFind, TokenAt
<1> HIDE DEF q, p, i
<1>5. q \in 0..JAM /\ p \in Nat /\ p > bp /\ p <= n_chars + 1
  <2>1. CASE q = 3 /\ p \in Nat /\ NulAt(ch_buf, p - 1, n_chars, stream, i, bp)
    BY <1>4, <2>1 DEF NulAt, JAM
  <2>2. CASE p <= n_chars /\ Best(q, p, stream, i, bp)
    <3>1. q \in 0..JAM
      BY <2>2 DEF Best, Reads, JAM
    <3> QED BY <1>4, <2>2, <3>1 DEF Best
  <2> QED BY <1>4, <2>1, <2>2 DEF Found
<1>6. bp + (p - bp) = p
  BY <1>4, <1>5
<1>7. /\ text' = bp /\ leng' = p - bp /\ hold_char' = ch_buf[p]
      /\ ch_buf' = [ch_buf EXCEPT ![p] = 0] /\ c_buf_p' = p
  BY <1>1, <1>6 DEF YY_DO_BEFORE_ACTION
<1>8. /\ ch_buf' \in [0..(n_chars + 1) -> Byte]
      /\ hold_char' \in Byte
      /\ [ch_buf' EXCEPT ![c_buf_p'] = hold_char'] = ch_buf
  <2>1. ch_buf \in [0..(n_chars + 1) -> Byte] /\ n_chars + 1 \in Nat /\ p \in 0..(n_chars + 1)
    BY <1>4, <1>5 DEF InBuffer, Content
  <2> QED BY <1>7, <2>1, PutBack
<1>9. TextFound'
  <2>1. TokenAt(text)' /\ InBuffer([ch_buf EXCEPT ![c_buf_p] = hold_char])'
    <3>1. Base' = Base
      BY <1>2 DEF Base
    <3> QED BY <1>2, <1>4, <1>7, <1>8, <3>1 DEF TokenAt, InBuffer
  <2>2. /\ c_buf_p' = text' + leng' /\ leng' \in Nat \ {0} /\ cp' = c_buf_p'
        /\ c_buf_p' <= n_chars' + 1
    BY <1>1, <1>2, <1>4, <1>5, <1>7
  <2>3. CASE q = 3 /\ p \in Nat /\ NulAt(ch_buf, p - 1, n_chars, stream, i, bp)
    <3>1. act' = YY_END_OF_BUFFER
      BY <1>1, <2>3, Tables DEF YY_END_OF_BUFFER
    <3>2. NulAt([ch_buf' EXCEPT ![c_buf_p'] = hold_char'], c_buf_p' - 1, n_chars', stream',
                taken' + 1, text')
      BY <1>2, <1>7, <1>8, <2>3 DEF i
    <3> QED BY <1>8, <2>1, <2>2, <3>1, <3>2 DEF TextFound
  <2>4. CASE p <= n_chars /\ Best(q, p, stream, i, bp)
    <3>1. c_buf_p' <= n_chars' /\ act' = yy_accept[q] /\ Best(q, c_buf_p', stream', taken' + 1, text')
      BY <1>1, <1>2, <1>7, <2>4 DEF i
    <3> QED BY <1>8, <2>1, <2>2, <3>1 DEF TextFound
  <2> QED BY <1>4, <2>3, <2>4 DEF Found
<1>10. act' # YY_STATE_EOF
  <2>1. CASE q = 3
    BY <1>1, <2>1, Tables DEF YY_STATE_EOF, YY_END_OF_BUFFER
  <2>2. CASE Best(q, p, stream, i, bp)
    <3>1. Reads(q, stream, i, p - bp) /\ yy_accept[q] # 0 /\ p - bp \in Nat
      BY <1>4, <1>5, <2>2 DEF Best
    <3>2. yy_accept[q] \in 1..5
      BY <1>4, <3>1, Accepted
    <3> QED BY <1>1, <3>2 DEF YY_STATE_EOF, YY_END_OF_BUFFER
  <2> QED BY <1>4, <2>1, <2>2 DEF Found
<1>11. Shape'
  <2>1. dfa' \in Dfa /\ dfa'.state \in 0..JAM
    <3>1. dfa \in Dfa
      BY Numbers
    <3> QED BY <1>1, <1>5, <3>1 DEF Dfa
  <2>2. /\ cp' \in 0..(n_chars' + 2) /\ {c_buf_p', text', bp'} \subseteq 0..(n_chars' + 2)
        /\ ch_buf' \in [0..(n_chars' + 1) -> Byte]
    BY <1>1, <1>2, <1>4, <1>5, <1>7, <1>8
  <2>3. /\ nread' \in 0..Len(stream') /\ taken' \in 0..Len(stream') /\ stream' \in Seq(Byte)
        /\ n_chars' \in Nat /\ n_chars' <= nread'
    BY <1>2, Numbers
  <2>4. /\ buf_size' \in Nat /\ n_chars' < buf_size'
        /\ buffer_status' \in {"NEW", "NORMAL", "EOF_PENDING", "FREED"}
        /\ buffer_status' = "EOF_PENDING" => nread' = Len(stream')
    BY <1>2 DEF ScanInv, Shape, TypeOK
  <2>5. /\ ended' = "no" <=> pc' \in {"start", "match", "find", "action", "fill"}
        /\ pc' # "internal"
        /\ pc' \in {"start", "match", "find", "action", "fill", "return", "ended", "failed", "internal"}
    BY <1>1, <1>2 DEF ScanInv, Shape
  <2>6. TypeOK'
    BY <2>1, <2>2, <2>3, <2>4, <2>5 DEF TypeOK
  <2> QED BY <1>8, <2>1, <2>3, <2>4, <2>5, <2>6 DEF Shape
<1> QED BY <1>1, <1>9, <1>10, <1>11 DEF ScanInv, AtAction

\* The bytes of a piece of the stream.
LEMMA Piece ==
    ASSUME NEW s \in Seq(Byte), NEW a \in Nat, NEW n \in Nat \ {0}, a + n <= Len(s)
    PROVE  SubSeq(s, a + 1, a + n) = [j \in 1..n |-> s[a + j]]
<1> DEFINE f == [j \in 1..n |-> s[a + j]]
           t == SubSeq(s, a + 1, a + n)
           length == Len(s)
<1>1. length \in Nat
  BY LenProperties
<1>2. \A k \in (a + 1)..(a + n) : k \in 1..length
  <2> HIDE DEF length
  <2>1. a + n <= length
    BY DEF length
  <2> QED BY <1>1, <2>1
<1>3. \A k \in (a + 1)..(a + n) : s[k] \in Byte
  BY <1>2, ElementOfSeq
<1>4. (a + n) - (a + 1) + 1 = n /\ a + 1 <= a + n /\ a + 1 \in Int /\ a + n \in Int
  OBVIOUS
<1>5. /\ t \in Seq(Byte) /\ Len(t) = n
      /\ \A j \in 1..n : t[j] = s[(a + 1) + j - 1]
  BY <1>3, <1>4, SubSeqProperties
<1> HIDE DEF t
<1>6. t \in [1..n -> Byte]
  BY <1>5, LenProperties
<1>7. \A j \in 1..n : (a + 1) + j - 1 = a + j /\ a + j \in (a + 1)..(a + n)
  OBVIOUS
<1>8. f \in [1..n -> Byte] /\ \A j \in 1..n : f[j] = t[j]
  BY <1>3, <1>5, <1>7
<1> HIDE DEF f
<1>9. t = f
  BY <1>6, <1>8
<1> QED BY <1>9 DEF t, f

\* What the state after a token of a rule is.
LEMMA TextOfRule ==
    ASSUME ScanInv, pc = "action", act \in 1..5
    PROVE  /\ TextFound /\ c_buf_p <= n_chars
           /\ \E q : act = yy_accept[q] /\ Best(q, c_buf_p, stream, taken + 1, text)
<1>1. TextFound
  BY DEF ScanInv, AtAction, YY_STATE_EOF, YY_END_OF_BUFFER
<1>2. act # YY_END_OF_BUFFER
  BY DEF YY_END_OF_BUFFER
<1> QED BY <1>1, <1>2 DEF TextFound

\* The action of a rule runs on the text that the rules give it.
LEMMA RuleActionStep == ASSUME ScanInv, RuleAction PROVE ScanInv' /\ Token
<1> DEFINE i == taken + 1
           shown == [ch_buf EXCEPT ![c_buf_p] = hold_char]
<1>1. /\ pc = "action" /\ pc' = "start" /\ act \in 1..5
      /\ token' = <<act, [j \in 1..leng |-> ch_buf[text + j - 1]]>>
      /\ taken' = taken + leng
  BY DEF RuleAction
<1>2. /\ stream' = stream /\ ended' = ended /\ nread' = nread
      /\ n_chars' = n_chars /\ buf_size' = buf_size /\ buffer_status' = buffer_status
      /\ ch_buf' = ch_buf /\ c_buf_p' = c_buf_p /\ hold_char' = hold_char /\ text' = text
      /\ leng' = leng /\ dfa' = dfa /\ cp' = cp /\ bp' = bp /\ act' = act
  BY DEF RuleAction, buffer, position, local
<1>3. TextFound /\ c_buf_p <= n_chars
  BY <1>1, TextOfRule
<1>4. PICK q : act = yy_accept[q] /\ Best(q, c_buf_p, stream, i, text)
  BY <1>1, TextOfRule
<1>5. /\ text \in Nat /\ leng \in Nat /\ leng >= 1 /\ c_buf_p = text + leng /\ c_buf_p - text = leng
      /\ taken = Base + text /\ n_chars \in Nat /\ nread \in Nat /\ Base = nread - n_chars
      /\ Base \in Nat /\ i \in Nat /\ taken \in Nat /\ c_buf_p \in Nat /\ leng \in 1..n_chars
      /\ i = Base + 1 + text
  <2>1. nread \in Nat /\ taken \in Nat /\ n_chars \in Nat /\ Base \in Nat /\ Base = nread - n_chars
    BY Numbers
  <2>2. text \in Nat /\ taken = Base + text /\ c_buf_p = text + leng /\ leng \in Nat \ {0}
    BY <1>3 DEF TextFound, TokenAt
  <2> QED BY <1>3, <2>1, <2>2
<1>6. taken' = Base + c_buf_p /\ taken' <= nread
  BY <1>1, <1>3, <1>5
<1>7. taken' \in 0..Len(stream) /\ taken < Len(stream) /\ leng \in 1..(Len(stream) - taken)
  <2> DEFINE length == Len(stream)
  <2>1. length \in Nat /\ nread \in 0..length
    BY Numbers
  <2> HIDE DEF length
  <2>2. taken' \in 0..length /\ taken < length /\ leng \in 1..(length - taken)
    BY <1>1, <1>5, <1>6, <2>1
  <2> QED BY <2>2 DEF length
<1>8. ScanInv'
  <2>1. AtStart'
    <3>1. Base' = Base
      BY <1>2 DEF Base
    <3>2. TokenAt(c_buf_p)'
      BY <1>2, <1>5, <1>6, <3>1 DEF TokenAt
    <3>3. InBuffer([ch_buf EXCEPT ![c_buf_p] = hold_char])'
      BY <1>2, <1>3, <3>1 DEF TextFound, InBuffer
    <3> QED BY <1>2, <1>3, <3>2, <3>3 DEF AtStart
  <2>2. TypeOK'
    BY <1>1, <1>2, <1>7 DEF ScanInv, Shape, TypeOK
  <2>3. Shape'
    BY <1>1, <1>2, <2>2 DEF ScanInv, Shape
  <2> QED BY <1>1, <2>1, <2>3 DEF ScanInv
<1>9. Token
  <2>1. Reads(q, stream, i, leng) /\ yy_accept[q] # 0
    BY <1>4, <1>5 DEF Best
  <2>2. /\ RuleMatches(act, stream, i, leng)
        /\ \A rule \in 1..5 : RuleMatches(rule, stream, i, leng) => act <= rule
    BY <1>4, <1>5, <2>1, Accepted
  <2>3. ASSUME NEW other \in 1..5, NEW m \in 1..(Len(stream) - taken),
               RuleMatches(other, stream, i, m)
        PROVE  m < leng \/ (m = leng /\ act <= other)
    <3>1. m \in Nat /\ i + m - 1 <= Len(stream)
      BY <1>5, Numbers
    <3>2. ~(m > leng)
      <4>1. \A k \in Nat : k > leng /\ i + k - 1 <= Len(stream) => ~IsPacket(stream, i, k)
        BY <1>4, <1>5 DEF Best
      <4>2. m = 1 \/ IsPacket(stream, i, m)
        BY <2>3 DEF RuleMatches
      <4> QED BY <1>5, <3>1, <4>1, <4>2
    <3>3. m = leng => act <= other
      BY <2>2, <2>3
    <3> QED BY <1>5, <3>1, <3>2, <3>3
  <2>4. [j \in 1..leng |-> ch_buf[text + j - 1]] = SubSeq(stream, taken + 1, taken + leng)
    <3>1. SubSeq(stream, taken + 1, taken + leng) = [j \in 1..leng |-> stream[taken + j]]
      <4>1. taken + leng <= Len(stream) /\ leng \in Nat \ {0} /\ stream \in Seq(Byte)
        BY <1>1, <1>5, <1>7, Numbers
      <4> QED BY <1>5, <4>1, Piece
    <3>2. ASSUME NEW j \in 1..leng PROVE ch_buf[text + j - 1] = stream[taken + j]
      <4> DEFINE p == text + j - 1
      <4>1. p \in 0..(n_chars - 1) /\ p # c_buf_p /\ 0 + p = p /\ Base + 1 + p = taken + j
            /\ p \in 0..(n_chars + 1)
        BY <1>3, <1>5
      <4> HIDE DEF p
      <4>2. Content(shown, stream, Base + 1, n_chars)
        BY <1>3 DEF TextFound, InBuffer
      <4>3. shown[0 + p] = stream[Base + 1 + p]
        BY <4>1, <4>2 DEF Content, Holds
      <4>4. shown[p] = ch_buf[p]
        <5>1. ch_buf \in [0..(n_chars + 1) -> Byte]
          BY DEF ScanInv, Shape, TypeOK
        <5> QED BY <4>1, <5>1
      <4> QED BY <4>1, <4>3, <4>4 DEF p
    <3> QED BY <3>1, <3>2
  <2>5. token' = <<act, SubSeq(stream, taken + 1, taken + leng)>>
    BY <1>1, <2>4
  <2>6. ended = "no"
    BY <1>1 DEF ScanInv, Shape
  <2> QED BY <1>1, <1>2, <1>7, <2>2, <2>3, <2>5, <2>6 DEF Token
<1> QED BY <1>8, <1>9

\* yylex returns at the end of the stream.
LEMMA EofActionStep == ASSUME ScanInv, EofAction PROVE ScanInv' /\ EndOfFile
<1>1. /\ pc = "action" /\ pc' = "return" /\ act = YY_STATE_EOF /\ ended' = "eof"
  BY DEF EofAction
<1>2. /\ stream' = stream /\ taken' = taken /\ token' = token /\ nread' = nread
      /\ n_chars' = n_chars /\ buf_size' = buf_size /\ buffer_status' = buffer_status
      /\ ch_buf' = ch_buf /\ c_buf_p' = c_buf_p /\ hold_char' = hold_char /\ text' = text
      /\ leng' = leng /\ dfa' = dfa /\ cp' = cp /\ bp' = bp /\ act' = act
  BY DEF EofAction, buffer, position, local
<1>3. taken = Len(stream) /\ ended = "no"
  BY <1>1 DEF ScanInv, Shape, AtAction
<1>4. ScanInv'
  <2>1. TypeOK'
    BY <1>1, <1>2 DEF ScanInv, Shape, TypeOK
  <2> QED BY <1>1, <1>2, <2>1 DEF ScanInv, Shape
<1>5. EndOfFile
  BY <1>1, <1>2, <1>3 DEF EndOfFile
<1> QED BY <1>4, <1>5

\* The buffer is freed.
LEMMA DestroyStep == ASSUME ScanInv, yylex_destroy PROVE ScanInv' /\ UNCHANGED rulesVars
<1>1. /\ pc = "return" /\ pc' = "ended" /\ buffer_status' = "FREED"
      /\ c_buf_p' = 0 /\ text' = 0 /\ leng' = 0 /\ hold_char' = 0
  BY DEF yylex_destroy
<1>2. /\ stream' = stream /\ taken' = taken /\ token' = token /\ ended' = ended /\ nread' = nread
      /\ n_chars' = n_chars /\ buf_size' = buf_size
      /\ ch_buf' = ch_buf /\ dfa' = dfa /\ cp' = cp /\ bp' = bp /\ act' = act
  BY DEF yylex_destroy, rulesVars, local
<1>3. n_chars \in Nat
  BY Numbers
<1>4. TypeOK'
  BY <1>1, <1>2, <1>3 DEF ScanInv, Shape, TypeOK
<1>5. Shape'
  BY <1>1, <1>2, <1>4 DEF ScanInv, Shape, Byte
<1> QED BY <1>1, <1>2, <1>5 DEF ScanInv, rulesVars

\* What the state after a NUL is.
LEMMA TextBeforeNul ==
    ASSUME ScanInv, pc = "action", act = YY_END_OF_BUFFER
    PROVE  /\ TextFound
           /\ NulAt([ch_buf EXCEPT ![c_buf_p] = hold_char], c_buf_p - 1, n_chars, stream,
                    taken + 1, text)
<1>1. TextFound
  BY DEF ScanInv, AtAction, YY_STATE_EOF, YY_END_OF_BUFFER
<1>2. ASSUME NEW q, act = yy_accept[q], Best(q, c_buf_p, stream, taken + 1, text) PROVE FALSE
  <2>1. /\ text \in Nat /\ c_buf_p - text \in Nat /\ taken + 1 \in Nat
    BY <1>1, Numbers DEF TextFound, TokenAt
  <2>2. Reads(q, stream, taken + 1, c_buf_p - text) /\ yy_accept[q] # 0
    BY <1>2 DEF Best
  <2>3. yy_accept[q] \in 1..5
    BY <2>1, <2>2, Accepted
  <2> QED BY <1>2, <2>3 DEF YY_END_OF_BUFFER
<1> QED BY <1>1, <1>2 DEF TextFound

\* The numbers of that state, and the text before the NUL: leng - 1 bytes.
LEMMA NumbersBeforeNul ==
    ASSUME ScanInv, pc = "action", act = YY_END_OF_BUFFER
    PROVE  /\ text \in Nat /\ taken = Base + text /\ cp = c_buf_p /\ c_buf_p \in Nat
           /\ c_buf_p - text - 1 \in Nat /\ text + (c_buf_p - text - 1) = c_buf_p - 1
           /\ c_buf_p <= n_chars + 1 /\ c_buf_p - 1 \in 0..n_chars
           /\ InBuffer(Restored) /\ Restored[c_buf_p - 1] = 0
           /\ Holds(Restored, text, stream, taken + 1, c_buf_p - text - 1)
           /\ taken + (c_buf_p - text - 1) <= nread
           /\ \E q : q # JAM /\ Reads(q, stream, taken + 1, c_buf_p - text - 1)
<1>1. TextFound
  BY TextBeforeNul
<1>2. /\ text \in Nat /\ taken = Base + text /\ c_buf_p = text + leng /\ leng \in Nat \ {0}
      /\ cp = c_buf_p /\ c_buf_p <= n_chars + 1
  BY <1>1 DEF TextFound, TokenAt
<1>3. /\ n_chars \in Nat /\ nread \in Nat /\ Base = nread - n_chars /\ Base \in Nat
      /\ taken \in Nat
  BY Numbers
<1>4. /\ c_buf_p \in Nat /\ c_buf_p - text - 1 \in Nat
      /\ text + (c_buf_p - text - 1) = c_buf_p - 1 /\ c_buf_p - 1 \in 0..n_chars
      /\ (c_buf_p - 1) - text = c_buf_p - text - 1
      /\ taken + (c_buf_p - text - 1) <= nread
  BY <1>2, <1>3
<1>5. Restored = [ch_buf EXCEPT ![c_buf_p] = hold_char]
  BY <1>2 DEF Restored
<1>6. /\ InBuffer(Restored)
      /\ NulAt(Restored, c_buf_p - 1, n_chars, stream, taken + 1, text)
  BY <1>1, <1>5, TextBeforeNul DEF TextFound
<1>7. /\ Restored[c_buf_p - 1] = 0
      /\ \E q : q # JAM /\ Reads(q, stream, taken + 1, c_buf_p - text - 1)
  BY <1>4, <1>6 DEF NulAt
<1>8. Holds(Restored, text, stream, taken + 1, c_buf_p - text - 1)
  <2>1. ASSUME NEW p \in 0..((c_buf_p - text - 1) - 1)
        PROVE  Restored[text + p] = stream[taken + 1 + p]
    <3>1. /\ text + p \in 0..(n_chars - 1) /\ 0 + (text + p) = text + p
          /\ Base + 1 + (text + p) = taken + 1 + p
      BY <1>2, <1>3
    <3>2. Holds(Restored, 0, stream, Base + 1, n_chars)
      BY <1>6 DEF InBuffer, Content
    <3>3. Restored[0 + (text + p)] = stream[Base + 1 + (text + p)]
      <4> HIDE DEF Restored
      <4> QED BY <3>1, <3>2 DEF Holds
    <3> QED BY <3>1, <3>3
  <2> QED BY <2>1 DEF Holds
<1> QED BY <1>2, <1>4, <1>6, <1>7, <1>8

\* A NUL of the input is a byte as any other.
LEMMA RealNulStep == ASSUME ScanInv, RealNul PROVE ScanInv' /\ UNCHANGED rulesVars
<1> DEFINE i == taken + 1
           n == c_buf_p - text - 1
<1>1. /\ pc = "action" /\ act = YY_END_OF_BUFFER /\ IsRealNul
      /\ ch_buf' = Restored /\ bp' = text /\ c_buf_p' = cp'
  BY DEF RealNul
<1>2. /\ stream' = stream /\ taken' = taken /\ token' = token /\ ended' = ended /\ nread' = nread
      /\ n_chars' = n_chars /\ buf_size' = buf_size /\ buffer_status' = buffer_status
      /\ hold_char' = hold_char /\ text' = text /\ leng' = leng /\ act' = act
  BY DEF RealNul, rulesVars
<1>3. /\ text \in Nat /\ taken = Base + text /\ cp = c_buf_p /\ c_buf_p \in Nat
      /\ n \in Nat /\ text + n = c_buf_p - 1
      /\ InBuffer(Restored) /\ Restored[c_buf_p - 1] = 0
      /\ Holds(Restored, text, stream, i, n)
      /\ taken + n <= nread
      /\ \E q : q # JAM /\ Reads(q, stream, i, n)
  BY <1>1, NumbersBeforeNul
<1>4. /\ n_chars \in Nat /\ nread \in Nat /\ Base = nread - n_chars /\ Base \in Nat
      /\ taken \in Nat /\ i \in Nat \ {0} /\ stream \in Seq(Byte) /\ dfa \in Dfa
      /\ Len(stream) \in Nat /\ nread <= Len(stream)
  BY Numbers
<1>5. /\ c_buf_p <= n_chars /\ AmountMatched = n
      /\ c_buf_p = text + n + 1 /\ c_buf_p - 1 \in 0..(n_chars - 1)
      /\ Base + 1 + (c_buf_p - 1) = i + n /\ 0 + (c_buf_p - 1) = c_buf_p - 1
  BY <1>1, <1>3, <1>4 DEF IsRealNul, AmountMatched
<1>6. stream[i + n] = 0 /\ i + n - 1 <= Len(stream) /\ i + n <= Len(stream)
  <2>1. Holds(Restored, 0, stream, Base + 1, n_chars)
    BY <1>3 DEF InBuffer, Content
  <2>2. Restored[0 + (c_buf_p - 1)] = stream[Base + 1 + (c_buf_p - 1)]
    <3> HIDE DEF Restored
    <3> QED BY <1>5, <2>1 DEF Holds
  <2>3. stream[i + n] = 0
    BY <1>3, <1>5, <2>2
  <2>4. i + n - 1 <= Len(stream) /\ i + n <= Len(stream)
    <3> DEFINE length == Len(stream)
    <3>1. length \in Nat /\ nread <= length
      BY <1>4
    <3> HIDE DEF length
    <3>2. i + n <= nread
      BY <1>3, <1>4, <1>5
    <3>3. i + n - 1 <= length /\ i + n <= length
      BY <1>3, <1>4, <3>1, <3>2
    <3> QED BY <3>3 DEF length
  <2> QED BY <2>3, <2>4
<1> HIDE DEF i, n, Restored
<1>7. PICK previous \in yy_get_previous_state(Restored, text, text + n) :
        IF yy_try_NUL_trans(previous, text + n).state # JAM
        THEN /\ dfa' = yy_try_NUL_trans(previous, text + n)
             /\ cp' = text + n + 1
             /\ pc' = "match"
        ELSE /\ dfa' = [yy_try_NUL_trans(previous, text + n) EXCEPT !.state = previous.state]
             /\ cp' = text + n
             /\ pc' = "find"
  BY <1>1, <1>5 DEF RealNul
<1> DEFINE next == Advance(previous, text + n, InputClass(0))
<1>8. Running(previous, stream, i, n, text)
  BY <1>3, <1>4, <1>6, PreviousRuns
<1>9. Reads(previous.state, stream, i, n) /\ previous \in Dfa
  BY <1>8 DEF Running
<1>10. previous.state # JAM
  <2>1. ~Dead(stream, i, n)
    BY <1>3, <1>4, DeadReadsNothing
  <2> QED BY <1>9, <2>1 DEF Reads, JAM
<1>11. Running(next, stream, i, n + 1, text)
  <2>1. Running(Advance(previous, text + n, InputClass(stream[i + n])), stream, i, n + 1, text)
    BY <1>3, <1>4, <1>6, <1>8, AdvanceRuns
  <2> QED BY <1>6, <2>1
<1>12. /\ next \in Dfa /\ Reads(next.state, stream, i, n + 1)
       /\ next.state = Transition(previous.state, InputClass(0))
       /\ next.last = IF yy_accept[previous.state] # 0 THEN previous.state ELSE previous.last
       /\ next.lastPos = IF yy_accept[previous.state] # 0 THEN text + n ELSE previous.lastPos
  <2>1. next \in Dfa /\ Reads(next.state, stream, i, n + 1)
    BY <1>11 DEF Running
  <2> QED BY <2>1 DEF Advance
<1>13. yy_try_NUL_trans(previous, text + n) = next
  BY DEF yy_try_NUL_trans
<1> HIDE DEF next
<1>14. Base' = Base /\ TokenAt(bp)' /\ InBuffer(ch_buf)'
  <2>1. Base' = Base
    BY <1>2 DEF Base
  <2> QED BY <1>1, <1>2, <1>3, <2>1 DEF TokenAt, InBuffer
<1>15. ASSUME dfa' \in Dfa, cp' \in 0..n_chars, pc' \in {"match", "find"} PROVE Shape'
  <2>1. dfa'.state \in 0..JAM
    BY <1>15 DEF Dfa
  <2>2. ch_buf' \in [0..(n_chars' + 1) -> Byte]
    BY <1>14 DEF InBuffer, Content
  <2>3. {c_buf_p', text', bp'} \subseteq 0..(n_chars' + 2) /\ cp' \in 0..(n_chars' + 2)
    BY <1>1, <1>2, <1>3, <1>4, <1>5, <1>15
  <2>4. TypeOK'
    BY <1>2, <1>15, <2>1, <2>2, <2>3 DEF ScanInv, Shape, TypeOK
  <2>5. ended' = "no"
    BY <1>1, <1>2 DEF ScanInv, Shape
  <2> QED BY <1>2, <1>15, <2>4, <2>5 DEF ScanInv, Shape
<1>16. CASE next.state # JAM
  <2>1. dfa' = next /\ cp' = text + n + 1 /\ pc' = "match"
    BY <1>7, <1>13, <1>16
  <2>2. cp' \in 0..n_chars /\ cp' - bp' = n + 1 /\ cp' <= n_chars' /\ cp' \in bp'..(n_chars' + 1)
    BY <1>1, <1>2, <1>3, <1>4, <1>5, <2>1
  <2>3. Running(dfa', stream', taken' + 1, cp' - bp', bp')
    BY <1>1, <1>2, <1>11, <2>1, <2>2 DEF i
  <2>4. AtMatch'
    BY <1>14, <1>16, <2>1, <2>2, <2>3 DEF AtMatch
  <2>5. Shape'
    BY <1>12, <1>15, <2>1, <2>2
  <2> QED BY <1>2, <2>1, <2>4, <2>5 DEF ScanInv, rulesVars
<1>17. CASE next.state = JAM
  <2> DEFINE p == text + n
             q == previous.state
  <2>1. dfa' = [next EXCEPT !.state = q] /\ cp' = p /\ pc' = "find"
    BY <1>7, <1>13, <1>17
  <2>2. p \in Nat /\ p \in 0..n_chars
    BY <1>3, <1>4, <1>5
  <2> HIDE DEF p, q
  <2>3. /\ dfa' \in Dfa /\ dfa'.state = q /\ dfa'.last = next.last /\ dfa'.lastPos = next.lastPos
    <3>1. q \in 0..JAM
      BY <1>9 DEF q, Dfa
    <3> QED BY <1>12, <2>1, <3>1 DEF Dfa
  <2>4. Dead(stream, i, n + 1)
    BY <1>12, <1>17 DEF Reads, JAM
  <2>5. q # 1
    <3>1. InputClass(0) = 1
      BY DEF InputClass
    <3> QED BY <1>9, <1>12, <1>17, <3>1, FromStart DEF q, JAM
  <2>6. n # 0
    BY <1>9, <2>5 DEF Reads, IsPacket, Dead, q
  <2>7. \A m \in Nat : m > n => ~IsPacket(stream, i, m)
    <3>1. \A m \in Nat : m > n => m >= n + 1
      BY <1>3
    <3>2. i \in Nat /\ n + 1 \in Nat
      BY <1>3, <1>4
    <3> QED BY <2>4, <3>1, <3>2, DeadNoPacket
  <2>8. /\ yy_accept[q] # 0 => Best(q, p, stream, i, text)
        /\ yy_accept[q] = 0 =>
                previous.lastPos <= p /\ Best(previous.last, previous.lastPos, stream, i, text)
    BY <1>3, <1>4, <1>8, <1>10, <2>6, <2>7, BestOf DEF q, p
  <2>9. Found(BackUp(dfa', cp')[1], BackUp(dfa', cp')[2], ch_buf', n_chars', stream', taken' + 1, bp')
    <3>1. CASE yy_accept[q] # 0
      <4>1. BackUp(dfa', cp') = <<q, p>>
        BY <2>1, <2>3, <3>1 DEF BackUp
      <4>2. Best(q, p, stream, i, text) /\ p <= n_chars
        BY <1>4, <2>2, <2>8, <3>1
      <4> QED BY <1>1, <1>2, <4>1, <4>2 DEF Found, i
    <3>2. CASE yy_accept[q] = 0
      <4>1. BackUp(dfa', cp') = <<previous.last, previous.lastPos>>
        BY <1>12, <2>3, <3>2 DEF BackUp, q
      <4>2. Best(previous.last, previous.lastPos, stream, i, text) /\ previous.lastPos <= n_chars
        <5>1. previous.lastPos \in Nat
          BY <1>9 DEF Dfa
        <5> QED BY <1>4, <2>2, <2>8, <3>2, <5>1
      <4> QED BY <1>1, <1>2, <4>1, <4>2 DEF Found, i
    <3> QED BY <3>1, <3>2
  <2>10. AtFind'
    BY <1>14, <2>9 DEF AtFind
  <2>11. Shape'
    BY <1>15, <2>1, <2>2, <2>3
  <2> QED BY <1>2, <2>1, <2>10, <2>11 DEF ScanInv, rulesVars
<1> QED BY <1>16, <1>17

\* At the end of the buffer the token begun moves to the front.
LEMMA EndOfBufferStep == ASSUME ScanInv, EndOfBuffer PROVE ScanInv' /\ UNCHANGED rulesVars
<1> DEFINE i == taken + 1
           n == c_buf_p - text - 1
<1>1. /\ pc = "action" /\ act = YY_END_OF_BUFFER /\ ~IsRealNul
      /\ buffer_status' = IF buffer_status = "NEW" THEN "NORMAL" ELSE buffer_status
  BY DEF EndOfBuffer
<1>2. /\ stream' = stream /\ taken' = taken /\ token' = token /\ nread' = nread
      /\ n_chars' = n_chars /\ buf_size' = buf_size
      /\ c_buf_p' = c_buf_p /\ hold_char' = hold_char /\ text' = text /\ leng' = leng
      /\ dfa' = dfa /\ cp' = cp /\ bp' = bp /\ act' = act
  BY DEF EndOfBuffer, position, local
<1>3. /\ text \in Nat /\ taken = Base + text /\ c_buf_p \in Nat
      /\ n \in Nat /\ text + n = c_buf_p - 1 /\ c_buf_p <= n_chars + 1
      /\ InBuffer(Restored)
      /\ Holds(Restored, text, stream, i, n)
      /\ \E q : q # JAM /\ Reads(q, stream, i, n)
  BY <1>1, NumbersBeforeNul
<1>4. /\ n_chars \in Nat /\ nread \in Nat /\ Base = nread - n_chars /\ Base \in Nat
      /\ taken \in Nat
  BY Numbers
<1>5. /\ ~(c_buf_p > n_chars + 1) /\ NumberToMove = n /\ n \in 0..n_chars
      /\ taken + n = nread /\ text + n = n_chars
  BY <1>1, <1>3, <1>4 DEF IsRealNul, NumberToMove
<1> HIDE DEF i, n, Restored
<1>6. /\ pc' = "fill" /\ ended' = ended
      /\ ch_buf' = [p \in 0..(n_chars + 1) |-> IF p < n THEN Restored[text + p] ELSE Restored[p]]
  BY <1>5 DEF EndOfBuffer
<1>7. Restored \in [0..(n_chars + 1) -> Byte]
  BY <1>3 DEF InBuffer, Content
<1>8. ch_buf' \in [0..(n_chars + 1) -> Byte]
  <2>1. \A p \in 0..(n_chars + 1) : p < n => text + p \in 0..(n_chars + 1)
    BY <1>3, <1>4, <1>5
  <2> QED BY <1>6, <1>7, <2>1
<1>9. Holds(ch_buf', 0, stream, i, n)
  <2>1. ASSUME NEW p \in 0..(n - 1) PROVE ch_buf'[0 + p] = stream[i + p]
    <3>1. p \in 0..(n_chars + 1) /\ p < n /\ 0 + p = p
      BY <1>3, <1>4, <1>5
    <3>2. ch_buf'[p] = Restored[text + p]
      BY <1>6, <3>1
    <3>3. Restored[text + p] = stream[i + p]
      BY <1>3 DEF Holds
    <3> QED BY <3>1, <3>2, <3>3
  <2> QED BY <2>1 DEF Holds
<1>10. AtFill'
  <2>1. NumberToMove' = n
    BY <1>2, <1>5 DEF NumberToMove
  <2>2. buffer_status' # "NEW"
    BY <1>1
  <2> QED BY <1>2, <1>3, <1>5, <1>9, <2>1, <2>2 DEF AtFill, i
<1>11. Shape'
  <2>1. TypeOK'
    BY <1>1, <1>2, <1>6, <1>8 DEF ScanInv, Shape, TypeOK
  <2>2. buffer_status' = "EOF_PENDING" => nread' = Len(stream')
    BY <1>1, <1>2 DEF ScanInv, Shape
  <2> QED BY <1>1, <1>2, <1>6, <2>1, <2>2 DEF ScanInv, Shape
<1> QED BY <1>2, <1>6, <1>10, <1>11 DEF ScanInv, Shape, rulesVars

\* A buffer too small grows.
LEMMA GrowBufferStep == ASSUME ScanInv, GrowBuffer PROVE ScanInv' /\ UNCHANGED rulesVars
<1>1. /\ pc = "fill" /\ buf_size' = 2 * buf_size
  BY DEF GrowBuffer, Grown
<1>2. /\ stream' = stream /\ taken' = taken /\ token' = token /\ ended' = ended /\ nread' = nread
      /\ n_chars' = n_chars /\ ch_buf' = ch_buf /\ buffer_status' = buffer_status
      /\ c_buf_p' = c_buf_p /\ hold_char' = hold_char /\ text' = text /\ leng' = leng
      /\ dfa' = dfa /\ cp' = cp /\ bp' = bp /\ act' = act /\ pc' = pc
  BY DEF GrowBuffer, rulesVars, position, local
<1>3. buf_size' \in Nat /\ n_chars' < buf_size'
  BY <1>1, <1>2 DEF ScanInv, Shape
<1>4. TypeOK'
  BY <1>2 DEF ScanInv, Shape, TypeOK
<1>5. Shape'
  BY <1>2, <1>3, <1>4 DEF ScanInv, Shape
<1>6. AtFill'
  BY <1>1, <1>2 DEF ScanInv, AtFill, NumberToMove
<1> QED BY <1>1, <1>2, <1>5, <1>6 DEF ScanInv, rulesVars

\* n bytes more of the stream behind the text begun, from the front of the
\* buffer on.
LEMMA FilledHolds ==
    ASSUME ScanInv, pc = "fill", NEW n \in Nat, n <= Len(stream) - nread,
           NumberToMove + n < buf_size, Filled(n), stream' = stream, taken' = taken
    PROVE  /\ NumberToMove \in Nat /\ nread' = nread + n /\ nread' \in 0..Len(stream)
           /\ n_chars' = NumberToMove + n /\ n_chars' \in Nat /\ n_chars' <= nread'
           /\ buf_size' = buf_size /\ buf_size \in Nat /\ text' = 0 /\ bp' = 0
           /\ Base' = taken /\ TokenAt(bp)'
           /\ InBuffer(ch_buf)'
           /\ Holds(ch_buf', 0, stream, taken + 1, NumberToMove)
           /\ taken + NumberToMove = nread /\ taken \in Nat
           /\ \E q : q # JAM /\ Reads(q, stream, taken + 1, NumberToMove)
<1> DEFINE k == NumberToMove
           length == Len(stream)
<1>1. /\ k \in 0..n_chars /\ taken + k = nread
      /\ Holds(ch_buf, 0, stream, taken + 1, k)
      /\ \E q : q # JAM /\ Reads(q, stream, taken + 1, k)
  BY DEF ScanInv, AtFill
<1>2. /\ stream \in Seq(Byte) /\ length \in Nat /\ nread \in 0..length /\ taken \in Nat
      /\ n_chars \in Nat /\ buf_size \in Nat /\ ch_buf \in [0..(n_chars + 1) -> Byte]
  BY Numbers DEF ScanInv, Shape, TypeOK
<1>3. n <= length - nread /\ k + n < buf_size
  OBVIOUS
<1>4. /\ ch_buf' = [p \in 0..(k + n + 1) |->
                        IF p < k THEN ch_buf[p]
                        ELSE IF p < k + n THEN stream[nread + p - k + 1] ELSE 0]
      /\ nread' = nread + n /\ n_chars' = k + n /\ text' = 0 /\ bp' = 0
      /\ buf_size' = IF k + n > buf_size THEN k + n + (n \div 2) - 2 ELSE buf_size
  BY DEF Filled
<1> HIDE DEF k, length
<1>5. /\ k \in Nat /\ nread' \in 0..length /\ n_chars' \in Nat /\ n_chars' <= nread'
      /\ buf_size' = buf_size
  BY <1>1, <1>2, <1>3, <1>4
<1>6. Base' = taken
  BY <1>1, <1>2, <1>4, <1>5 DEF Base
<1>7. TokenAt(bp)'
  BY <1>2, <1>4, <1>6 DEF TokenAt
<1>8. /\ \A p \in 0..(k - 1) : p \in 0..(n_chars + 1) /\ p \in 0..(k + n + 1) /\ p < k
      /\ \A p \in k..(k + n - 1) :
            /\ p \in 0..(k + n + 1) /\ ~(p < k) /\ p < k + n
            /\ nread + p - k + 1 = taken + 1 + p
            /\ taken + 1 + p \in 1..length
      /\ \A p \in 0..(k + n - 1) : 0 + p = p /\ (p \in 0..(k - 1) \/ p \in k..(k + n - 1))
      /\ \A p \in {k + n, k + n + 1} : p \in 0..(k + n + 1) /\ ~(p < k) /\ ~(p < k + n)
      /\ \A p \in 0..(k + n + 1) : p \in 0..(k - 1) \/ p \in k..(k + n - 1) \/ p \in {k + n, k + n + 1}
  BY <1>1, <1>2, <1>3, <1>5
<1>9. ASSUME NEW p \in 0..(k - 1) PROVE ch_buf'[p] = stream[taken + 1 + p] /\ ch_buf'[p] \in Byte
  <2>1. ch_buf'[p] = ch_buf[p] /\ ch_buf[p] \in Byte
    BY <1>2, <1>4, <1>8
  <2>2. 0 + p = p
    OBVIOUS
  <2>3. ch_buf[0 + p] = stream[taken + 1 + p]
    BY <1>1 DEF Holds
  <2> QED BY <2>1, <2>2, <2>3
<1>10. ASSUME NEW p \in k..(k + n - 1)
       PROVE  ch_buf'[p] = stream[taken + 1 + p] /\ ch_buf'[p] \in Byte
  <2>1. ch_buf'[p] = stream[nread + p - k + 1]
    BY <1>4, <1>8
  <2>2. nread + p - k + 1 = taken + 1 + p /\ taken + 1 + p \in 1..length
    BY <1>8
  <2>3. stream[taken + 1 + p] \in Byte
    BY <1>2, <2>2, ElementOfSeq DEF length
  <2> QED BY <2>1, <2>2, <2>3
<1>11. ASSUME NEW p \in {k + n, k + n + 1} PROVE ch_buf'[p] = 0
  BY <1>4, <1>8
<1>12. ch_buf' \in [0..(k + n + 1) -> Byte]
  <2>1. ASSUME NEW p \in 0..(k + n + 1) PROVE ch_buf'[p] \in Byte
    <3>1. p \in 0..(k - 1) \/ p \in k..(k + n - 1) \/ p \in {k + n, k + n + 1}
      BY <1>8
    <3>2. 0 \in Byte
      BY DEF Byte
    <3> QED BY <1>9, <1>10, <1>11, <3>1, <3>2
  <2>2. ch_buf' = [p \in 0..(k + n + 1) |-> ch_buf'[p]]
    BY <1>4
  <2> QED BY <2>1, <2>2
<1>13. Holds(ch_buf', 0, stream, taken + 1, k + n) /\ Holds(ch_buf', 0, stream, taken + 1, k)
  <2>1. ASSUME NEW p \in 0..(k + n - 1) PROVE ch_buf'[0 + p] = stream[taken + 1 + p]
    <3>1. 0 + p = p /\ (p \in 0..(k - 1) \/ p \in k..(k + n - 1))
      BY <1>8
    <3> QED BY <1>9, <1>10, <3>1
  <2>2. \A p \in 0..(k - 1) : ch_buf'[0 + p] = stream[taken + 1 + p]
    <3>1. \A p \in 0..(k - 1) : p \in 0..(k + n - 1)
      BY <1>5
    <3> QED BY <2>1, <3>1
  <2>3. Holds(ch_buf', 0, stream, taken + 1, k + n)
    <3>1. (k + n) - 1 = k + n - 1
      BY <1>5
    <3>2. \A p \in 0..((k + n) - 1) : ch_buf'[0 + p] = stream[taken + 1 + p]
      BY <2>1, <3>1, Zenon
    <3> QED BY <3>2, Zenon DEF Holds
  <2>4. Holds(ch_buf', 0, stream, taken + 1, k)
    BY <2>2, Zenon DEF Holds
  <2> QED BY <2>3, <2>4
<1>14. Content(ch_buf', stream, taken + 1, k + n)
  BY <1>11, <1>12, <1>13 DEF Content
<1>15. InBuffer(ch_buf)'
  BY <1>4, <1>6, <1>14 DEF InBuffer
<1> QED BY <1>1, <1>2, <1>4, <1>5, <1>6, <1>7, <1>13, <1>15 DEF k, length

\* The scanner goes on with the bytes read.
LEMMA ReadMoreStep == ASSUME ScanInv, ReadMore PROVE ScanInv' /\ UNCHANGED rulesVars
<1> DEFINE k == NumberToMove
           i == taken + 1
<1>1. /\ pc = "fill" /\ pc' = "match"
      /\ cp' = k /\ c_buf_p' = k
      /\ dfa' \in yy_get_previous_state(ch_buf', 0, k)
      /\ \E n \in 1..YY_READ_BUF_SIZE :
            n <= NumToRead /\ n <= Len(stream) - nread /\ Filled(n)
      /\ buffer_status # "EOF_PENDING"
  BY DEF ReadMore
<1>2. /\ stream' = stream /\ taken' = taken /\ token' = token /\ ended' = ended
      /\ buffer_status' = buffer_status
      /\ hold_char' = hold_char /\ leng' = leng /\ act' = act
  BY DEF ReadMore, rulesVars
<1>3. PICK n \in 1..YY_READ_BUF_SIZE :
            n <= NumToRead /\ n <= Len(stream) - nread /\ Filled(n)
  BY <1>1
<1>4. n \in Nat /\ n >= 1
  BY ScannerAssumption
<1>5. k + n < buf_size
  <2>1. buf_size \in Nat /\ k \in Nat
    BY <1>1, Numbers DEF ScanInv, Shape, AtFill
  <2> QED BY <1>3, <1>4, <2>1 DEF NumToRead
<1>6. /\ k \in Nat /\ nread' = nread + n /\ nread' \in 0..Len(stream)
      /\ n_chars' = k + n /\ n_chars' \in Nat /\ n_chars' <= nread'
      /\ buf_size' = buf_size /\ buf_size \in Nat /\ text' = 0 /\ bp' = 0
      /\ TokenAt(bp)' /\ InBuffer(ch_buf)'
      /\ Holds(ch_buf', 0, stream, i, k)
      /\ taken + k = nread /\ taken \in Nat
      /\ \E q : q # JAM /\ Reads(q, stream, i, k)
  BY <1>1, <1>2, <1>3, <1>4, <1>5, FilledHolds
<1>7. /\ stream \in Seq(Byte) /\ Len(stream) \in Nat /\ nread \in 0..Len(stream) /\ dfa \in Dfa
      /\ i \in Nat \ {0} /\ i \in Nat
  BY Numbers
<1>8. i + k - 1 <= Len(stream) /\ 0 + k = k
  <2> DEFINE length == Len(stream)
  <2>1. length \in Nat /\ nread \in 0..length
    BY <1>7
  <2> HIDE DEF length, k
  <2>2. i + k - 1 <= length /\ 0 + k = k
    BY <1>6, <2>1
  <2> QED BY <2>2 DEF length
<1> HIDE DEF k, i
<1>9. Running(dfa', stream, i, k, 0)
  <2>1. dfa' \in yy_get_previous_state(ch_buf', 0, 0 + k)
    BY <1>1, <1>8
  <2> QED BY <1>6, <1>7, <1>8, <2>1, PreviousRuns
<1>10. dfa'.state # JAM /\ dfa' \in Dfa
  <2>1. Reads(dfa'.state, stream, i, k) /\ dfa' \in Dfa
    BY <1>9 DEF Running
  <2>2. ~Dead(stream, i, k)
    BY <1>6, <1>7, DeadReadsNothing
  <2> QED BY <2>1, <2>2 DEF Reads, JAM
<1>11. cp' \in bp'..(n_chars' + 1) /\ cp' <= n_chars' /\ cp' - bp' = k /\ cp' \in 0..(n_chars' + 2)
  BY <1>1, <1>4, <1>6
<1>12. AtMatch'
  <2>1. Running(dfa', stream', taken' + 1, cp' - bp', bp')
    BY <1>2, <1>6, <1>9, <1>11 DEF i
  <2> QED BY <1>6, <1>10, <1>11, <2>1 DEF AtMatch
<1>13. Shape'
  <2>1. ch_buf' \in [0..(n_chars' + 1) -> Byte]
    BY <1>6 DEF InBuffer, Content
  <2>2. {c_buf_p', text', bp'} \subseteq 0..(n_chars' + 2)
    BY <1>1, <1>6, <1>11
  <2>3. dfa'.state \in 0..JAM
    BY <1>10 DEF Dfa
  <2>4. nread' \in 0..Len(stream') /\ taken' \in 0..Len(stream') /\ n_chars' < buf_size'
    BY <1>2, <1>5, <1>6, Numbers
  <2>5. TypeOK'
    BY <1>1, <1>2, <1>11, <2>1, <2>2, <2>3, <2>4 DEF ScanInv, Shape, TypeOK
  <2> QED BY <1>1, <1>2, <1>6, <1>10, <2>4, <2>5 DEF ScanInv, Shape
<1> QED BY <1>1, <1>2, <1>12, <1>13 DEF ScanInv, rulesVars

\* The stream is at its end.
LEMMA AllRead ==
    ASSUME ScanInv, NothingRead, stream' = stream, taken' = taken
    PROVE  /\ pc = "fill" /\ nread = Len(stream)
           /\ NumberToMove + 0 < buf_size
           /\ 0 \in Nat /\ 0 <= Len(stream) - nread /\ Filled(0)
<1>1. pc = "fill" /\ nread = Len(stream) /\ Filled(0)
  BY DEF NothingRead, ScanInv, Shape
<1>2. NumberToMove \in 0..n_chars /\ n_chars < buf_size /\ n_chars \in Nat /\ buf_size \in Nat
  BY <1>1 DEF ScanInv, Shape, AtFill
<1>3. Len(stream) \in Nat
  BY Numbers
<1> QED BY <1>1, <1>2, <1>3

\* What a last Filled leaves of the shape.
LEMMA AllReadShape ==
    ASSUME ScanInv, NothingRead, UNCHANGED rulesVars,
           c_buf_p' = NumberToMove, dfa' \in Dfa,
           cp' = NumberToMove \/ act' = YY_STATE_EOF,
           hold_char' \in Byte,
           buffer_status' \in {"NEW", "EOF_PENDING"}, pc' \in {"find", "action"}
    PROVE  Shape'
<1>1. stream' = stream /\ taken' = taken /\ ended' = ended
  BY DEF rulesVars
<1>2. /\ pc = "fill" /\ nread = Len(stream)
      /\ NumberToMove + 0 < buf_size
      /\ 0 \in Nat /\ 0 <= Len(stream) - nread /\ Filled(0)
  BY <1>1, AllRead
<1>3. /\ NumberToMove \in Nat /\ nread' = nread + 0 /\ nread' \in 0..Len(stream)
      /\ n_chars' = NumberToMove + 0 /\ n_chars' \in Nat /\ n_chars' <= nread'
      /\ buf_size' = buf_size /\ buf_size \in Nat /\ text' = 0 /\ bp' = 0
      /\ InBuffer(ch_buf)'
  BY <1>1, <1>2, FilledHolds
<1>4. nread \in 0..Len(stream) /\ Len(stream) \in Nat
  BY Numbers
<1>5. ch_buf' \in [0..(n_chars' + 1) -> Byte]
  BY <1>3 DEF InBuffer, Content
<1>6. /\ {c_buf_p', text', bp'} \subseteq 0..(n_chars' + 2)
      /\ cp' \in 0..(n_chars' + 2) \/ act' = YY_STATE_EOF
      /\ n_chars' < buf_size'
  BY <1>2, <1>3
<1>7. nread' = Len(stream') /\ nread' \in 0..Len(stream') /\ taken' \in 0..Len(stream')
  BY <1>1, <1>2, <1>3, <1>4, Numbers
<1>8. dfa'.state \in 0..JAM
  BY DEF Dfa
<1>9. TypeOK'
  BY <1>5, <1>6, <1>7, <1>8 DEF TypeOK
<1>10. ended' = "no" /\ stream' \in Seq(Byte)
  BY <1>1, <1>2 DEF ScanInv, Shape
<1> QED BY <1>3, <1>6, <1>7, <1>9, <1>10 DEF Shape

\* No text is left.
LEMMA EndOfStreamStep == ASSUME ScanInv, EndOfStream PROVE ScanInv' /\ UNCHANGED rulesVars
<1>1. /\ NothingRead /\ NumberToMove = 0 /\ act' = YY_STATE_EOF /\ pc' = "action"
      /\ buffer_status' = "NEW" /\ c_buf_p' = 0 /\ hold_char' = 0
      /\ UNCHANGED rulesVars
  BY DEF EndOfStream, yyrestart
<1>2. dfa' = dfa /\ dfa \in Dfa
  BY Numbers DEF EndOfStream
<1>3. stream' = stream /\ taken' = taken
  BY <1>1 DEF rulesVars
<1>4. Shape'
  BY <1>1, <1>2, AllReadShape DEF Byte
<1>5. taken' = Len(stream')
  <2>1. pc = "fill" /\ nread = Len(stream)
    BY <1>1, <1>3, AllRead
  <2>2. taken + NumberToMove = nread
    BY <2>1 DEF ScanInv, AtFill
  <2>3. taken \in Nat
    BY Numbers
  <2> QED BY <1>1, <1>3, <2>1, <2>2, <2>3
<1> QED BY <1>1, <1>4, <1>5 DEF ScanInv, AtAction

\* The text before the end of the stream is matched as it is.
LEMMA LastMatchStep == ASSUME ScanInv, LastMatch PROVE ScanInv' /\ UNCHANGED rulesVars
<1> DEFINE k == NumberToMove
           i == taken + 1
<1>1. /\ NothingRead /\ k > 0 /\ pc' = "find" /\ buffer_status' = "EOF_PENDING"
      /\ c_buf_p' = k /\ cp' = k
      /\ dfa' \in yy_get_previous_state(ch_buf', 0, k)
      /\ UNCHANGED rulesVars /\ hold_char' = hold_char
  BY DEF LastMatch
<1>2. stream' = stream /\ taken' = taken
  BY <1>1 DEF rulesVars
<1>3. /\ pc = "fill" /\ nread = Len(stream)
      /\ k + 0 < buf_size
      /\ 0 \in Nat /\ 0 <= Len(stream) - nread /\ Filled(0)
  BY <1>1, <1>2, AllRead
<1>4. /\ k \in Nat /\ n_chars' = k + 0 /\ text' = 0 /\ bp' = 0
      /\ TokenAt(bp)' /\ InBuffer(ch_buf)'
      /\ Holds(ch_buf', 0, stream, i, k)
      /\ taken + k = nread /\ taken \in Nat
      /\ \E q : q # JAM /\ Reads(q, stream, i, k)
  BY <1>2, <1>3, FilledHolds
<1>5. /\ stream \in Seq(Byte) /\ Len(stream) \in Nat /\ dfa \in Dfa
      /\ i \in Nat \ {0} /\ i \in Nat
  BY Numbers
<1>6. /\ i + k - 1 <= Len(stream) /\ 0 + k = k /\ n_chars' = k /\ k # 0
      /\ \A m \in Nat : m > k => ~(i + m - 1 <= Len(stream))
  <2> DEFINE length == Len(stream)
  <2>1. length \in Nat /\ taken + k = length
    BY <1>3, <1>4, <1>5
  <2> HIDE DEF length, k
  <2>2. /\ i + k - 1 <= length /\ 0 + k = k
        /\ \A m \in Nat : m > k => ~(i + m - 1 <= length)
    BY <1>4, <2>1
  <2> QED BY <1>1, <1>4, <2>2 DEF length
<1> HIDE DEF k, i
<1>7. Running(dfa', stream, i, k, 0)
  <2>1. dfa' \in yy_get_previous_state(ch_buf', 0, 0 + k)
    BY <1>1, <1>6
  <2> QED BY <1>4, <1>5, <1>6, <2>1, PreviousRuns
<1> DEFINE q == dfa'.state
<1>8. q # JAM /\ dfa' \in Dfa
  <2>1. Reads(q, stream, i, k) /\ dfa' \in Dfa
    BY <1>7 DEF Running
  <2>2. ~Dead(stream, i, k)
    BY <1>4, <1>5, DeadReadsNothing
  <2> QED BY <2>1, <2>2 DEF Reads, JAM
<1>9. /\ yy_accept[q] # 0 => Best(q, 0 + k, stream, i, 0)
      /\ yy_accept[q] = 0 => dfa'.lastPos <= 0 + k /\ Best(dfa'.last, dfa'.lastPos, stream, i, 0)
  BY <1>4, <1>5, <1>6, <1>7, <1>8, BestOf
<1>10. Found(BackUp(dfa', cp')[1], BackUp(dfa', cp')[2], ch_buf', n_chars', stream', taken' + 1, bp')
  <2> HIDE DEF q
  <2>1. CASE yy_accept[q] # 0
    <3>1. BackUp(dfa', cp') = <<q, k>>
      BY <1>1, <2>1 DEF BackUp, q
    <3>2. Best(q, k, stream, i, 0) /\ k <= n_chars'
      BY <1>4, <1>6, <1>9, <2>1
    <3> QED BY <1>2, <1>4, <3>1, <3>2 DEF Found, i
  <2>2. CASE yy_accept[q] = 0
    <3>1. BackUp(dfa', cp') = <<dfa'.last, dfa'.lastPos>>
      BY <2>2 DEF BackUp, q
    <3>2. Best(dfa'.last, dfa'.lastPos, stream, i, 0) /\ dfa'.lastPos <= n_chars'
      BY <1>6, <1>9, <2>2
    <3> QED BY <1>2, <1>4, <3>1, <3>2 DEF Found, i
  <2> QED BY <2>1, <2>2
<1>11. AtFind'
  BY <1>4, <1>10 DEF AtFind
<1>12. Shape'
  <2>1. hold_char \in Byte
    BY DEF ScanInv, Shape
  <2> QED BY <1>1, <1>8, <2>1, AllReadShape DEF k
<1> QED BY <1>1, <1>11, <1>12 DEF ScanInv

\* A read that fails ends the process.
LEMMA ReadFailsStep == ASSUME ScanInv, ReadFails PROVE ScanInv' /\ Broken
<1>1. pc = "fill" /\ pc' = "failed" /\ ended' = "failed"
  BY DEF ReadFails
<1>2. /\ stream' = stream /\ taken' = taken /\ token' = token /\ nread' = nread
      /\ n_chars' = n_chars /\ buf_size' = buf_size /\ buffer_status' = buffer_status
      /\ ch_buf' = ch_buf /\ c_buf_p' = c_buf_p /\ hold_char' = hold_char /\ text' = text
      /\ leng' = leng /\ dfa' = dfa /\ cp' = cp /\ bp' = bp /\ act' = act
  BY DEF ReadFails, buffer, position, local
<1>3. ended = "no"
  BY <1>1 DEF ScanInv, Shape
<1>4. TypeOK'
  BY <1>1, <1>2 DEF ScanInv, Shape, TypeOK
<1>5. Shape'
  BY <1>1, <1>2, <1>4 DEF ScanInv, Shape
<1> QED BY <1>1, <1>2, <1>3, <1>5 DEF ScanInv, Broken

\* A step in which nothing happens.
LEMMA StutterStep == ASSUME ScanInv, UNCHANGED vars PROVE ScanInv' /\ UNCHANGED rulesVars
<1>1. UNCHANGED rulesVars
  BY DEF vars
<1>2. /\ stream' = stream /\ taken' = taken /\ ended' = ended /\ nread' = nread
      /\ n_chars' = n_chars /\ buf_size' = buf_size /\ buffer_status' = buffer_status
      /\ ch_buf' = ch_buf /\ c_buf_p' = c_buf_p /\ hold_char' = hold_char /\ text' = text
      /\ leng' = leng /\ dfa' = dfa /\ cp' = cp /\ bp' = bp /\ act' = act /\ pc' = pc
  BY DEF vars, rulesVars, buffer, position, local
<1>3. TypeOK'
  BY <1>2 DEF ScanInv, Shape, TypeOK
<1>4. Shape'
  BY <1>2, <1>3 DEF ScanInv, Shape
<1>5. Base' = Base /\ NumberToMove' = NumberToMove
  BY <1>2 DEF Base, NumberToMove
<1>6. pc = "start" => AtStart'
  BY <1>2, <1>5 DEF ScanInv, AtStart, TokenAt, InBuffer
<1>7. pc = "match" => AtMatch'
  BY <1>2, <1>5 DEF ScanInv, AtMatch, TokenAt, InBuffer
<1>8. pc = "find" => AtFind'
  BY <1>2, <1>5 DEF ScanInv, AtFind, TokenAt, InBuffer
<1>9. pc = "action" => AtAction'
  BY <1>2, <1>5 DEF ScanInv, AtAction, TextFound, TokenAt, InBuffer
<1>10. pc = "fill" => AtFill'
  BY <1>2, <1>5 DEF ScanInv, AtFill
<1> QED BY <1>1, <1>2, <1>4, <1>6, <1>7, <1>8, <1>9, <1>10 DEF ScanInv

---------------------------------------------------------------------------
(* The theorems.                                                           *)

\* An empty buffer in front of the stream.
LEMMA InitInv == gdb_scanner => ScanInv
<1> SUFFICES ASSUME gdb_scanner PROVE ScanInv
  OBVIOUS
<1>1. /\ stream \in Streams /\ taken = 0 /\ ended = "no" /\ nread = 0 /\ leng = 0
      /\ dfa = [state |-> 0, last |-> 0, lastPos |-> 0] /\ cp = 0 /\ bp = 0 /\ act = 0
      /\ ch_buf = [p \in 0..1 |-> 0] /\ n_chars = 0 /\ buffer_status = "NEW"
      /\ buf_size = YY_BUF_SIZE /\ c_buf_p = 0 /\ text = 0 /\ hold_char = ch_buf[0]
      /\ pc = "start"
  BY DEF gdb_scanner, Init, yy_init_globals, yy_create_buffer, yy_init_buffer, EmptyBuffer,
         yy_load_buffer_state
<1>2. stream \in Seq(Byte) /\ Len(stream) \in Nat /\ 0 \in 0..Len(stream)
  <2>1. stream \in Seq(Byte)
    BY <1>1, ScannerAssumption
  <2>2. Len(stream) \in Nat
    BY <2>1, LenProperties
  <2> QED BY <2>1, <2>2
<1>3. /\ ch_buf \in [0..(n_chars + 1) -> Byte] /\ hold_char \in Byte /\ hold_char = 0
      /\ [ch_buf EXCEPT ![c_buf_p] = hold_char] = ch_buf
  BY <1>1 DEF Byte
<1>4. dfa \in Dfa /\ dfa.state \in 0..JAM
  BY <1>1 DEF Dfa, JAM
<1>5. TypeOK
  BY <1>1, <1>2, <1>3, <1>4 DEF TypeOK
<1>6. Shape
  BY <1>1, <1>2, <1>3, <1>4, <1>5, ScannerAssumption DEF Shape
<1>7. AtStart
  <2>1. Base = 0
    BY <1>1 DEF Base
  <2>2. Holds(ch_buf, 0, stream, Base + 1, n_chars)
    BY <1>1 DEF Holds
  <2>3. ch_buf[n_chars] = 0 /\ ch_buf[n_chars + 1] = 0
    BY <1>1
  <2>4. InBuffer([ch_buf EXCEPT ![c_buf_p] = hold_char])
    BY <1>3, <2>2, <2>3 DEF InBuffer, Content
  <2> QED BY <1>1, <2>1, <2>4 DEF AtStart, TokenAt
<1> QED BY <1>1, <1>6, <1>7 DEF ScanInv

\* Every step keeps the invariant, and is a step of the rules or none.
LEMMA StepInv == ScanInv /\ [ScannerNext]_vars => ScanInv' /\ [Next]_rulesVars
<1> SUFFICES ASSUME ScanInv, [ScannerNext]_vars PROVE ScanInv' /\ [Next]_rulesVars
  OBVIOUS
<1>1. CASE Start
  <2>1. UNCHANGED rulesVars
    BY <1>1 DEF Start
  <2> QED BY <1>1, <2>1, StartStep
<1>2. CASE Match
  <2>1. UNCHANGED rulesVars
    BY <1>2 DEF Match
  <2> QED BY <1>2, <2>1, MatchStep
<1>3. CASE FindAction
  <2>1. UNCHANGED rulesVars
    BY <1>3 DEF FindAction
  <2> QED BY <1>3, <2>1, FindActionStep
<1>4. CASE RuleAction
  BY <1>4, RuleActionStep DEF Next
<1>5. CASE EofAction
  BY <1>5, EofActionStep DEF Next
<1>6. CASE yylex_destroy
  BY <1>6, DestroyStep
<1>7. CASE RealNul
  BY <1>7, RealNulStep
<1>8. CASE EndOfBuffer
  BY <1>8, EndOfBufferStep
<1>9. CASE GrowBuffer
  BY <1>9, GrowBufferStep
<1>10. CASE ReadMore
  BY <1>10, ReadMoreStep
<1>11. CASE EndOfStream
  BY <1>11, EndOfStreamStep
<1>12. CASE LastMatch
  BY <1>12, LastMatchStep
<1>13. CASE ReadFails
  BY <1>13, ReadFailsStep DEF Next
<1>14. CASE UNCHANGED vars
  BY <1>14, StutterStep
<1> QED BY <1>1, <1>2, <1>3, <1>4, <1>5, <1>6, <1>7, <1>8, <1>9, <1>10, <1>11, <1>12, <1>13, <1>14
       DEF ScannerNext

\* What is true of the scanner between any two steps.
THEOREM ScannerInvariant == ScannerSpec => []ScanInv
<1>1. ScanInv /\ [ScannerNext]_vars => ScanInv'
  BY StepInv
<1> QED BY <1>1, InitInv, PTL DEF ScannerSpec

\* The types, for every stream and every buffer.
THEOREM ScannerTyped == ScannerSpec => []TypeOK
<1>1. ScanInv => TypeOK
  BY DEF ScanInv, Shape
<1> QED BY <1>1, ScannerInvariant, PTL

\* yy_get_next_buffer: what is read, and the end marks behind it, stay inside
\* the allocation, however the bytes arrive.
THEOREM BytesFitBuffer == ScannerSpec => []BufferFits
<1>1. ScanInv => BufferFits
  BY DEF ScanInv, Shape, BufferFits
<1> QED BY <1>1, ScannerInvariant, PTL

\* Neither of the two fatal errors of the generated code is ever reported: "end
\* of buffer missed" of yy_get_next_buffer, "no action found" of yylex.
THEOREM NoInternalErrors == ScannerSpec => []NoInternalError
<1>1. ASSUME ScanInv PROVE NoInternalError
  <2>1. pc # "internal"
    BY <1>1 DEF ScanInv, Shape
  <2>2. ASSUME pc = "action" PROVE act \in 1..YY_STATE_EOF
    <3>1. CASE act = YY_STATE_EOF
      BY <3>1 DEF YY_STATE_EOF, YY_END_OF_BUFFER
    <3>2. CASE act = YY_END_OF_BUFFER
      BY <3>2 DEF YY_STATE_EOF, YY_END_OF_BUFFER
    <3>3. CASE act # YY_STATE_EOF /\ act # YY_END_OF_BUFFER
      <4>1. TextFound
        BY <1>1, <2>2, <3>3 DEF ScanInv, AtAction
      <4>2. PICK q : act = yy_accept[q] /\ Best(q, c_buf_p, stream, taken + 1, text)
        BY <3>3, <4>1 DEF TextFound
      <4>3. /\ c_buf_p - text \in Nat /\ taken + 1 \in Nat
        BY <1>1, <4>1, Numbers DEF TextFound, TokenAt
      <4>4. Reads(q, stream, taken + 1, c_buf_p - text) /\ yy_accept[q] # 0
        BY <4>2 DEF Best
      <4>5. yy_accept[q] \in 1..5
        BY <4>3, <4>4, Accepted
      <4> QED BY <4>2, <4>5 DEF YY_STATE_EOF, YY_END_OF_BUFFER
    <3> QED BY <3>1, <3>2, <3>3
  <2> QED BY <2>1, <2>2 DEF NoInternalError
<1> QED BY <1>1, ScannerInvariant, PTL

\* scanner.c applies the rules of scanner.l: for every stream, every way to cut
\* it into reads, every buffer and every NUL among the bytes, each rule runs on
\* the longest text, the first rule of those that match it, and nothing is lost.
THEOREM FlexImplementsRules == ScannerSpec => ImplementsRules
<1>1. gdb_scanner => Init
  BY DEF gdb_scanner
<1>2. ScanInv /\ [ScannerNext]_vars => [Next]_rulesVars
  BY StepInv
<1> QED BY <1>1, <1>2, ScannerInvariant, PTL DEF ScannerSpec, ImplementsRules, Spec
=============================================================================
