-------------------------- MODULE DiagnosticsProofs --------------------------
(***************************************************************************)
(* Diagnostics: the stack of source locations is that of the accesses the  *)
(* thread at work is inside of, and no line of the trace is printed with   *)
(* the position of another thread, for any nesting and number of accesses; *)
(* the table of the debugged files is in order, and the search finds just  *)
(* the names that were asked for.                                          *)
(***************************************************************************)
EXTENDS Diagnostics, SequenceTheorems, FiniteSetTheorems, WellFoundedInduction, TLAPS

\* The accesses of a list that are still on the stack.
Left(list) == {i \in DOMAIN list : ~list[i].left}

\* Position k of the stack is that of the k-th such access.
Matches(list, positions) ==
    /\ Len(positions) = Cardinality(Left(list))
    /\ \A i \in Left(list) :
            /\ Rank(Left(list), i) \in 1..Len(positions)
            /\ positions[Rank(Left(list), i)] = list[i].place
    /\ \A k \in 1..Len(positions) : \E i \in Left(list) : Rank(Left(list), i) = k

Places == Threads \X Nat
Accesses == [place : Places, write : BOOLEAN, made : BOOLEAN, left : BOOLEAN]

---------------------------------------------------------------------------
(* Ranks, and what happens at the end of a list.                           *)

\* A larger element has the last rank and leaves the other ranks alone.
LEMMA RankAdd ==
    ASSUME NEW n \in Nat, NEW K \in SUBSET (1..n)
    PROVE  /\ Cardinality(K) \in Nat
           /\ Cardinality(K \cup {n + 1}) = Cardinality(K) + 1
           /\ Rank(K \cup {n + 1}, n + 1) = Cardinality(K) + 1
           /\ \A i \in K : /\ Rank(K \cup {n + 1}, i) = Rank(K, i)
                           /\ Rank(K, i) \in 1..Cardinality(K)
<1>1. IsFiniteSet(K) /\ Cardinality(K) \in Nat
  <2>1. IsFiniteSet(1..n)
    BY FS_Interval
  <2> QED BY <2>1, FS_Subset, FS_CardinalityType
<1>2. n + 1 \notin K
  OBVIOUS
<1>3. Cardinality(K \cup {n + 1}) = Cardinality(K) + 1
  BY <1>1, <1>2, FS_AddElement
<1>4. {j \in K \cup {n + 1} : j <= n + 1} = K \cup {n + 1}
  <2>1. \A j \in K \cup {n + 1} : j <= n + 1
    OBVIOUS
  <2> QED BY <2>1
<1>5. ASSUME NEW i \in K
      PROVE  Rank(K \cup {n + 1}, i) = Rank(K, i) /\ Rank(K, i) \in 1..Cardinality(K)
  <2> DEFINE R == {j \in K : j <= i}
  <2>1. {j \in K \cup {n + 1} : j <= i} = R
    OBVIOUS
  <2>2. R \in SUBSET K /\ i \in R
    OBVIOUS
  <2>3. IsFiniteSet(R) /\ Cardinality(R) \in Nat /\ Cardinality(R) <= Cardinality(K)
    BY <1>1, <2>2, FS_Subset, FS_CardinalityType
  <2>4. Cardinality(R) # 0
    BY <2>2, <2>3, FS_EmptySet
  <2>5. Rank(K \cup {n + 1}, i) = Cardinality(R) /\ Rank(K, i) = Cardinality(R)
    BY <2>1 DEF Rank
  <2> HIDE DEF R
  <2> QED BY <1>1, <2>3, <2>4, <2>5
<1> QED BY <1>1, <1>3, <1>4, <1>5 DEF Rank

\* The list without its last access.
LEMMA FrontOf ==
    ASSUME NEW S, NEW list \in Seq(S), list # <<>>
    PROVE  /\ Len(list) \in Nat \ {0}
           /\ Front(list) \in Seq(S)
           /\ Len(Front(list)) = Len(list) - 1
           /\ \A i \in 1..(Len(list) - 1) : Front(list)[i] = list[i]
<1>1. Len(list) \in Nat \ {0} /\ \A i \in 1..Len(list) : list[i] \in S
  BY EmptySeq, ElementOfSeq
<1>2. \A i \in 1..(Len(list) - 1) : list[i] \in S
  BY <1>1
<1>3. 1 \in Int /\ Len(list) - 1 \in Int /\ \A i \in 1..(Len(list) - 1) : list[i] \in S
  BY <1>1, <1>2
<1>4. /\ SubSeq(list, 1, Len(list) - 1) \in Seq(S)
      /\ Len(SubSeq(list, 1, Len(list) - 1))
            = IF 1 <= Len(list) - 1 THEN Len(list) - 1 - 1 + 1 ELSE 0
      /\ \A i \in 1..(Len(list) - 1 - 1 + 1) :
            SubSeq(list, 1, Len(list) - 1)[i] = list[1 + i - 1]
  BY <1>3, SubSeqProperties
<1> DEFINE n == Len(list)
           front == SubSeq(list, 1, Len(list) - 1)
<1>5. n \in Nat \ {0} /\ front = Front(list) /\ front \in Seq(S)
      /\ Len(front) = (IF 1 <= n - 1 THEN n - 1 - 1 + 1 ELSE 0)
      /\ \A i \in 1..(n - 1 - 1 + 1) : front[i] = list[1 + i - 1]
  BY <1>1, <1>4 DEF Front
<1> HIDE DEF n, front
<1>6. Len(front) = n - 1
  BY <1>5
<1>7. ASSUME NEW i \in 1..(n - 1) PROVE front[i] = list[i]
  <2>1. i \in 1..(n - 1 - 1 + 1) /\ 1 + i - 1 = i
    BY <1>5
  <2> QED BY <1>5, <2>1
<1> QED BY <1>5, <1>6, <1>7 DEF n

\* Nothing is on the stack of a thread that is inside of no access.
LEMMA MatchesEmpty ==
    ASSUME NEW S, NEW positions \in Seq(S)
    PROVE  Matches(<<>>, positions) <=> positions = <<>>
<1>1. Left(<<>>) = {} /\ Cardinality({}) = 0
  BY FS_EmptySet DEF Left
<1>2. Len(positions) = 0 <=> positions = <<>>
  BY EmptySeq
<1>3. 1..0 = {}
  OBVIOUS
<1> QED BY <1>1, <1>2, <1>3, Zenon DEF Matches

\* Matches, where only the last access of the list may differ: the first n - 1
\* are those of front.
LEMMA LeftLast ==
    ASSUME NEW S, NEW list \in Seq(S), NEW front \in Seq(S),
           Len(list) = Len(front) + 1,
           \A i \in 1..Len(front) : list[i] = front[i]
    PROVE  /\ Len(front) \in Nat
           /\ Left(front) \in SUBSET (1..Len(front))
           /\ Left(list) = IF list[Len(front) + 1].left THEN Left(front)
                           ELSE Left(front) \cup {Len(front) + 1}
<1>1. /\ Len(front) \in Nat /\ DOMAIN front = 1..Len(front)
      /\ DOMAIN list = 1..(Len(front) + 1)
  BY LenProperties
<1>2. 1..(Len(front) + 1) = 1..Len(front) \cup {Len(front) + 1}
  BY <1>1
<1> QED BY <1>1, <1>2 DEF Left

\* An access whose position is off the stack, behind the others or not.
LEMMA MatchesHidden ==
    ASSUME NEW S, NEW list \in Seq(S), NEW front \in Seq(S), NEW positions,
           Len(list) = Len(front) + 1,
           \A i \in 1..Len(front) : list[i] = front[i],
           list[Len(front) + 1].left
    PROVE  Matches(list, positions) <=> Matches(front, positions)
<1>1. Left(list) = Left(front) /\ Left(front) \subseteq 1..Len(front)
  BY LeftLast
<1>2. \A i \in Left(front) : list[i] = front[i]
  BY <1>1
<1> QED BY <1>1, <1>2 DEF Matches

\* An access whose position is on the stack: on top of it.
LEMMA MatchesShown ==
    ASSUME NEW S, NEW list \in Seq(S), NEW front \in Seq(S),
           NEW P, NEW positions \in Seq(P), NEW top1 \in P, NEW place \in P,
           Len(list) = Len(front) + 1,
           \A i \in 1..Len(front) : list[i] = front[i],
           ~list[Len(front) + 1].left, list[Len(front) + 1].place = place
    PROVE  Matches(list, Append(positions, top1))
                <=> Matches(front, positions) /\ top1 = place
<1> DEFINE n == Len(front)
           K == Left(front)
           L == Left(list)
           m == Len(positions)
           longer == Append(positions, top1)
<1>1. n \in Nat /\ K \in SUBSET (1..n) /\ L = K \cup {n + 1}
  BY LeftLast
<1>2. /\ m \in Nat /\ Len(longer) = m + 1 /\ longer[m + 1] = top1
      /\ \A k \in 1..m : longer[k] = positions[k]
  BY AppendProperties, LenProperties
<1>3. \A i \in K : list[i] = front[i]
  BY <1>1
<1>4. list[n + 1].place = place
  OBVIOUS
<1> HIDE DEF n, K, L, m, longer
<1>5. /\ Cardinality(K) \in Nat /\ Cardinality(L) = Cardinality(K) + 1
      /\ Rank(L, n + 1) = Cardinality(K) + 1
      /\ \A i \in K : Rank(L, i) = Rank(K, i) /\ Rank(K, i) \in 1..Cardinality(K)
  BY <1>1, RankAdd
<1>6. ASSUME m + 1 = Cardinality(L),
             \A i \in L : Rank(L, i) \in 1..(m + 1) /\ longer[Rank(L, i)] = list[i].place,
             \A k \in 1..(m + 1) : \E i \in L : Rank(L, i) = k
      PROVE  /\ m = Cardinality(K) /\ top1 = place
             /\ \A i \in K : Rank(K, i) \in 1..m /\ positions[Rank(K, i)] = front[i].place
             /\ \A k \in 1..m : \E i \in K : Rank(K, i) = k
  <2>1. m = Cardinality(K)
    BY <1>2, <1>5, <1>6
  <2>2. top1 = place
    BY <1>1, <1>2, <1>4, <1>5, <1>6, <2>1
  <2>3. \A i \in K : Rank(K, i) \in 1..m /\ positions[Rank(K, i)] = front[i].place
    BY <1>1, <1>2, <1>3, <1>5, <1>6, <2>1
  <2>4. \A k \in 1..m : \E i \in K : Rank(K, i) = k
    <3> TAKE k \in 1..m
    <3>1. PICK i \in L : Rank(L, i) = k
      BY <1>2, <1>6
    <3>2. i # n + 1
      BY <1>2, <1>5, <2>1, <3>1
    <3> QED BY <1>1, <1>5, <3>1, <3>2
  <2> QED BY <2>1, <2>2, <2>3, <2>4
<1>7. ASSUME m = Cardinality(K), top1 = place,
             \A i \in K : Rank(K, i) \in 1..m /\ positions[Rank(K, i)] = front[i].place,
             \A k \in 1..m : \E i \in K : Rank(K, i) = k
      PROVE  /\ m + 1 = Cardinality(L)
             /\ \A i \in L : Rank(L, i) \in 1..(m + 1) /\ longer[Rank(L, i)] = list[i].place
             /\ \A k \in 1..(m + 1) : \E i \in L : Rank(L, i) = k
  <2>1. \A i \in K : Rank(L, i) \in 1..(m + 1) /\ longer[Rank(L, i)] = list[i].place
    BY <1>2, <1>3, <1>5, <1>7
  <2>2. Rank(L, n + 1) = m + 1 /\ longer[m + 1] = list[n + 1].place
    BY <1>2, <1>4, <1>5, <1>7
  <2>3. \A k \in 1..(m + 1) : \E i \in L : Rank(L, i) = k
    <3> TAKE k \in 1..(m + 1)
    <3>1. CASE k = m + 1
      BY <1>1, <2>2, <3>1
    <3>2. CASE k \in 1..m
      BY <1>1, <1>5, <1>7, <3>2
    <3> QED BY <1>2, <3>1, <3>2
  <2>4. m + 1 = Cardinality(L) /\ m + 1 \in 1..(m + 1)
    BY <1>2, <1>5, <1>7
  <2>5. \A i \in L : Rank(L, i) \in 1..(m + 1) /\ longer[Rank(L, i)] = list[i].place
    BY <1>1, <2>1, <2>2, <2>4, Zenon
  <2> QED BY <2>3, <2>4, <2>5
<1> QED BY <1>2, <1>6, <1>7 DEF Matches, K, L, m, longer

\* A stack is what is below its top, and its top.
LEMMA StackSplit ==
    ASSUME NEW P, NEW positions \in Seq(P), positions # <<>>
    PROVE  /\ Len(positions) \in Nat \ {0}
           /\ positions[Len(positions)] \in P
           /\ SubSeq(positions, 1, Len(positions) - 1) \in Seq(P)
           /\ Len(SubSeq(positions, 1, Len(positions) - 1)) = Len(positions) - 1
           /\ positions = Append(SubSeq(positions, 1, Len(positions) - 1), positions[Len(positions)])
<1> DEFINE n == Len(positions)
           below == SubSeq(positions, 1, Len(positions) - 1)
           top1 == positions[Len(positions)]
<1>1. /\ n \in Nat \ {0} /\ below \in Seq(P) /\ Len(below) = n - 1
      /\ \A i \in 1..(n - 1) : below[i] = positions[i]
  BY FrontOf DEF Front
<1>2. top1 \in P
  BY <1>1, ElementOfSeq
<1>3. /\ Append(below, top1) \in Seq(P) /\ Len(Append(below, top1)) = Len(below) + 1
      /\ \A i \in 1..Len(below) : Append(below, top1)[i] = below[i]
      /\ Append(below, top1)[Len(below) + 1] = top1
  BY <1>1, <1>2, AppendProperties
<1>4. top1 = positions[n]
  OBVIOUS
<1>5. Append(below, top1) = positions
  <2> DEFINE whole == Append(below, top1)
  <2> HIDE DEF whole, n, below, top1
  <2>1. Len(whole) = n /\ Len(whole) = Len(positions)
    BY <1>1, <1>3 DEF whole, n
  <2>2. \A i \in 1..n : whole[i] = positions[i]
    BY <1>1, <1>3, <1>4 DEF whole
  <2>3. whole \in Seq(P)
    BY <1>3 DEF whole
  <2> QED BY <2>1, <2>2, <2>3, SeqEqual DEF whole
<1> QED BY <1>1, <1>2, <1>5

---------------------------------------------------------------------------
(* The accesses of a thread.                                               *)

\* The accesses thread t is inside of: their positions are its own and differ,
\* and one whose position is off already is a read that was not made.
Sound(t, list, count) ==
    /\ \A i \in 1..Len(list) :
            /\ list[i].place[1] = t /\ list[i].place[2] < count
            /\ list[i].left => ~list[i].write /\ ~list[i].made
    /\ \A i, j \in 1..Len(list) : i < j => list[i].place # list[j].place

OpenInv ==
    /\ main \in {"options", "create", "run", "exit"}
    /\ lock \in Threads \cup {"free"}
    /\ main # "run" => lock = "free"
    /\ enabled \in BOOLEAN
    /\ ~enabled => lock = "gdb"
    /\ accesses \in 0..MaxAccesses
    /\ open \in [Threads -> Seq(Accesses)]
    /\ \A t \in Threads : /\ t # AtWork => open[t] = <<>>
                          /\ Len(open[t]) <= MaxNesting
                          /\ Sound(t, open[t], accesses)

StackInv ==
    /\ stack \in Seq(Places)
    /\ top = Len(stack) - 1
    /\ IF AtWork \in Threads /\ enabled
       THEN Matches(open[AtWork], stack)
       ELSE stack = <<>>

DiagInv == OpenInv /\ StackInv

\* Only the thread at work accesses the core.
LEMMA WhoAccesses ==
    ASSUME OpenInv, NEW t \in Threads, MayAccess(t)
    PROVE  t = AtWork
BY DEF OpenInv, MayAccess, AtWork, Threads

\* What every step of a thread inside its accesses leaves alone.
Still == UNCHANGED <<main, lock, enabled>>

\* A thread changes its list and, with the trace on, the stack with it.
LEMMA ListChanges ==
    ASSUME DiagInv, NEW t \in Threads, MayAccess(t), Still,
           NEW list \in Seq(Accesses), open' = [open EXCEPT ![t] = list],
           accesses' \in 0..MaxAccesses, accesses <= accesses',
           Len(list) <= MaxNesting, Sound(t, list, accesses'),
           stack' \in Seq(Places), top' = Len(stack') - 1,
           IF enabled THEN Matches(list, stack') ELSE stack' = <<>>
    PROVE  DiagInv'
<1>1. t = AtWork /\ AtWork' = AtWork
  BY WhoAccesses DEF DiagInv, Still, AtWork
<1>2. open'[t] = list /\ \A u \in Threads \ {t} : open'[u] = open[u]
  BY DEF DiagInv, OpenInv
<1>3. open' \in [Threads -> Seq(Accesses)]
  BY <1>2 DEF DiagInv, OpenInv
<1>4. \A u \in Threads \ {t} : open'[u] = <<>>
  BY <1>1, <1>2 DEF DiagInv, OpenInv
<1>5. \A u \in Threads \ {t} : Sound(u, open'[u], accesses') /\ Len(open'[u]) <= MaxNesting
  <2>1. Len(<<>>) = 0
    BY EmptySeq
  <2> QED BY <1>4, <2>1, DiagnosticsAssumption DEF Sound
<1>6. OpenInv'
  BY <1>1, <1>2, <1>3, <1>4, <1>5 DEF OpenInv, Still, DiagInv
<1>7. StackInv'
  BY <1>1, <1>2 DEF StackInv, Still, DiagInv
<1> QED BY <1>6, <1>7 DEF DiagInv

\* trace_start_location: the position of the new access comes on top.
LEMMA StartStep ==
    ASSUME DiagInv, NEW t \in Threads, trace_start_location(t)
    PROVE  DiagInv'
<1> DEFINE list == open[t]
           place == <<t, accesses>>
<1>1. PICK write \in BOOLEAN :
        open' = [open EXCEPT ![t] = Append(@, [place |-> <<t, accesses>>, write |-> write,
                                               made |-> FALSE, left |-> FALSE])]
  BY DEF trace_start_location
<1> DEFINE access == [place |-> <<t, accesses>>, write |-> write, made |-> FALSE, left |-> FALSE]
           longer == Append(list, access)
<1>2. /\ MayAccess(t) /\ Still /\ accesses < MaxAccesses /\ accesses' = accesses + 1
      /\ accesses \in Nat /\ Len(list) < MaxNesting
      /\ IF enabled THEN top' = top + 1 /\ stack' = Append(stack, place)
         ELSE UNCHANGED <<top, stack>>
  BY DiagnosticsAssumption DEF trace_start_location, Still, command, DiagInv, OpenInv
<1>3. /\ place \in Places /\ access \in Accesses
      /\ list \in Seq(Accesses) /\ stack \in Seq(Places)
  BY <1>2 DEF DiagInv, OpenInv, StackInv, Accesses, Places
<1>4. /\ longer \in Seq(Accesses) /\ Len(longer) = Len(list) + 1
      /\ \A i \in 1..Len(list) : longer[i] = list[i]
      /\ longer[Len(list) + 1] = access
      /\ Len(list) \in Nat
  BY <1>3, AppendProperties, LenProperties
<1>5. open' = [open EXCEPT ![t] = longer]
  BY <1>1 DEF DiagInv, OpenInv
<1>6. /\ accesses' \in 0..MaxAccesses /\ accesses <= accesses' /\ Len(longer) <= MaxNesting
  BY <1>2, <1>4, DiagnosticsAssumption
<1>7. Sound(t, longer, accesses')
  <2> DEFINE n == Len(list)
  <2>1. access.place = <<t, accesses>> /\ ~access.left
    OBVIOUS
  <2>2. Sound(t, list, accesses) /\ n \in Nat
    BY <1>4 DEF DiagInv, OpenInv
  <2>3. \A i \in 1..n : list[i].place # <<t, accesses>>
    <3> TAKE i \in 1..n
    <3>1. list[i] \in Accesses
      BY <1>3, ElementOfSeq
    <3>2. list[i].place[2] < accesses
      BY <2>2 DEF Sound
    <3> QED BY <1>2, <3>1, <3>2 DEF Accesses, Places
  <2> HIDE DEF n, access, longer, list
  <2>4. \A i \in 1..(n + 1) : i \in 1..n \/ i = n + 1
    BY <2>2
  <2>5. \A i \in 1..n : longer[i] = list[i]
    BY <1>4 DEF n
  <2>6. longer[n + 1] = access /\ Len(longer) = n + 1
    BY <1>4 DEF n
  <2>7. \A i \in 1..n : /\ list[i].place[1] = t /\ list[i].place[2] < accesses
                        /\ list[i].left => ~list[i].write /\ ~list[i].made
    BY <2>2 DEF Sound, n
  <2>8. \A i, j \in 1..n : i < j => list[i].place # list[j].place
    BY <2>2 DEF Sound, n
  <2>9. \A i \in 1..n : list[i].place[2] < accesses'
    <3> TAKE i \in 1..n
    <3>1. list[i] \in Accesses
      BY <1>3, ElementOfSeq DEF n, list
    <3>2. list[i].place[2] \in Nat
      BY <3>1 DEF Accesses, Places
    <3> QED BY <1>2, <2>7, <3>2
  <2>10. access.place[1] = t /\ access.place[2] < accesses'
    BY <1>2, <2>1
  <2>11. \A i \in 1..(n + 1) : /\ longer[i].place[1] = t /\ longer[i].place[2] < accesses'
                               /\ longer[i].left => ~longer[i].write /\ ~longer[i].made
    BY <2>1, <2>4, <2>5, <2>6, <2>7, <2>9, <2>10
  <2>12. \A i, j \in 1..(n + 1) : i < j => longer[i].place # longer[j].place
    BY <2>1, <2>2, <2>3, <2>4, <2>5, <2>6, <2>8
  <2> QED BY <2>6, <2>11, <2>12 DEF Sound
<1>8. /\ stack' \in Seq(Places) /\ top' = Len(stack') - 1
      /\ IF enabled THEN Matches(longer, stack') ELSE stack' = <<>>
  <2>1. t = AtWork /\ StackInv
    BY <1>2, WhoAccesses DEF DiagInv
  <2>2. CASE enabled
    <3>1. Matches(list, stack)
      BY <2>1, <2>2 DEF StackInv
    <3>2. ~longer[Len(list) + 1].left /\ longer[Len(list) + 1].place = place
      BY <1>4
    <3>3. Matches(longer, Append(stack, place))
      <4> HIDE DEF list, longer, place, access
      <4> QED BY <1>3, <1>4, <3>1, <3>2, MatchesShown
    <3>4. /\ Append(stack, place) \in Seq(Places)
          /\ Len(Append(stack, place)) = Len(stack) + 1 /\ Len(stack) \in Nat
      BY <1>3, AppendProperties, LenProperties
    <3>5. top = Len(stack) - 1
      BY <2>1 DEF StackInv
    <3>6. top' = top + 1 /\ stack' = Append(stack, place)
      BY <1>2, <2>2
    <3> HIDE DEF list, longer, place, access
    <3>7. Len(stack') - 1 = top + 1
      BY <3>4, <3>5, <3>6
    <3> QED BY <2>2, <3>3, <3>4, <3>6, <3>7
  <2>3. CASE ~enabled
    BY <1>2, <2>1, <2>3 DEF StackInv
  <2> QED BY <2>2, <2>3
<1> QED BY <1>2, <1>4, <1>5, <1>6, <1>7, <1>8, ListChanges

\* While the innermost access has its position on the stack, it is on top, and
\* what is below matches the others.
LEMMA OnTop ==
    ASSUME NEW list \in Seq(Accesses), list # <<>>, NEW positions \in Seq(Places),
           Matches(list, positions), ~list[Len(list)].left
    PROVE  /\ positions # <<>>
           /\ positions[Len(positions)] = list[Len(list)].place
           /\ Matches(Front(list), SubSeq(positions, 1, Len(positions) - 1))
<1> DEFINE n == Len(list)
           inner == list[Len(list)]
           below == SubSeq(positions, 1, Len(positions) - 1)
           top1 == positions[Len(positions)]
           front == Front(list)
<1>1. /\ n \in Nat \ {0} /\ front \in Seq(Accesses) /\ Len(front) = n - 1
      /\ \A i \in 1..(n - 1) : front[i] = list[i]
      /\ DOMAIN list = 1..n
  BY FrontOf, LenProperties
<1>2. n \in Left(list)
  BY <1>1 DEF Left
<1>3. positions # <<>>
  <2>1. Rank(Left(list), n) \in 1..Len(positions)
    BY <1>2 DEF Matches
  <2>2. Len(<<>>) = 0
    BY EmptySeq
  <2> QED BY <2>1, <2>2
<1>4. /\ top1 \in Places /\ below \in Seq(Places) /\ positions = Append(below, top1)
  BY <1>3, StackSplit
<1>5. inner \in Accesses
  BY <1>1, ElementOfSeq
<1>6. inner.place \in Places /\ list[n] = inner
  BY <1>5 DEF Accesses
<1> HIDE DEF n, inner, below, top1, front
<1>7. /\ Len(list) = Len(front) + 1 /\ \A i \in 1..Len(front) : list[i] = front[i]
      /\ list[Len(front) + 1] = inner
  BY <1>1, <1>6 DEF n
<1>8. ~inner.left /\ Matches(list, Append(below, top1))
  BY <1>4 DEF inner
<1>9. Matches(front, below) /\ top1 = inner.place
  <2>1. front \in Seq(Accesses) /\ below \in Seq(Places) /\ top1 \in Places /\ inner.place \in Places
    BY <1>1, <1>4, <1>6
  <2>2. /\ Len(list) = Len(front) + 1 /\ \A i \in 1..Len(front) : list[i] = front[i]
        /\ ~list[Len(front) + 1].left /\ list[Len(front) + 1].place = inner.place
    BY <1>7, <1>8
  <2>3. Matches(list, Append(below, top1)) <=> Matches(front, below) /\ top1 = inner.place
    BY <2>1, <2>2, MatchesShown
  <2> QED BY <1>8, <2>3
<1> QED BY <1>3, <1>9 DEF n, inner, below, top1, front

\* Without its last access a list is still sound.
LEMMA SoundFront ==
    ASSUME NEW list \in Seq(Accesses), list # <<>>, NEW t, NEW count, Sound(t, list, count)
    PROVE  Sound(t, Front(list), count)
<1>1. /\ Len(list) \in Nat \ {0} /\ Len(Front(list)) = Len(list) - 1
      /\ \A i \in 1..(Len(list) - 1) : Front(list)[i] = list[i]
  BY FrontOf
<1> DEFINE n == Len(list)
           front == Front(list)
<1>2. /\ n \in Nat \ {0} /\ Len(front) = n - 1
      /\ \A i \in 1..(n - 1) : i \in 1..n /\ front[i] = list[i]
  BY <1>1
<1> HIDE DEF n, front
<1>3. \A i \in 1..n : /\ list[i].place[1] = t /\ list[i].place[2] < count
                      /\ list[i].left => ~list[i].write /\ ~list[i].made
  BY DEF Sound, n
<1>4. \A i, j \in 1..n : i < j => list[i].place # list[j].place
  BY DEF Sound, n
<1>5. Sound(t, front, count)
  BY <1>2, <1>3, <1>4 DEF Sound
<1> QED BY <1>5 DEF front

\* The innermost access is marked.
LEMMA SoundLast ==
    ASSUME NEW list \in Seq(Accesses), list # <<>>, NEW t, NEW count, Sound(t, list, count),
           NEW access \in Accesses, access.place = list[Len(list)].place,
           access.left => ~access.write /\ ~access.made,
           NEW marked, Len(marked) = Len(list), marked[Len(list)] = access,
           \A i \in 1..(Len(list) - 1) : marked[i] = list[i]
    PROVE  Sound(t, marked, count)
<1> DEFINE n == Len(list)
<1>1. n \in Nat \ {0}
  BY EmptySeq
<1>2. /\ Len(marked) = n /\ marked[n] = access
      /\ \A i \in 1..(n - 1) : marked[i] = list[i]
      /\ \A i \in 1..n : i \in 1..(n - 1) \/ i = n
  BY <1>1
<1>3. \A i \in 1..n : /\ list[i].place[1] = t /\ list[i].place[2] < count
                      /\ list[i].left => ~list[i].write /\ ~list[i].made
  BY DEF Sound
<1>4. \A i, j \in 1..n : i < j => list[i].place # list[j].place
  BY DEF Sound
<1>5. access.place = list[n].place
  OBVIOUS
<1> HIDE DEF n
<1>6. \A i \in 1..n : marked[i].place = list[i].place
  BY <1>2, <1>5
<1>7. \A i \in 1..n : marked[i].left => ~marked[i].write /\ ~marked[i].made
  BY <1>2, <1>3
<1> QED BY <1>2, <1>3, <1>4, <1>6, <1>7 DEF Sound

\* The list after Mark, whose stack is what the innermost access makes of it.
LEMMA MarkStep ==
    ASSUME DiagInv, NEW t \in Threads, MayAccess(t), Still, UNCHANGED accesses,
           open[t] # <<>>, NEW field, Mark(t, field),
           NEW access \in Accesses, access = [Inner(t) EXCEPT ![field] = TRUE],
           access.place = Inner(t).place,
           access.left /\ ~Over(access) => ~access.write,
           stack' \in Seq(Places), top' = Len(stack') - 1,
           enabled => /\ access.left => Matches(Front(open[t]), stack')
                      /\ ~access.left => /\ ~Inner(t).left
                                         /\ Matches(open[t], stack'),
           ~enabled => stack' = <<>>
    PROVE  DiagInv'
<1> DEFINE list == open[t]
           n == Len(list)
           front == Front(list)
           marked == [list EXCEPT ![n] = access]
           next == IF Over(access) THEN front ELSE marked
<1>1. /\ list \in Seq(Accesses) /\ list # <<>> /\ Sound(t, list, accesses)
      /\ n \in Nat /\ n <= MaxNesting /\ accesses \in 0..MaxAccesses
  BY LenProperties DEF DiagInv, OpenInv
<1>2. /\ n \in Nat \ {0} /\ front \in Seq(Accesses) /\ Len(front) = n - 1
      /\ \A i \in 1..(n - 1) : front[i] = list[i]
      /\ Sound(t, front, accesses)
  BY <1>1, FrontOf, SoundFront
<1>3. open' = [open EXCEPT ![t] = next]
  BY DEF Mark, DiagInv, OpenInv, Inner
<1>4. /\ Over(access) => access.left
      /\ access.left /\ ~Over(access) => ~access.made
  BY DEF Over, Accesses
<1>5. list[n] = Inner(t)
  BY DEF Inner
<1> HIDE DEF list, n, front, marked
<1>9. Len(front) + 1 = n /\ Len(front) = n - 1
  BY <1>2
<1>6. /\ ~Over(access) => /\ marked \in Seq(Accesses) /\ Len(marked) = n
                          /\ marked[n] = access
                          /\ \A i \in 1..(n - 1) : marked[i] = list[i]
                          /\ Sound(t, marked, accesses)
  <2> SUFFICES ASSUME ~Over(access)
               PROVE  /\ marked \in Seq(Accesses) /\ Len(marked) = n
                      /\ marked[n] = access
                      /\ \A i \in 1..(n - 1) : marked[i] = list[i]
                      /\ Sound(t, marked, accesses)
    OBVIOUS
  <2>1. access.place = list[Len(list)].place /\ (access.left => ~access.write /\ ~access.made)
    BY <1>4, <1>5 DEF n
  <2>2. n \in 1..Len(list)
    BY <1>2 DEF n
  <2>3. /\ marked \in Seq(Accesses) /\ Len(marked) = n
        /\ \A j \in 1..n : marked[j] = IF j = n THEN access ELSE list[j]
    BY <1>1, <2>2, ExceptSeq DEF n, marked
  <2>4. /\ marked[n] = access
        /\ \A i \in 1..(n - 1) : marked[i] = list[i]
    <3>1. n \in 1..n /\ \A i \in 1..(n - 1) : i \in 1..n /\ i # n
      BY <1>2
    <3> QED BY <2>3, <3>1, Zenon
  <2>5. Sound(t, marked, accesses)
    BY <1>1, <2>1, <2>3, <2>4, SoundLast DEF n
  <2> QED BY <2>3, <2>4, <2>5
<1>7. /\ next \in Seq(Accesses) /\ Len(next) <= MaxNesting /\ Sound(t, next, accesses)
  BY <1>1, <1>2, <1>6, DiagnosticsAssumption
<1>8. ASSUME enabled PROVE Matches(next, stack')
  <2>1. CASE Over(access)
    BY <1>4, <1>8, <2>1 DEF front, list
  <2>2. CASE ~Over(access) /\ access.left
    <3>1. Matches(front, stack')
      BY <1>8, <2>2 DEF front, list
    <3>2. /\ Len(marked) = Len(front) + 1
          /\ \A i \in 1..Len(front) : marked[i] = front[i]
          /\ marked[Len(front) + 1].left
      BY <1>2, <1>6, <1>9, <2>2
    <3>3. Matches(marked, stack')
      BY <1>2, <1>6, <2>2, <3>1, <3>2, MatchesHidden
    <3> QED BY <2>2, <3>3
  <2>3. CASE ~access.left
    <3>1. ~list[n].left /\ Matches(list, stack') /\ ~Over(access)
      BY <1>4, <1>5, <1>8, <2>3 DEF list
    <3> DEFINE below == SubSeq(stack', 1, Len(stack') - 1)
               top1 == stack'[Len(stack')]
    <3>2. /\ stack' # <<>> /\ top1 = access.place
          /\ Matches(front, below)
      BY <1>1, <1>5, <3>1, OnTop DEF n, front
    <3>3. top1 \in Places /\ below \in Seq(Places) /\ stack' = Append(below, top1)
      BY <3>2, StackSplit
    <3> HIDE DEF below, top1
    <3>4. /\ Len(marked) = Len(front) + 1
          /\ \A i \in 1..Len(front) : marked[i] = front[i]
          /\ ~marked[Len(front) + 1].left
          /\ marked[Len(front) + 1].place = top1
      BY <1>2, <1>6, <1>9, <2>3, <3>1, <3>2
    <3>5. front \in Seq(Accesses) /\ marked \in Seq(Accesses) /\ access.place \in Places
      <4>1. access.place \in Places
        BY <3>2, <3>3
      <4>2. front \in Seq(Accesses)
        BY <1>2
      <4>3. marked \in Seq(Accesses)
        BY <1>6, <3>1
      <4> QED BY <4>1, <4>2, <4>3
    <3>6. Matches(marked, Append(below, top1)) <=> Matches(front, below) /\ top1 = top1
      BY <3>3, <3>4, <3>5, MatchesShown
    <3>7. Matches(marked, Append(below, top1))
      BY <3>2, <3>6
    <3> QED BY <3>1, <3>3, <3>7
  <2> QED BY <2>1, <2>2, <2>3
<1> HIDE DEF next
<1>10. IF enabled THEN Matches(next, stack') ELSE stack' = <<>>
  BY <1>8
<1>11. accesses' \in 0..MaxAccesses /\ accesses <= accesses' /\ Sound(t, next, accesses')
  BY <1>1, <1>7, DiagnosticsAssumption
<1> QED BY <1>3, <1>7, <1>10, <1>11, ListChanges

\* The innermost access of a thread.
LEMMA InnerOf ==
    ASSUME DiagInv, NEW t \in Threads, open[t] # <<>>
    PROVE  /\ Inner(t) \in Accesses
           /\ open[t] \in Seq(Accesses) /\ Len(open[t]) \in Nat \ {0}
           /\ Inner(t).left => ~Inner(t).write /\ ~Inner(t).made
<1>1. open[t] \in Seq(Accesses) /\ Sound(t, open[t], accesses)
  BY DEF DiagInv, OpenInv
<1>2. Len(open[t]) \in Nat \ {0}
  BY <1>1, EmptySeq
<1>3. Len(open[t]) \in 1..Len(open[t])
  BY <1>2
<1> QED BY <1>1, <1>2, <1>3, ElementOfSeq DEF Inner, Sound

\* What a thread at work knows of the stack.
LEMMA StackOf ==
    ASSUME DiagInv, NEW t \in Threads, MayAccess(t)
    PROVE  /\ stack \in Seq(Places) /\ top = Len(stack) - 1 /\ Len(stack) \in Nat
           /\ enabled => Matches(open[t], stack)
           /\ ~enabled => stack = <<>>
<1>1. t = AtWork
  BY WhoAccesses DEF DiagInv
<1> QED BY <1>1, LenProperties DEF DiagInv, StackInv

\* An access with one of its marks set, field by field.
LEMMA MarkedAccess ==
    ASSUME NEW inner \in Accesses
    PROVE  /\ [inner EXCEPT !["left"] = TRUE] \in Accesses
           /\ [inner EXCEPT !["left"] = TRUE].place = inner.place
           /\ [inner EXCEPT !["left"] = TRUE].write = inner.write
           /\ [inner EXCEPT !["left"] = TRUE].made = inner.made
           /\ [inner EXCEPT !["left"] = TRUE].left = TRUE
           /\ [inner EXCEPT !["made"] = TRUE] \in Accesses
           /\ [inner EXCEPT !["made"] = TRUE].place = inner.place
           /\ [inner EXCEPT !["made"] = TRUE].made = TRUE
           /\ [inner EXCEPT !["made"] = TRUE].left = inner.left
BY DEF Accesses

\* trace_end_location: the position on top is that of the innermost access.
LEMMA EndStep ==
    ASSUME DiagInv, NEW t \in Threads, trace_end_location(t)
    PROVE  DiagInv'
<1> DEFINE inner == Inner(t)
           access == [inner EXCEPT !["left"] = TRUE]
<1>1. /\ MayAccess(t) /\ open[t] # <<>> /\ ~inner.left /\ (inner.write => inner.made)
      /\ Mark(t, "left") /\ UNCHANGED accesses /\ Still
      /\ IF enabled THEN top' = top - 1 /\ stack' = SubSeq(stack, 1, top)
         ELSE UNCHANGED <<top, stack>>
  BY DEF trace_end_location, Popped, command, Still
<1>2. inner \in Accesses
  BY <1>1, InnerOf
<1>3. /\ access \in Accesses /\ access.place = inner.place /\ access.left
      /\ access = [inner EXCEPT !["left"] = TRUE]
      /\ ~Over(access) => ~access.write
  BY <1>1, <1>2, MarkedAccess DEF Over
<1>4. /\ stack' \in Seq(Places) /\ top' = Len(stack') - 1
      /\ enabled => Matches(Front(open[t]), stack')
      /\ ~enabled => stack' = <<>>
  <2>1. CASE enabled
    <3>1. /\ Matches(open[t], stack) /\ stack \in Seq(Places) /\ top = Len(stack) - 1
          /\ open[t] \in Seq(Accesses)
      BY <1>1, <2>1, InnerOf, StackOf
    <3>2. ~open[t][Len(open[t])].left
      BY <1>1 DEF Inner
    <3>3. stack # <<>> /\ Matches(Front(open[t]), SubSeq(stack, 1, Len(stack) - 1))
      BY <1>1, <3>1, <3>2, OnTop
    <3>4. /\ SubSeq(stack, 1, Len(stack) - 1) \in Seq(Places)
          /\ Len(SubSeq(stack, 1, Len(stack) - 1)) = Len(stack) - 1
          /\ Len(stack) \in Nat \ {0}
      BY <3>1, <3>3, StackSplit
    <3>5. stack' = SubSeq(stack, 1, Len(stack) - 1) /\ top' = top - 1
      BY <1>1, <2>1, <3>1
    <3>6. Len(stack') = top
      BY <3>1, <3>4, <3>5
    <3> QED BY <2>1, <3>3, <3>4, <3>5, <3>6
  <2>2. CASE ~enabled
    BY <1>1, <2>2, StackOf
  <2> QED BY <2>1, <2>2
<1> HIDE DEF access
<1> QED BY <1>1, <1>3, <1>4, MarkStep

\* The access itself: the stack stays as it is.
LEMMA AccessStep ==
    ASSUME DiagInv, NEW t \in Threads, Access(t)
    PROVE  DiagInv'
<1> DEFINE inner == Inner(t)
           access == [inner EXCEPT !["made"] = TRUE]
<1>1. /\ MayAccess(t) /\ open[t] # <<>> /\ ~inner.made
      /\ Mark(t, "made") /\ UNCHANGED <<accesses, top, stack>> /\ Still
  BY DEF Access, command, location, Still
<1>2. inner \in Accesses
  BY <1>1, InnerOf
<1>3. /\ access \in Accesses /\ access.place = inner.place /\ access.left = inner.left
      /\ access = [inner EXCEPT !["made"] = TRUE]
      /\ access.left => Over(access)
  BY <1>2, MarkedAccess DEF Over
<1>4. /\ stack \in Seq(Places) /\ top = Len(stack) - 1
      /\ enabled => Matches(open[t], stack)
      /\ ~enabled => stack = <<>>
  BY <1>1, StackOf
<1>5. enabled /\ inner.left => Matches(Front(open[t]), stack)
  <2> SUFFICES ASSUME enabled, inner.left PROVE Matches(Front(open[t]), stack)
    OBVIOUS
  <2> DEFINE list == open[t]
             front == Front(list)
  <2>1. list \in Seq(Accesses) /\ list # <<>>
    BY <1>1, InnerOf
  <2>2. /\ Len(list) \in Nat \ {0} /\ front \in Seq(Accesses) /\ Len(front) = Len(list) - 1
        /\ \A i \in 1..(Len(list) - 1) : front[i] = list[i]
    BY <2>1, FrontOf
  <2>3. list[Len(list)].left
    BY DEF Inner
  <2> HIDE DEF list, front
  <2>4. Len(list) = Len(front) + 1
    BY <2>2
  <2>5. list[Len(front) + 1].left /\ \A i \in 1..Len(front) : list[i] = front[i]
    BY <2>2, <2>3, <2>4
  <2>6. Matches(list, stack) <=> Matches(front, stack)
    BY <2>1, <2>2, <2>4, <2>5, MatchesHidden
  <2> QED BY <1>4, <2>6 DEF list, front
<1> HIDE DEF access
<1> QED BY <1>1, <1>3, <1>4, <1>5, MarkStep

---------------------------------------------------------------------------
(* The options, the lock and the switch: nobody is inside an access.       *)

\* When the thread at work is inside no access, nothing is on the stack.
LEMMA NothingOpen ==
    ASSUME DiagInv, AtWork \in Threads => open[AtWork] = <<>>
    PROVE  stack = <<>> /\ top = -1 /\ \A t \in Threads : open[t] = <<>>
<1>1. stack = <<>>
  BY MatchesEmpty DEF DiagInv, StackInv
<1>2. Len(<<>>) = 0
  BY EmptySeq
<1> QED BY <1>1, <1>2 DEF DiagInv, OpenInv, StackInv

\* Every step of main, and of a thread that is between two accesses.
LEMMA OutsideStep ==
    ASSUME DiagInv,
           \/ trace_add \/ OptionDebug \/ OptionEnds \/ Initialise \/ CreateThreads
           \/ trace_disable \/ trace_enable \/ trace_arm_state
           \/ \E t \in Threads : Lock(t) \/ Unlock(t)
           \/ UNCHANGED vars
    PROVE  DiagInv'
<1>1. CASE UNCHANGED <<main, lock, enabled, open, accesses, top, stack>>
  BY <1>1 DEF DiagInv, OpenInv, StackInv, AtWork
<1>2. ASSUME AtWork \in Threads => open[AtWork] = <<>>,
             main' \in {"options", "create", "run", "exit"},
             lock' \in Threads \cup {"free"}, main' # "run" => lock' = "free",
             enabled' \in BOOLEAN, ~enabled' => lock' = "gdb",
             accesses' \in 0..MaxAccesses, UNCHANGED <<open, top, stack>>
      PROVE  DiagInv'
  <2>1. stack = <<>> /\ top = -1 /\ \A t \in Threads : open[t] = <<>>
    BY <1>2, NothingOpen
  <2>2. Len(<<>>) = 0 /\ <<>> \in Seq(Places)
    BY EmptySeq
  <2>3. \A t : Sound(t, <<>>, accesses')
    BY <2>2 DEF Sound
  <2>4. OpenInv'
    BY <1>2, <2>1, <2>2, <2>3, DiagnosticsAssumption DEF OpenInv, DiagInv
  <2>5. Matches(<<>>, <<>>)
    BY <2>2, MatchesEmpty
  <2>6. StackInv'
    BY <1>2, <2>1, <2>2, <2>5 DEF StackInv, OpenInv
  <2> QED BY <2>4, <2>6 DEF DiagInv
<1>3. CASE trace_add \/ OptionDebug \/ trace_arm_state \/ UNCHANGED vars
  BY <1>1, <1>3 DEF trace_add, OptionDebug, Option, trace_arm_state, location, threads, command, vars
<1>4. CASE OptionEnds \/ Initialise
  <2>1. /\ main = "options" /\ main' \in {"exit", "create"}
        /\ UNCHANGED <<lock, enabled, open, accesses, top, stack>>
    BY <1>4 DEF OptionEnds, Option, Initialise, location, threads
  <2>2. AtWork \notin Threads
    BY <2>1 DEF AtWork, DiagInv, OpenInv, Threads
  <2> QED BY <1>2, <2>1, <2>2 DEF DiagInv, OpenInv
<1>5. CASE CreateThreads
  BY <1>2, <1>5, DiagnosticsAssumption DEF CreateThreads, location, AtWork, DiagInv, OpenInv
<1>6. CASE trace_disable \/ trace_enable
  <2>1. /\ lock = "gdb" /\ open["gdb"] = <<>> /\ enabled' \in BOOLEAN
        /\ UNCHANGED <<main, lock, open, accesses, top, stack>>
    BY <1>6 DEF trace_disable, trace_enable, command, threads
  <2>2. AtWork = "gdb"
    BY <2>1 DEF AtWork, DiagInv, OpenInv
  <2> QED BY <1>2, <2>1, <2>2 DEF DiagInv, OpenInv
<1>7. CASE \E t \in Threads : Lock(t)
  <2>1. PICK t \in Threads : Lock(t)
    BY <1>7
  <2>2. /\ main = "run" /\ lock = "free" /\ lock' = t /\ accesses' = 0
        /\ UNCHANGED <<main, open, enabled, top, stack>>
    BY <2>1 DEF Lock, command, location
  <2>3. AtWork \notin Threads
    BY <2>2 DEF AtWork, Threads
  <2> QED BY <1>2, <2>2, <2>3, DiagnosticsAssumption DEF DiagInv, OpenInv
<1>8. CASE \E t \in Threads : Unlock(t)
  <2>1. PICK t \in Threads : Unlock(t)
    BY <1>8
  <2>2. /\ lock = t /\ open[t] = <<>> /\ enabled /\ lock' = "free"
        /\ UNCHANGED <<main, open, enabled, accesses, top, stack>>
    BY <2>1 DEF Unlock, command, location
  <2>3. AtWork = t
    BY <2>2 DEF AtWork, DiagInv, OpenInv, Threads
  <2> QED BY <1>2, <2>2, <2>3 DEF DiagInv, OpenInv
<1> QED BY <1>3, <1>4, <1>5, <1>6, <1>7, <1>8

\* DiagInv holds at first and is kept by every step.
LEMMA DiagInvariant == (Init => DiagInv) /\ (DiagInv /\ [Next]_vars => DiagInv')
<1>1. ASSUME Init PROVE DiagInv
  <2>1. Len(<<>>) = 0 /\ <<>> \in Seq(Places) /\ <<>> \in Seq(Accesses)
    BY EmptySeq
  <2>2. /\ main = "options" /\ lock = "free" /\ enabled = TRUE /\ accesses = 0
        /\ top = -1 /\ stack = <<>> /\ open = [t \in Threads |-> <<>>]
    BY <1>1 DEF Init
  <2>3. AtWork = "free" /\ "free" \notin Threads
    BY <2>2 DEF AtWork, Threads
  <2>4. \A t : Sound(t, <<>>, 0)
    BY <2>1 DEF Sound
  <2>5. OpenInv
    BY <2>1, <2>2, <2>4, DiagnosticsAssumption DEF OpenInv
  <2>6. StackInv
    BY <2>1, <2>2, <2>3 DEF StackInv
  <2> QED BY <2>5, <2>6 DEF DiagInv
<1>2. ASSUME DiagInv, [Next]_vars PROVE DiagInv'
  BY <1>2, OutsideStep, StartStep, EndStep, AccessStep DEF Next
<1> QED BY <1>1, <1>2

\* trace_start_location and trace_end_location: for any nesting of accesses, the
\* stack of positions is that of the accesses the thread at work is inside of
\* and has not taken off; it is empty whenever the lock is free.
THEOREM StackInStep == Spec => []StackMatches
<1>1. DiagInv => StackMatches
  <2> SUFFICES ASSUME DiagInv PROVE StackMatches
    OBVIOUS
  <2>1. stack \in Seq(Places) /\ top = Len(stack) - 1
    BY DEF DiagInv, StackInv
  <2>2. Len(stack) \in Nat /\ Len(<<>>) = 0
    BY <2>1, EmptySeq, LenProperties
  <2>3. top + 1 = Len(stack)
    BY <2>1, <2>2
  <2>4. CASE AtWork \in Threads /\ enabled
    <3>1. Matches(open[AtWork], stack) /\ Kept(AtWork) = Left(open[AtWork])
      BY <2>4 DEF DiagInv, StackInv, Kept, Left
    <3> QED BY <2>3, <2>4, <3>1 DEF StackMatches, Matches
  <2>5. CASE ~(AtWork \in Threads /\ enabled)
    BY <2>1, <2>2, <2>5 DEF StackMatches, DiagInv, StackInv
  <2> QED BY <2>4, <2>5
<1> QED BY <1>1, DiagInvariant, PTL DEF Spec

---------------------------------------------------------------------------
(* What is printed.                                                        *)

\* The places of a thread's accesses are positions, and differ.
LEMMA PlacesDiffer ==
    ASSUME DiagInv, NEW t \in Threads
    PROVE  /\ Len(open[t]) \in Nat
           /\ \A i \in 1..Len(open[t]) : open[t][i].place # Nowhere
           /\ \A i, j \in 1..Len(open[t]) : i < j => open[t][i].place # open[t][j].place
<1>1. /\ open[t] \in Seq(Accesses) /\ Sound(t, open[t], accesses)
      /\ accesses \in 0..MaxAccesses
  BY DEF DiagInv, OpenInv
<1>2. ASSUME NEW i \in 1..Len(open[t]) PROVE open[t][i].place # Nowhere
  <2>1. open[t][i] \in Accesses
    BY <1>1, ElementOfSeq
  <2>2. open[t][i].place \in Places /\ open[t][i].place[1] = t /\ open[t][i].place[2] < accesses
    BY <1>1, <2>1 DEF Accesses, Sound
  <2>3. PICK u \in Threads, k \in Nat : open[t][i].place = <<u, k>>
    BY <2>2 DEF Places
  <2>4. k \in 0..MaxAccesses
    BY <1>1, <2>2, <2>3, DiagnosticsAssumption
  <2> QED BY <2>3, <2>4, DiagnosticsAssumption
<1> QED BY <1>1, <1>2, LenProperties DEF Sound

\* trace_print_location: the position printed for a write is its own; for a read
\* it is its own, or that of the access it is an argument of, or none.
LEMMA WhoseIsKnown ==
    ASSUME DiagInv, NEW t \in Threads, MayAccess(t), enabled,
           open[t] # <<>>, ~Inner(t).made
    PROVE  Whose(t) \in {"own", "outer", "none"} /\ (Inner(t).write => Whose(t) = "own")
<1> DEFINE list == open[t]
           n == Len(list)
           inner == Inner(t)
           front == Front(list)
<1>1. /\ stack \in Seq(Places) /\ top = Len(stack) - 1 /\ Len(stack) \in Nat
      /\ Matches(list, stack)
  BY StackOf
<1>2. /\ list \in Seq(Accesses) /\ n \in Nat \ {0} /\ inner = list[n]
      /\ inner.left => ~inner.write
      /\ \A i \in 1..n : list[i].place # Nowhere
      /\ \A i, j \in 1..n : i < j => list[i].place # list[j].place
  BY InnerOf, PlacesDiffer DEF Inner
<1>3. \A i \in 1..(n - 1) : list[i].place # inner.place
  <2>1. n \in 1..n /\ \A i \in 1..(n - 1) : i \in 1..n /\ i < n
    BY <1>2
  <2> QED BY <1>2, <2>1
<1>4. inner.place # Nowhere
  <2>1. n \in 1..n
    BY <1>2
  <2> QED BY <1>2, <2>1
<1>5. Whose(t) = CASE Location = inner.place -> "own"
                   [] \E i \in 1..(n - 1) : Location = list[i].place -> "outer"
                   [] Location = Nowhere -> "none"
                   [] OTHER -> "other"
  BY DEF Whose
<1>6. CASE ~inner.left
  <2>1. stack # <<>> /\ stack[Len(stack)] = inner.place
    <3>1. ~list[n].left
      BY <1>2, <1>6
    <3> QED BY <1>1, <1>2, <3>1, OnTop
  <2>2. Len(stack) # 0
    BY <1>1, <2>1, EmptySeq
  <2>3. Location = inner.place
    BY <1>1, <2>1, <2>2 DEF Location
  <2> HIDE DEF inner, n, list
  <2>4. Whose(t) = "own"
    BY <1>3, <1>4, <1>5, <2>3
  <2> QED BY <2>4
<1>7. CASE inner.left /\ Len(stack) # 0
  <2>1. /\ front \in Seq(Accesses) /\ Len(front) = n - 1
        /\ \A i \in 1..(n - 1) : front[i] = list[i]
    BY <1>2, FrontOf
  <2>2. Len(front) + 1 = n
    BY <1>2, <2>1
  <2>3. list[Len(front) + 1].left /\ \A i \in 1..Len(front) : list[i] = front[i]
    BY <1>2, <1>7, <2>1, <2>2
  <2>4. Matches(front, stack)
    BY <1>1, <1>2, <2>1, <2>2, <2>3, MatchesHidden
  <2>5. Len(stack) \in 1..Len(stack)
    BY <1>1, <1>7
  <2>6. PICK i \in Left(front) : Rank(Left(front), i) = Len(stack)
    BY <2>4, <2>5 DEF Matches
  <2>7. stack[Len(stack)] = front[i].place /\ i \in 1..(n - 1)
    BY <2>1, <2>4, <2>6, LenProperties DEF Matches, Left
  <2>8. Location = list[i].place
    BY <1>1, <1>7, <2>1, <2>7 DEF Location
  <2>9. Location # Nowhere /\ Location # inner.place
    <3>1. i \in 1..n
      BY <1>2, <2>7
    <3> QED BY <1>2, <1>3, <2>7, <2>8, <3>1
  <2> HIDE DEF inner, n, list
  <2>10. Whose(t) = "outer"
    BY <1>5, <2>7, <2>8, <2>9
  <2> QED BY <1>2, <1>7, <2>10 DEF inner
<1>8. CASE inner.left /\ Len(stack) = 0
  <2>1. Location = Nowhere
    BY <1>1, <1>8 DEF Location
  <2>2. \A i \in 1..(n - 1) : Location # list[i].place
    <3>1. \A i \in 1..(n - 1) : i \in 1..n
      BY <1>2
    <3> QED BY <1>2, <2>1, <3>1
  <2> HIDE DEF inner, n, list
  <2>3. Whose(t) = "none"
    BY <1>4, <1>5, <2>1, <2>2
  <2> QED BY <1>2, <1>8, <2>3 DEF inner
<1> QED BY <1>6, <1>7, <1>8

\* trace_print_location with the lock of the core: whatever the threads and the
\* options do, no line of the trace has the position of an access of another
\* thread, and the line of a write has its own.
THEOREM OwnPositions == Spec => []PrintsOwnPosition
<1>1. Init => PrintsOwnPosition
  BY DEF Init, NoLine, PrintsOwnPosition
<1>2. DiagInv /\ PrintsOwnPosition /\ [Next]_vars => PrintsOwnPosition'
  <2> SUFFICES ASSUME DiagInv, PrintsOwnPosition, [Next]_vars PROVE PrintsOwnPosition'
    OBVIOUS
  <2>1. CASE UNCHANGED printed
    BY <2>1 DEF PrintsOwnPosition
  <2>2. ASSUME NEW t \in Threads, Access(t) PROVE PrintsOwnPosition'
    <3>1. /\ MayAccess(t) /\ open[t] # <<>> /\ ~Inner(t).made
          /\ \E kind \in {"REGISTERS", "MEMORY"} : Prints(kind, Whose(t), Inner(t).write)
      BY <2>2 DEF Access
    <3>2. CASE printed' = printed
      BY <2>1, <3>2
    <3>3. CASE enabled /\ printed' = [position |-> Whose(t), write |-> Inner(t).write]
      <4>1. printed'.position = Whose(t) /\ printed'.write = Inner(t).write
        BY <3>3
      <4>2. Whose(t) \in {"own", "outer", "none"} /\ (Inner(t).write => Whose(t) = "own")
        BY <3>1, <3>3, WhoseIsKnown
      <4> QED BY <4>1, <4>2 DEF PrintsOwnPosition
    <3> QED BY <3>1, <3>2, <3>3 DEF Prints
  <2>3. CASE trace_arm_state
    <3>1. AtWork = "gdb" /\ open["gdb"] = <<>>
      BY <2>3 DEF trace_arm_state, AtWork, DiagInv, OpenInv
    <3>2. top = -1
      BY <3>1, NothingOpen
    <3>3. Location = Nowhere
      BY <3>2 DEF Location
    <3>4. Prints("REGISTERS", "none", FALSE)
      BY <2>3, <3>3 DEF trace_arm_state
    <3>5. printed' = printed \/ printed' = [position |-> "none", write |-> FALSE]
      BY <3>4 DEF Prints
    <3> QED BY <3>5 DEF PrintsOwnPosition
  <2>4. CASE trace_add \/ OptionDebug \/ OptionEnds \/ Initialise \/ CreateThreads
             \/ trace_disable \/ trace_enable \/ UNCHANGED vars
    BY <2>1, <2>4 DEF trace_add, OptionDebug, Option, OptionEnds, Initialise, CreateThreads,
        trace_disable, trace_enable, vars
  <2>5. ASSUME NEW t \in Threads,
               Lock(t) \/ Unlock(t) \/ trace_start_location(t) \/ trace_end_location(t)
        PROVE  PrintsOwnPosition'
    BY <2>1, <2>5 DEF Lock, Unlock, trace_start_location, trace_end_location
  <2> QED BY <2>2, <2>3, <2>4, <2>5 DEF Next
<1> QED BY <1>1, <1>2, DiagInvariant, PTL DEF Spec

---------------------------------------------------------------------------
(* The types, with the depth of the stack.                                 *)

\* Every set of numbers that has one has a least.
LEMMA LeastOf ==
    ASSUME NEW S \in SUBSET Nat, S # {}
    PROVE  Min(S) \in S /\ \A y \in S : Min(S) <= y
<1> DEFINE R == OpToRel(<, Nat)
<1>1. IsWellFoundedOn(R, Nat)
  BY NatLessThanWellFounded
<1>2. \A x, y \in Nat : <<x, y>> \in R <=> x < y
  BY DEF OpToRel
<1> HIDE DEF R
<1>3. PICK x \in S : \A y \in S : ~(<<y, x>> \in R)
  BY <1>1, WFMin
<1>4. \A y \in S : ~(y < x)
  BY <1>2, <1>3, Zenon
<1>5. \A y \in S : x <= y
  BY <1>4
<1> QED BY <1>5, Zenon DEF Min

\* add_debug_to: the position of a name is one of the table, or behind it.
LEMMA PositionIn ==
    ASSUME NEW list \in Seq(Names), NEW name \in Names
    PROVE  Position(list, name) \in 0..Len(list)
<1> DEFINE S == {i \in 0..Len(list) :
                    \/ i = Len(list) \/ i = MAX_FILES_NUMBER
                    \/ list[i + 1] >= name}
<1>1. Len(list) \in Nat
  BY LenProperties
<1>2. Len(list) \in S /\ S \in SUBSET Nat /\ S \subseteq 0..Len(list)
  BY <1>1
<1>3. Min(S) \in S
  BY <1>2, LeastOf
<1> QED BY <1>2, <1>3 DEF Position

\* add_debug_to: the table stays one of names.
LEMMA AddedNames ==
    ASSUME NEW list \in Seq(Names), NEW name \in Names
    PROVE  add_debug_to(list, name) \in Seq(Names)
<1> DEFINE k == Position(list, name) + 1
           n == Len(list)
<1>1. n \in Nat /\ k \in 1..(n + 1) /\ \A i \in 1..n : list[i] \in Names
  BY PositionIn, LenProperties, ElementOfSeq
<1> HIDE DEF k
<1>2. /\ 1 \in Int /\ k - 1 \in Int /\ \A i \in 1..(k - 1) : list[i] \in Names
      /\ k \in Int /\ n \in Int /\ \A i \in k..n : list[i] \in Names
  BY <1>1
<1>3. SubSeq(list, 1, k - 1) \in Seq(Names) /\ SubSeq(list, k, n) \in Seq(Names)
  BY <1>2, SubSeqProperties
<1>4. <<name>> \in Seq(Names)
  OBVIOUS
<1>5. InsertAt(list, k, name) \in Seq(Names)
  BY <1>3, <1>4, ConcatProperties DEF InsertAt
<1> QED BY <1>5 DEF add_debug_to, k

\* The options of main.
CommandInv ==
    /\ options \in 0..MaxOptions
    /\ asked \subseteq Names
    /\ files \in Seq(Names)
    /\ flags \subseteq Flags

\* CommandInv holds at first and is kept by every step.
LEMMA CommandInvariant == (Init => CommandInv) /\ (CommandInv /\ [Next]_vars => CommandInv')
<1>1. ASSUME Init PROVE CommandInv
  BY <1>1, DiagnosticsAssumption, EmptySeq DEF Init, CommandInv
<1>2. ASSUME CommandInv, [Next]_vars PROVE CommandInv'
  <2>1. CASE UNCHANGED <<options, asked, files, flags>>
    BY <1>2, <2>1 DEF CommandInv
  <2>2. ASSUME Option PROVE options' \in 0..MaxOptions
    BY <1>2, <2>2, DiagnosticsAssumption DEF Option, CommandInv
  <2>3. CASE trace_add
    BY <1>2, <2>2, <2>3 DEF trace_add, CommandInv
  <2>4. CASE OptionDebug
    BY <1>2, <2>2, <2>4, AddedNames DEF OptionDebug, CommandInv
  <2>5. CASE OptionEnds
    BY <1>2, <2>2, <2>5 DEF OptionEnds, CommandInv
  <2>6. CASE Initialise \/ CreateThreads \/ trace_disable \/ trace_enable
             \/ trace_arm_state \/ UNCHANGED vars
    BY <2>1, <2>6 DEF Initialise, CreateThreads, trace_disable, trace_enable,
        trace_arm_state, command, vars
  <2>7. ASSUME NEW t \in Threads,
               Lock(t) \/ Unlock(t) \/ trace_start_location(t) \/ trace_end_location(t) \/ Access(t)
        PROVE  CommandInv'
    BY <2>1, <2>7 DEF Lock, Unlock, trace_start_location, trace_end_location, Access, command
  <2> QED BY <1>2, <2>3, <2>4, <2>5, <2>6, <2>7 DEF Next
<1> QED BY <1>1, <1>2

\* A list has at most as many accesses on the stack as it has accesses.
LEMMA DepthBound ==
    ASSUME NEW list \in Seq(Accesses)
    PROVE  Cardinality(Left(list)) \in Nat /\ Cardinality(Left(list)) <= Len(list)
<1>1. Len(list) \in Nat /\ DOMAIN list = 1..Len(list)
  BY LenProperties
<1>2. IsFiniteSet(1..Len(list)) /\ Cardinality(1..Len(list)) = Len(list)
  BY <1>1, FS_Interval
<1>3. Left(list) \subseteq 1..Len(list)
  BY <1>1 DEF Left
<1> QED BY <1>2, <1>3, FS_Subset, FS_CardinalityType

\* main and location_file_stack: the types; the table of the debugged files
\* holds names, and the stack of locations stays inside its array however many
\* accesses are made, as long as the source does not nest more of them.
THEOREM DiagnosticsTyped == Spec => []TypeOK
<1>1. ASSUME DiagInv, CommandInv PROVE TypeOK
  <2>1. stack \in Seq(Places) /\ top = Len(stack) - 1
    BY <1>1 DEF DiagInv, StackInv
  <2>2. Len(stack) \in Nat
    BY <2>1, LenProperties
  <2>3. Len(stack) <= MaxNesting
    <3>1. CASE AtWork \in Threads /\ enabled
      <4>1. /\ open[AtWork] \in Seq(Accesses) /\ Len(open[AtWork]) <= MaxNesting
            /\ Matches(open[AtWork], stack)
        BY <1>1, <3>1 DEF DiagInv, OpenInv, StackInv
      <4> DEFINE d == Cardinality(Left(open[AtWork]))
                 l == Len(open[AtWork])
      <4>2. d \in Nat /\ d <= l /\ l \in Nat
        BY <4>1, DepthBound, LenProperties
      <4>3. Len(stack) = d /\ l <= MaxNesting
        BY <4>1 DEF Matches
      <4> HIDE DEF d, l
      <4> QED BY <4>2, <4>3, DiagnosticsAssumption
    <3>2. CASE ~(AtWork \in Threads /\ enabled)
      BY <1>1, <3>2, EmptySeq, DiagnosticsAssumption DEF DiagInv, StackInv
    <3> QED BY <3>1, <3>2
  <2> DEFINE n == Len(stack)
  <2>4. n \in Nat /\ n <= MaxNesting /\ top = n - 1
    BY <2>1, <2>2, <2>3
  <2> HIDE DEF n
  <2>5. top \in -1..(StackSize - 1) /\ n = top + 1
    BY <2>4, DiagnosticsAssumption
  <2> QED BY <1>1, <2>5 DEF TypeOK, DiagInv, OpenInv, CommandInv, n
<1> QED BY <1>1, DiagInvariant, CommandInvariant, PTL DEF Spec

---------------------------------------------------------------------------
(* The table of the debugged files.                                        *)

\* The names of a table are in order.
Sorted(list) == \A i, j \in 1..Len(list) : i <= j => list[i] <= list[j]

\* A table holds a name.
Holds(list, name) == \E i \in 1..Len(list) : list[i] = name

\* add_debug_to: the loop stops between the names before and those behind.
LEMMA PositionSplits ==
    ASSUME NEW list \in Seq(Names), NEW name \in Names, Sorted(list),
           Position(list, name) < MAX_FILES_NUMBER
    PROVE  /\ \A i \in 1..Position(list, name) : list[i] <= name
           /\ \A i \in (Position(list, name) + 1)..Len(list) : name <= list[i]
<1> DEFINE n == Len(list)
           k == Position(list, name)
           S == {i \in 0..n : \/ i = n \/ i = MAX_FILES_NUMBER
                              \/ list[i + 1] >= name}
<1>1. n \in Nat /\ \A i \in 1..n : list[i] \in Nat
  BY LenProperties, ElementOfSeq, DiagnosticsAssumption
<1>2. n \in S /\ S \in SUBSET Nat
  BY <1>1
<1>3. k \in S /\ \A y \in S : k <= y
  BY <1>2, LeastOf DEF Position
<1>4. name \in Nat /\ k \in 0..n /\ k # MAX_FILES_NUMBER /\ MAX_FILES_NUMBER \in Nat
  BY <1>3, DiagnosticsAssumption, FilesAssumption
<1> HIDE DEF k
<1>5. ASSUME NEW i \in 1..k PROVE list[i] <= name
  <2>1. i - 1 \in 0..n /\ i - 1 \notin S /\ (i - 1) + 1 = i /\ i \in 1..n
    BY <1>3, <1>4
  <2>2. ~(list[i] >= name)
    BY <2>1
  <2> HIDE DEF S
  <2> QED BY <1>1, <1>4, <2>1, <2>2
<1>6. ASSUME NEW i \in (k + 1)..n PROVE name <= list[i]
  <2>1. list[k + 1] >= name
    BY <1>1, <1>3, <1>4
  <2>2. k + 1 \in 1..n /\ i \in 1..n /\ k + 1 <= i
    BY <1>1, <1>4
  <2>3. list[k + 1] <= list[i]
    BY <2>2 DEF Sorted
  <2> HIDE DEF S
  <2> QED BY <1>1, <1>4, <2>1, <2>2, <2>3
<1> QED BY <1>5, <1>6 DEF k, n

\* InsertAt, by index.
LEMMA Inserted ==
    ASSUME NEW A, NEW list \in Seq(A), NEW e \in A, NEW k \in 0..Len(list)
    PROVE  /\ InsertAt(list, k + 1, e) \in Seq(A)
           /\ Len(InsertAt(list, k + 1, e)) = Len(list) + 1
           /\ \A i \in 1..k : InsertAt(list, k + 1, e)[i] = list[i]
           /\ InsertAt(list, k + 1, e)[k + 1] = e
           /\ \A i \in (k + 1)..Len(list) : InsertAt(list, k + 1, e)[i + 1] = list[i]
<1> DEFINE n == Len(list)
           a == SubSeq(list, 1, k)
           b == SubSeq(list, k + 1, n)
<1>1. n \in Nat /\ k \in 0..n /\ \A i \in 1..n : list[i] \in A
  BY LenProperties, ElementOfSeq
<1>2. /\ 1 \in Int /\ k \in Int /\ \A i \in 1..k : list[i] \in A
      /\ k + 1 \in Int /\ n \in Int /\ \A i \in (k + 1)..n : list[i] \in A
  BY <1>1
<1>3. /\ a \in Seq(A)
      /\ Len(a) = IF 1 <= k THEN k - 1 + 1 ELSE 0
      /\ \A i \in 1..(k - 1 + 1) : a[i] = list[1 + i - 1]
  BY <1>2, SubSeqProperties
<1>4. /\ b \in Seq(A)
      /\ Len(b) = IF k + 1 <= n THEN n - (k + 1) + 1 ELSE 0
      /\ \A i \in 1..(n - (k + 1) + 1) : b[i] = list[k + 1 + i - 1]
  BY <1>2, SubSeqProperties
<1> DEFINE t == (a \o <<e>>) \o b
<1>5. t = InsertAt(list, k + 1, e)
  <2>1. (k + 1) - 1 = k
    BY <1>1
  <2> QED BY <2>1 DEF InsertAt
<1> HIDE DEF n, a, b
<1>6. Len(a) = k /\ Len(b) = n - k
  BY <1>1, <1>3, <1>4
<1>7. \A i \in 1..k : a[i] = list[i]
  <2> TAKE i \in 1..k
  <2>1. i \in 1..(k - 1 + 1) /\ 1 + i - 1 = i
    BY <1>1
  <2> QED BY <1>3, <2>1
<1>8. \A i \in 1..(n - k) : b[i] = list[k + i]
  <2> TAKE i \in 1..(n - k)
  <2>1. i \in 1..(n - (k + 1) + 1) /\ k + 1 + i - 1 = k + i
    BY <1>1
  <2> QED BY <1>4, <2>1
<1>9. <<e>> \in Seq(A) /\ Len(<<e>>) = 1 /\ <<e>>[1] = e
  OBVIOUS
<1> DEFINE c == a \o <<e>>
<1>10. /\ c \in Seq(A) /\ Len(c) = k + 1
       /\ \A i \in 1..k : c[i] = list[i]
       /\ c[k + 1] = e
  <2>1. /\ c \in Seq(A) /\ Len(c) = Len(a) + Len(<<e>>)
        /\ \A i \in 1..(Len(a) + Len(<<e>>)) :
                c[i] = IF i <= Len(a) THEN a[i] ELSE <<e>>[i - Len(a)]
    BY <1>3, <1>9, ConcatProperties
  <2>2. Len(c) = k + 1 /\ \A i \in 1..(k + 1) : c[i] = IF i <= k THEN a[i] ELSE <<e>>[i - k]
    BY <1>6, <1>9, <2>1
  <2>3. (k + 1) - k = 1 /\ k + 1 \in 1..(k + 1) /\ ~(k + 1 <= k) /\ \A i \in 1..k : i \in 1..(k + 1) /\ i <= k
    BY <1>1
  <2> QED BY <1>7, <1>9, <2>1, <2>2, <2>3
<1> HIDE DEF c
<1>11. /\ t \in Seq(A) /\ Len(t) = n + 1
       /\ \A i \in 1..(n + 1) : t[i] = IF i <= k + 1 THEN c[i] ELSE b[i - (k + 1)]
  <2>0. t = c \o b
    BY DEF c
  <2> HIDE DEF t
  <2>1. /\ t \in Seq(A) /\ Len(t) = Len(c) + Len(b)
        /\ \A i \in 1..(Len(c) + Len(b)) : t[i] = IF i <= Len(c) THEN c[i] ELSE b[i - Len(c)]
    BY <1>4, <1>10, <2>0, ConcatProperties
  <2>2. (k + 1) + (n - k) = n + 1
    BY <1>1
  <2> QED BY <1>6, <1>10, <2>1, <2>2
<1> HIDE DEF t
<1>12. \A i \in 1..k : t[i] = list[i]
  BY <1>1, <1>10, <1>11
<1>13. t[k + 1] = e
  BY <1>1, <1>10, <1>11
<1>14. \A i \in (k + 1)..n : t[i + 1] = list[i]
  <2> TAKE i \in (k + 1)..n
  <2>1. /\ i + 1 \in 1..(n + 1) /\ ~(i + 1 <= k + 1) /\ (i + 1) - (k + 1) = i - k
        /\ i - k \in 1..(n - k) /\ k + (i - k) = i
    BY <1>1
  <2> QED BY <1>8, <1>11, <2>1
<1> QED BY <1>5, <1>11, <1>12, <1>13, <1>14 DEF n

\* A name is among the entries from..to of a table, numbered as in the code.
Found(list, name, from, to) == \E i \in from..to : list[i + 1] = name

\* One turn of the loop of __is_debugged; g says how the rest ends.
Turn(g, list, name, from, to) ==
    LET middle == (from + to) \div 2
    IN  \/ from < to /\ list[middle + 1] < name /\ g[<<middle + 1, to>>]
        \/ from < to /\ list[middle + 1] > name /\ g[<<from, middle - 1>>]
        \/ from < to /\ list[middle + 1] = name
        \/ from = to /\ list[from + 1] = name

\* The middle of two positions, and where the search goes on.
LEMMA Middle ==
    ASSUME NEW n \in Nat, NEW from \in 0..n, NEW to \in -1..(n - 1), from < to
    PROVE  /\ (from + to) \div 2 \in from..(to - 1)
           /\ (from + to) \div 2 + 1 \in 0..n
           /\ (from + to) \div 2 - 1 \in -1..(n - 1)
           /\ (from + to) \div 2 + 1 \in 1..n
<1> DEFINE m == (from + to) \div 2
<1>1. from \in Int /\ to \in Int /\ m \in Int
  OBVIOUS
<1>2. 2 * m <= from + to /\ from + to <= 2 * m + 1
  OBVIOUS
<1> HIDE DEF m
<1>3. from <= m /\ m < to
  BY <1>1, <1>2
<1> QED BY <1>1, <1>3 DEF m

\* In a table that is in order a turn leaves out no entry with the name.
LEMMA TurnFinds ==
    ASSUME NEW n \in Nat, NEW list, NEW name \in Nat, NEW g,
           \A i \in 1..n : list[i] \in Nat,
           \A i, j \in 1..n : i <= j => list[i] <= list[j],
           NEW from \in 0..n, NEW to \in -1..(n - 1),
           \A f \in 0..n, t \in -1..(n - 1) :
                (f >= from /\ t <= to /\ t - f < to - from) => g[<<f, t>>] = Found(list, name, f, t)
    PROVE  Turn(g, list, name, from, to) <=> Found(list, name, from, to)
<1> DEFINE m == (from + to) \div 2
<1>1. CASE from > to
  BY <1>1 DEF Turn, Found
<1>2. CASE from = to
  <2>1. from..to = {from}
    BY <1>2
  <2>2. Found(list, name, from, to) <=> list[from + 1] = name
    BY <2>1 DEF Found
  <2>3. Turn(g, list, name, from, to) <=> list[from + 1] = name
    BY <1>2 DEF Turn
  <2> QED BY <2>2, <2>3
<1>3. CASE from < to
  <2>1. m \in from..(to - 1) /\ m + 1 \in 0..n /\ m - 1 \in -1..(n - 1) /\ m + 1 \in 1..n
    BY <1>3, Middle
  <2>2. Turn(g, list, name, from, to) <=>
            \/ list[m + 1] < name /\ g[<<m + 1, to>>]
            \/ list[m + 1] > name /\ g[<<from, m - 1>>]
            \/ list[m + 1] = name
    <3>1. ~(from = to)
      BY <1>3
    <3> QED BY <1>3, <3>1, Zenon DEF Turn
  <2> HIDE DEF m
  <2>3. \A i \in from..to : i + 1 \in 1..n
    OBVIOUS
  <2>4. CASE list[m + 1] < name
    <3>1. Turn(g, list, name, from, to) <=> g[<<m + 1, to>>]
      BY <2>1, <2>2, <2>4
    <3>2. g[<<m + 1, to>>] = Found(list, name, m + 1, to)
      <4>1. m + 1 >= from /\ to <= to /\ to - (m + 1) < to - from
        BY <2>1
      <4> QED BY <2>1, <4>1, Zenon
    <3>3. ASSUME NEW i \in from..to, list[i + 1] = name PROVE i \in (m + 1)..to
      BY <2>1, <2>3, <2>4, <3>3
    <3>4. (m + 1)..to \subseteq from..to
      BY <2>1
    <3> QED BY <3>1, <3>2, <3>3, <3>4 DEF Found
  <2>5. CASE list[m + 1] > name
    <3>1. Turn(g, list, name, from, to) <=> g[<<from, m - 1>>]
      BY <2>1, <2>2, <2>5
    <3>2. g[<<from, m - 1>>] = Found(list, name, from, m - 1)
      <4>1. from >= from /\ m - 1 <= to /\ (m - 1) - from < to - from
        BY <2>1
      <4> QED BY <2>1, <4>1, Zenon
    <3>3. ASSUME NEW i \in from..to, list[i + 1] = name PROVE i \in from..(m - 1)
      BY <2>1, <2>3, <2>5, <3>3
    <3>4. from..(m - 1) \subseteq from..to
      BY <2>1
    <3> QED BY <3>1, <3>2, <3>3, <3>4 DEF Found
  <2>6. CASE list[m + 1] = name
    <3>1. Turn(g, list, name, from, to) = TRUE
      BY <2>1, <2>2, <2>6
    <3>2. m \in from..to
      BY <2>1
    <3> QED BY <2>6, <3>1, <3>2 DEF Found
  <2>7. list[m + 1] \in Nat
    BY <2>1
  <2> QED BY <2>4, <2>5, <2>6, <2>7
<1> QED BY <1>1, <1>2, <1>3

\* __is_debugged finds a name just when the table, in order, holds it.
LEMMA SearchFinds ==
    ASSUME NEW list \in Seq(Names), NEW name \in Names, Sorted(list)
    PROVE  __is_debugged(list, name) <=> Holds(list, name)
<1> DEFINE n == Len(list)
<1>1. /\ n \in Nat /\ name \in Nat
      /\ \A i \in 1..n : list[i] \in Nat
      /\ \A i, j \in 1..n : i <= j => list[i] <= list[j]
  BY LenProperties, ElementOfSeq, DiagnosticsAssumption DEF Sorted
<1> DEFINE Ranges == (0..n) \X (-1..(n - 1))
           Solves(g) == g = [range \in Ranges |-> Turn(g, list, name, range[1], range[2])]
           F == [range \in Ranges |-> Found(list, name, range[1], range[2])]
           f == CHOOSE g : Solves(g)
<1>2. __is_debugged(list, name) = f[<<0, n - 1>>]
  BY DEF __is_debugged, Turn
<1> HIDE DEF n
<1>3. \A from \in 0..n, to \in -1..(n - 1) : F[<<from, to>>] = Found(list, name, from, to)
  OBVIOUS
<1>4. Solves(F)
  <2>1. ASSUME NEW from \in 0..n, NEW to \in -1..(n - 1)
        PROVE  Turn(F, list, name, from, to) = Found(list, name, from, to)
    <3> HIDE DEF F
    <3>1. \A h \in 0..n, t \in -1..(n - 1) :
                (h >= from /\ t <= to /\ t - h < to - from) => F[<<h, t>>] = Found(list, name, h, t)
      BY <1>3
    <3>2. Turn(F, list, name, from, to) <=> Found(list, name, from, to)
      BY <1>1, <3>1, TurnFinds
    <3> QED BY <3>2, Zenon DEF Turn, Found
  <2> QED BY <2>1
<1>5. Solves(f)
  <2> HIDE DEF Solves, F
  <2> QED BY <1>4
<1>6. \A from \in 0..n, to \in -1..(n - 1) : f[<<from, to>>] = Turn(f, list, name, from, to)
  <2> HIDE DEF f
  <2> QED BY <1>5
<1> HIDE DEF f, F, Solves
<1>7. \A from \in 0..n, to \in -1..(n - 1) : f[<<from, to>>] = Found(list, name, from, to)
  <2> DEFINE Wrong == {d \in Nat : \E from \in 0..n, to \in -1..(n - 1) :
                            d = (to - from) + (n + 1) /\ f[<<from, to>>] # Found(list, name, from, to)}
  <2>1. SUFFICES ASSUME Wrong # {} PROVE FALSE
    <3>1. \A from \in 0..n, to \in -1..(n - 1) : (to - from) + (n + 1) \in Nat
      BY <1>1
    <3> QED BY <3>1
  <2>2. PICK d \in Wrong : \A y \in Wrong : d <= y
    <3>1. Wrong \in SUBSET Nat
      OBVIOUS
    <3> HIDE DEF Wrong
    <3> QED BY <2>1, <3>1, LeastOf
  <2>3. PICK from \in 0..n, to \in -1..(n - 1) :
            d = (to - from) + (n + 1) /\ f[<<from, to>>] # Found(list, name, from, to)
    OBVIOUS
  <2>4. ASSUME NEW h \in 0..n, NEW t \in -1..(n - 1), t - h < to - from
        PROVE  f[<<h, t>>] = Found(list, name, h, t)
    <3>1. (t - h) + (n + 1) \in Nat /\ (t - h) + (n + 1) < d
      BY <1>1, <2>3, <2>4
    <3>2. d \in Nat /\ (t - h) + (n + 1) \notin Wrong
      <4>1. d \in Nat
        OBVIOUS
      <4> HIDE DEF Wrong
      <4> QED BY <2>2, <3>1, <4>1
    <3> QED BY <3>1, <3>2
  <2> HIDE DEF Wrong
  <2>5. \A h \in 0..n, t \in -1..(n - 1) :
            (h >= from /\ t <= to /\ t - h < to - from) => f[<<h, t>>] = Found(list, name, h, t)
    BY <2>4
  <2>6. Turn(f, list, name, from, to) <=> Found(list, name, from, to)
    BY <1>1, <2>5, TurnFinds
  <2>7. Turn(f, list, name, from, to) = Found(list, name, from, to)
    BY <2>6, Zenon DEF Turn, Found
  <2> QED BY <1>6, <2>3, <2>7
<1>8. 0 \in 0..n /\ n - 1 \in -1..(n - 1)
  BY <1>1
<1>9. Found(list, name, 0, n - 1) <=> Holds(list, name)
  <2>1. ASSUME NEW i \in 0..(n - 1), list[i + 1] = name PROVE \E j \in 1..n : list[j] = name
    <3>1. i + 1 \in 1..n
      BY <1>1
    <3> QED BY <2>1, <3>1
  <2>2. ASSUME NEW j \in 1..n, list[j] = name PROVE \E i \in 0..(n - 1) : list[i + 1] = name
    <3>1. j - 1 \in 0..(n - 1) /\ (j - 1) + 1 = j
      BY <1>1
    <3> QED BY <2>2, <3>1
  <2> QED BY <2>1, <2>2 DEF Found, Holds, n
<1> QED BY <1>2, <1>7, <1>8, <1>9

\* add_debug_to: the table stays in order and holds the new name besides its own.
LEMMA AddedTable ==
    ASSUME NEW list \in Seq(Names), NEW name \in Names, Sorted(list),
           Position(list, name) < MAX_FILES_NUMBER
    PROVE  /\ Sorted(add_debug_to(list, name))
           /\ Len(add_debug_to(list, name)) = Len(list) + 1
           /\ \A other \in Names :
                Holds(add_debug_to(list, name), other) <=> Holds(list, other) \/ other = name
<1> DEFINE n == Len(list)
           k == Position(list, name)
           t == add_debug_to(list, name)
<1>1. /\ n \in Nat /\ k \in 0..n /\ name \in Nat
      /\ \A i \in 1..n : list[i] \in Nat
  BY LenProperties, ElementOfSeq, PositionIn, DiagnosticsAssumption
<1>2. /\ \A i \in 1..k : list[i] <= name
      /\ \A i \in (k + 1)..n : name <= list[i]
  BY PositionSplits
<1>3. t = InsertAt(list, k + 1, name)
  <2>1. ~(k >= MAX_FILES_NUMBER)
    BY <1>1, FilesAssumption
  <2> QED BY <2>1 DEF add_debug_to
<1>4. /\ Len(t) = n + 1
      /\ \A i \in 1..k : t[i] = list[i]
      /\ t[k + 1] = name
      /\ \A i \in (k + 1)..n : t[i + 1] = list[i]
  <2>1. k \in 0..Len(list)
    BY <1>1
  <2> HIDE DEF k, t
  <2>2. /\ Len(InsertAt(list, k + 1, name)) = Len(list) + 1
        /\ \A i \in 1..k : InsertAt(list, k + 1, name)[i] = list[i]
        /\ InsertAt(list, k + 1, name)[k + 1] = name
        /\ \A i \in (k + 1)..Len(list) : InsertAt(list, k + 1, name)[i + 1] = list[i]
    BY <2>1, Inserted
  <2> QED BY <1>3, <2>2, Zenon
<1>5. \A i, j \in 1..n : i <= j => list[i] <= list[j]
  BY DEF Sorted
<1> HIDE DEF n, k, t
<1>6. \A i \in 1..(n + 1) : \/ i \in 1..k /\ t[i] = list[i] /\ i \in 1..n
                            \/ i = k + 1 /\ t[i] = name
                            \/ i - 1 \in (k + 1)..n /\ t[i] = list[i - 1] /\ i - 1 \in 1..n
  <2> TAKE i \in 1..(n + 1)
  <2>1. CASE i \in 1..k
    BY <1>1, <1>4, <2>1
  <2>2. CASE i = k + 1
    BY <1>4, <2>2
  <2>3. CASE i - 1 \in (k + 1)..n
    <3>1. t[(i - 1) + 1] = list[i - 1] /\ (i - 1) + 1 = i /\ i - 1 \in 1..n
      BY <1>1, <1>4, <2>3
    <3> QED BY <2>3, <3>1
  <2> QED BY <1>1, <2>1, <2>2, <2>3
<1>7. ASSUME NEW i \in 1..(n + 1), NEW j \in 1..(n + 1), i <= j
      PROVE  t[i] <= t[j]
  <2>1. CASE i \in 1..k /\ t[i] = list[i] /\ i \in 1..n
    <3>1. CASE j \in 1..k /\ t[j] = list[j] /\ j \in 1..n
      BY <1>5, <1>7, <2>1, <3>1
    <3>2. CASE j = k + 1 /\ t[j] = name
      BY <1>2, <2>1, <3>2
    <3>3. CASE j - 1 \in (k + 1)..n /\ t[j] = list[j - 1] /\ j - 1 \in 1..n
      <4>1. i <= j - 1
        BY <1>1, <2>1, <3>3
      <4> QED BY <1>5, <2>1, <3>3, <4>1
    <3> QED BY <1>6, <3>1, <3>2, <3>3
  <2>2. CASE i = k + 1 /\ t[i] = name
    <3>1. CASE j = k + 1 /\ t[j] = name
      BY <1>1, <2>2, <3>1
    <3>2. CASE j - 1 \in (k + 1)..n /\ t[j] = list[j - 1]
      BY <1>2, <2>2, <3>2
    <3>3. j \notin 1..k
      BY <1>1, <1>7, <2>2
    <3> QED BY <1>6, <3>1, <3>2, <3>3
  <2>3. CASE i - 1 \in (k + 1)..n /\ t[i] = list[i - 1] /\ i - 1 \in 1..n
    <3>1. j - 1 \in (k + 1)..n /\ t[j] = list[j - 1] /\ j - 1 \in 1..n
      <4>1. j \notin 1..k /\ j # k + 1
        BY <1>1, <1>7, <2>3
      <4> QED BY <1>6, <4>1
    <3>2. i - 1 <= j - 1
      BY <1>7
    <3> QED BY <1>5, <2>3, <3>1, <3>2
  <2> QED BY <1>6, <2>1, <2>2, <2>3
<1>8. ASSUME NEW other \in Names
      PROVE  (\E i \in 1..(n + 1) : t[i] = other) <=> (\E i \in 1..n : list[i] = other) \/ other = name
  <2>1. ASSUME NEW i \in 1..(n + 1), t[i] = other
        PROVE  (\E j \in 1..n : list[j] = other) \/ other = name
    BY <1>6, <2>1
  <2>2. ASSUME NEW i \in 1..n, list[i] = other
        PROVE  \E j \in 1..(n + 1) : t[j] = other
    <3>1. CASE i \in 1..k
      <4>1. t[i] = other /\ i \in 1..(n + 1)
        BY <1>1, <1>4, <2>2, <3>1
      <4> QED BY <4>1
    <3>2. CASE i \in (k + 1)..n
      <4>1. t[i + 1] = other /\ i + 1 \in 1..(n + 1)
        BY <1>1, <1>4, <2>2, <3>2
      <4> QED BY <4>1
    <3> QED BY <1>1, <3>1, <3>2
  <2>3. ASSUME other = name PROVE \E j \in 1..(n + 1) : t[j] = other
    <3>1. k + 1 \in 1..(n + 1)
      BY <1>1
    <3> QED BY <1>4, <2>3, <3>1
  <2> QED BY <2>1, <2>2, <2>3
<1> QED BY <1>4, <1>7, <1>8 DEF Sorted, Holds, n, t

\* The table and the names that were asked for.
TableInv ==
    /\ Sorted(files)
    /\ Len(files) <= options
    /\ options <= MAX_FILES_NUMBER =>
        \A name \in Names : Holds(files, name) <=> name \in asked

\* TableInv holds at first and is kept by every step.
LEMMA TableInvariant ==
    (Init => TableInv) /\ (CommandInv /\ TableInv /\ [Next]_vars => TableInv')
<1>1. ASSUME Init PROVE TableInv
  <2>1. files = <<>> /\ Len(files) = 0 /\ options = 0 /\ asked = {}
    BY <1>1, EmptySeq DEF Init
  <2>2. 1..0 = {}
    OBVIOUS
  <2> QED BY <2>1, <2>2 DEF TableInv, Sorted, Holds
<1>2. ASSUME CommandInv, TableInv, [Next]_vars PROVE TableInv'
  <2>0. /\ options \in Nat /\ files \in Seq(Names) /\ Len(files) \in Nat
        /\ MAX_FILES_NUMBER \in Nat
    BY <1>2, LenProperties, DiagnosticsAssumption, FilesAssumption DEF CommandInv
  <2>1. CASE UNCHANGED <<options, asked, files>>
    <3>1. options' = options /\ asked' = asked /\ files' = files
      BY <2>1
    <3> QED BY <1>2, <3>1 DEF TableInv
  <2>2. CASE OptionDebug
    <3>1. PICK name \in Names : files' = add_debug_to(files, name) /\ asked' = asked \cup {name}
      BY <2>2 DEF OptionDebug
    <3>2. options' = options + 1
      BY <2>2 DEF OptionDebug, Option
    <3>3. Position(files, name) \in 0..Len(files)
      BY <2>0, PositionIn
    <3>4. CASE Position(files, name) < MAX_FILES_NUMBER
      <4>1. /\ Sorted(files') /\ Len(files') = Len(files) + 1
            /\ \A other \in Names : Holds(files', other) <=> Holds(files, other) \/ other = name
        BY <1>2, <2>0, <3>1, <3>4, AddedTable DEF TableInv
      <4>2. Len(files') <= options'
        BY <1>2, <2>0, <3>2, <4>1 DEF TableInv
      <4>3. ASSUME options' <= MAX_FILES_NUMBER, NEW other \in Names
            PROVE  Holds(files', other) <=> other \in asked'
        <5>1. Holds(files, other) <=> other \in asked
          BY <1>2, <2>0, <3>2, <4>3 DEF TableInv
        <5> QED BY <3>1, <4>1, <5>1
      <4> QED BY <4>1, <4>2, <4>3 DEF TableInv
    <3>5. CASE Position(files, name) >= MAX_FILES_NUMBER
      <4>1. files' = files
        BY <3>1, <3>5 DEF add_debug_to
      <4>2. ~(options' <= MAX_FILES_NUMBER) /\ Len(files) <= options'
        BY <1>2, <2>0, <3>2, <3>3, <3>5 DEF TableInv
      <4> QED BY <1>2, <4>1, <4>2 DEF TableInv
    <3> QED BY <2>0, <3>3, <3>4, <3>5
  <2>3. CASE trace_add \/ OptionEnds
    <3>1. options' = options + 1 /\ asked' = asked /\ files' = files
      BY <2>3 DEF trace_add, OptionEnds, Option
    <3>2. Len(files) <= options' /\ (options' <= MAX_FILES_NUMBER => options <= MAX_FILES_NUMBER)
      BY <1>2, <2>0, <3>1 DEF TableInv
    <3> QED BY <1>2, <3>1, <3>2 DEF TableInv
  <2>4. CASE Initialise \/ CreateThreads \/ trace_disable \/ trace_enable
             \/ trace_arm_state \/ UNCHANGED vars
    BY <2>1, <2>4 DEF Initialise, CreateThreads, trace_disable, trace_enable,
        trace_arm_state, command, vars
  <2>5. ASSUME NEW t \in Threads,
               Lock(t) \/ Unlock(t) \/ trace_start_location(t) \/ trace_end_location(t) \/ Access(t)
        PROVE  TableInv'
    BY <2>1, <2>5 DEF Lock, Unlock, trace_start_location, trace_end_location, Access, command
  <2> QED BY <1>2, <2>2, <2>3, <2>4, <2>5 DEF Next
<1> QED BY <1>1, <1>2

\* add_debug_to and __is_debugged: for every size of the table, the search
\* finds a name just when --debug gave it, as long as there were not more
\* options than entries; the table is then inside its array.
THEOREM DebuggedFilesFound == Spec => []SearchFindsAsked
<1>1. ASSUME CommandInv, TableInv PROVE SearchFindsAsked
  <2>1. /\ files \in Seq(Names) /\ Sorted(files) /\ Len(files) <= options
        /\ options \in Nat /\ Len(files) \in Nat /\ MAX_FILES_NUMBER \in Nat
    BY <1>1, LenProperties, DiagnosticsAssumption, FilesAssumption DEF CommandInv, TableInv
  <2>2. ASSUME options <= MAX_FILES_NUMBER PROVE ~Overrun(files)
    BY <2>1, <2>2 DEF Overrun
  <2>3. ASSUME options <= MAX_FILES_NUMBER, NEW name \in Names
        PROVE  __is_debugged(files, name) <=> name \in asked
    <3>1. Holds(files, name) <=> name \in asked
      BY <1>1, <2>3 DEF TableInv
    <3>2. __is_debugged(files, name) <=> Holds(files, name)
      BY <2>1, SearchFinds
    <3> QED BY <3>1, <3>2
  <2> QED BY <2>2, <2>3 DEF SearchFindsAsked
<1> QED BY <1>1, CommandInvariant, TableInvariant, PTL DEF Spec

=============================================================================
