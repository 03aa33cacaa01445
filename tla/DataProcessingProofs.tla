------------------------ MODULE DataProcessingProofs ------------------------
(***************************************************************************)
(* Theorems about the data-processing operations, for words of every width *)
(* that has a sign bit and a value: what executeInst computes is what the  *)
(* numbers say, V tells when a signed sum does not fit, and the condition  *)
(* tables are one.                                                         *)
(***************************************************************************)
EXTENDS MCDataProcessing, WellFoundedInduction, TLAPS

---------------------------------------------------------------------------
(* Counting up to a number, and what is defined that way.                  *)

\* What holds of 0 and goes on from each number below n holds up to n.
LEMMA Upwards ==
    ASSUME NEW n \in Nat, NEW S, 0 \in S, \A k \in 0..(n - 1) : k \in S => k + 1 \in S
    PROVE  \A k \in 0..n : k \in S
<1> DEFINE Missing == {k \in 0..n : k \notin S}
           R == OpToRel(<, Nat)
<1>1. SUFFICES ASSUME Missing # {} PROVE FALSE
  OBVIOUS
<1>2. IsWellFoundedOn(R, Nat) /\ Missing \in SUBSET Nat
  <2>1. IsWellFoundedOn(R, Nat)
    BY NatLessThanWellFounded
  <2>2. \A k \in 0..n : k \in Nat
    OBVIOUS
  <2> QED BY <2>1, <2>2
<1>3. \A a, b \in Nat : <<a, b>> \in R <=> a < b
  BY DEF OpToRel
<1> HIDE DEF R
<1>4. PICK j \in Missing : \A k \in Missing : ~(<<k, j>> \in R)
  <2> HIDE DEF Missing
  <2> QED BY <1>1, <1>2, WFMin
<1>5. \A k \in Missing : ~(k < j)
  <2> TAKE k \in Missing
  <2>1. k \in Nat /\ j \in Nat
    BY <1>2
  <2> QED BY <1>3, <1>4, <2>1
<1>6. j \in 0..n /\ j \notin S
  OBVIOUS
<1>7. j # 0 /\ j - 1 \in 0..(n - 1) /\ (j - 1) + 1 = j /\ j - 1 < j /\ j - 1 \in 0..n
  BY <1>6
<1>8. j - 1 \in S
  BY <1>5, <1>7
<1> QED BY <1>6, <1>7, <1>8

\* f starts with base and takes the steps up to n.
Solution(f, n, D, base, step) ==
    /\ f \in [0..n -> D]
    /\ f[0] = base
    /\ \A k \in 1..n : f[k] = step[k][f[k - 1]]

StepsIn(step, n, D) == step \in [1..n -> [D -> D]]

\* A start and a step define a function up to n.
LEMMA StepsSolved ==
    ASSUME NEW n \in Nat, NEW D, NEW base \in D, NEW step, StepsIn(step, n, D)
    PROVE  \E f : Solution(f, n, D, base, step)
<1> DEFINE Solves(f, k) == f[0] = base /\ \A j \in 1..k : f[j] = step[j][f[j - 1]]
           S == {k \in 0..n : \E f \in [0..k -> D] : Solves(f, k)}
<1>0. step \in [1..n -> [D -> D]]
  BY DEF StepsIn
<1>1. 0 \in S
  <2> DEFINE f == [k \in 0..0 |-> base]
  <2>1. f \in [0..0 -> D] /\ f[0] = base /\ 0 \in 0..n
    OBVIOUS
  <2>2. 1..0 = {}
    OBVIOUS
  <2> HIDE DEF f
  <2>3. Solves(f, 0)
    BY <2>1, <2>2
  <2> HIDE DEF Solves
  <2> QED BY <2>1, <2>3
<1>2. ASSUME NEW k \in 0..(n - 1), k \in S PROVE k + 1 \in S
  <2>1. PICK f \in [0..k -> D] : Solves(f, k)
    BY <1>2
  <2> DEFINE d == step[k + 1][f[k]]
             g == [j \in 0..(k + 1) |-> IF j = k + 1 THEN d ELSE f[j]]
  <2>2. d \in D
    <3>1. k + 1 \in 1..n /\ f[k] \in D
      OBVIOUS
    <3> QED BY <1>0, <3>1
  <2> HIDE DEF d
  <2>3. g \in [0..(k + 1) -> D]
    <3>1. \A j \in 0..(k + 1) : j # k + 1 => j \in 0..k
      OBVIOUS
    <3> QED BY <2>2, <3>1
  <2>4. g[k + 1] = d /\ \A j \in 0..k : g[j] = f[j]
    OBVIOUS
  <2> HIDE DEF g
  <2>5. g[0] = base
    BY <2>1, <2>4
  <2>6. ASSUME NEW j \in 1..(k + 1) PROVE g[j] = step[j][g[j - 1]]
    <3>1. CASE j = k + 1
      <4>1. j - 1 = k /\ k \in 0..k
        BY <3>1
      <4> QED BY <2>4, <3>1, <4>1 DEF d
    <3>2. CASE j \in 1..k
      <4>1. j \in 0..k /\ j - 1 \in 0..k
        BY <3>2
      <4> QED BY <2>1, <2>4, <3>2, <4>1
    <3> QED BY <3>1, <3>2
  <2> QED BY <2>3, <2>5, <2>6
<1>3. n \in 0..n
  OBVIOUS
<1>4. n \in S
  <2> HIDE DEF S
  <2> QED BY <1>1, <1>2, <1>3, Upwards
<1> QED BY <1>4 DEF Solution

\* The weights of the positions.
LEMMA Weights ==
    /\ WordBits \in Nat /\ WordBits > 1
    /\ Weight[0] = 1
    /\ \A n \in 0..WordBits : Weight[n] \in Nat \ {0}
    /\ \A n \in 0..(WordBits - 1) : Weight[n + 1] = 2 * Weight[n]
<1>0. WordBits \in Nat /\ WordBits > 1
  BY WordBitsAssumption, WidthAssumption
<1> DEFINE n == WordBits
           Solves(f) == f = [k \in 0..n |-> IF k = 0 THEN 1 ELSE 2 * f[k - 1]]
           step == [k \in 1..n |-> [i \in Int |-> 2 * i]]
<1>1. Weight = CHOOSE f : Solves(f)
  BY DEF Weight
<1>9. n \in Nat
  BY <1>0
<1> HIDE DEF n
<1>2. \E f : Solves(f)
  <2>1. step \in [1..n -> [Int -> Int]]
    OBVIOUS
  <2>2. \A k \in 1..n, i \in Int : step[k][i] = 2 * i
    OBVIOUS
  <2> HIDE DEF step
  <2>3. PICK f \in [0..n -> Int] : f[0] = 1 /\ \A k \in 1..n : f[k] = step[k][f[k - 1]]
    <3>1. 1 \in Int
      OBVIOUS
    <3>2. StepsIn(step, n, Int)
      BY <2>1 DEF StepsIn
    <3>3. \E f : Solution(f, n, Int, 1, step)
      BY <1>9, <3>1, <3>2, StepsSolved, Zenon
    <3> QED BY <3>3, Zenon DEF Solution
  <2>4. \A k \in 0..n : f[k] = IF k = 0 THEN 1 ELSE 2 * f[k - 1]
    <3> TAKE k \in 0..n
    <3>1. CASE k = 0
      BY <2>3, <3>1
    <3>2. CASE k \in 1..n
      <4>1. f[k - 1] \in Int /\ k # 0
        <5>1. k - 1 \in 0..n /\ k # 0
          BY <1>9, <3>2
        <5> QED BY <2>3, <5>1
      <4> QED BY <2>2, <2>3, <3>2, <4>1
    <3> QED BY <3>1, <3>2
  <2> QED BY <2>4
<1>3. Solves(Weight)
  <2> HIDE DEF Solves
  <2> QED BY <1>1, <1>2
<1>4. \A k \in 0..n : Weight[k] = IF k = 0 THEN 1 ELSE 2 * Weight[k - 1]
  BY <1>3
<1> HIDE DEF Solves
<1>5. Weight[0] = 1
  BY <1>0, <1>4 DEF n
<1>6. \A k \in 0..(n - 1) : Weight[k + 1] = 2 * Weight[k]
  <2> TAKE k \in 0..(n - 1)
  <2>1. k + 1 \in 0..n /\ k + 1 # 0 /\ (k + 1) - 1 = k
    BY <1>0 DEF n
  <2> QED BY <1>4, <2>1
<1> DEFINE S == {k \in 0..n : Weight[k] \in Nat \ {0}}
<1>7. 0 \in S /\ \A k \in 0..(n - 1) : k \in S => k + 1 \in S
  BY <1>0, <1>5, <1>6 DEF n
<1>8. \A k \in 0..n : k \in S
  <2> HIDE DEF S
  <2> QED BY <1>0, <1>7, Upwards DEF n
<1> QED BY <1>0, <1>5, <1>6, <1>8 DEF n

\* The numbers the lowest bits of a word stand for.
LEMMA Lows ==
    ASSUME NEW x
    PROVE  /\ LowBits(x)[0] = 0
           /\ \A n \in 0..WordBits : LowBits(x)[n] \in 0..(Weight[n] - 1)
           /\ \A n \in 0..(WordBits - 1) :
                LowBits(x)[n + 1] = LowBits(x)[n] + (IF n \in x THEN Weight[n] ELSE 0)
<1> DEFINE n == WordBits
           Solves(f) == f = [k \in 0..n |-> IF k = 0 THEN 0
                                           ELSE f[k - 1] + BitValue(x, k - 1, Weight[k - 1])]
           step == [k \in 1..n |-> [i \in Int |-> i + BitValue(x, k - 1, Weight[k - 1])]]
           low == LowBits(x)
<1>1. low = CHOOSE f : Solves(f)
  BY DEF LowBits
<1>2. /\ n \in Nat /\ \A k \in 0..n : Weight[k] \in Nat \ {0}
      /\ \A k \in 0..(n - 1) : Weight[k + 1] = 2 * Weight[k]
      /\ Weight[0] = 1
  BY Weights
<1> HIDE DEF n, low
<1>3. \A k \in 1..n : BitValue(x, k - 1, Weight[k - 1]) \in Int
  BY <1>2 DEF BitValue
<1>4. \E f : Solves(f)
  <2>1. step \in [1..n -> [Int -> Int]]
    BY <1>3
  <2>2. \A k \in 1..n, i \in Int : step[k][i] = i + BitValue(x, k - 1, Weight[k - 1])
    OBVIOUS
  <2> HIDE DEF step
  <2>3. PICK f \in [0..n -> Int] : f[0] = 0 /\ \A k \in 1..n : f[k] = step[k][f[k - 1]]
    <3>1. 0 \in Int
      OBVIOUS
    <3>2. StepsIn(step, n, Int)
      BY <2>1 DEF StepsIn
    <3>3. \E f : Solution(f, n, Int, 0, step)
      BY <1>2, <3>1, <3>2, StepsSolved, Zenon
    <3> QED BY <3>3, Zenon DEF Solution
  <2>4. \A k \in 0..n : f[k] = IF k = 0 THEN 0 ELSE f[k - 1] + BitValue(x, k - 1, Weight[k - 1])
    <3> TAKE k \in 0..n
    <3>1. CASE k = 0
      BY <2>3, <3>1
    <3>2. CASE k \in 1..n
      <4>1. f[k - 1] \in Int /\ k # 0
        <5>1. k - 1 \in 0..n /\ k # 0
          BY <1>2, <3>2
        <5> QED BY <2>3, <5>1
      <4> QED BY <2>2, <2>3, <3>2, <4>1
    <3> QED BY <3>1, <3>2
  <2> QED BY <2>4
<1>5. Solves(low)
  <2> HIDE DEF Solves
  <2> QED BY <1>1, <1>4
<1>6. \A k \in 0..n : low[k] = IF k = 0 THEN 0 ELSE low[k - 1] + BitValue(x, k - 1, Weight[k - 1])
  BY <1>5
<1> HIDE DEF Solves
<1>7. low[0] = 0
  BY <1>2, <1>6
<1>8. \A k \in 0..(n - 1) : low[k + 1] = low[k] + (IF k \in x THEN Weight[k] ELSE 0)
  <2> TAKE k \in 0..(n - 1)
  <2>1. k + 1 \in 0..n /\ k + 1 # 0 /\ (k + 1) - 1 = k
    BY <1>2
  <2> QED BY <1>6, <2>1 DEF BitValue
<1> DEFINE S == {k \in 0..n : low[k] \in 0..(Weight[k] - 1)}
<1>9. 0 \in S
  BY <1>2, <1>7
<1>10. ASSUME NEW k \in 0..(n - 1), k \in S PROVE k + 1 \in S
  <2>1. /\ k + 1 \in 0..n /\ low[k] \in 0..(Weight[k] - 1) /\ Weight[k] \in Nat
        /\ Weight[k + 1] = 2 * Weight[k]
    BY <1>2, <1>10
  <2>2. low[k + 1] = low[k] + (IF k \in x THEN Weight[k] ELSE 0)
    BY <1>8
  <2>3. low[k + 1] \in 0..(Weight[k + 1] - 1)
    BY <2>1, <2>2
  <2> QED BY <2>1, <2>3
<1>11. \A k \in 0..n : k \in S
  <2> HIDE DEF S
  <2> QED BY <1>2, <1>9, <1>10, Upwards
<1> QED BY <1>7, <1>8, <1>11 DEF n, low

---------------------------------------------------------------------------
(* Addition and subtraction of words of any width.                         *)

\* A carry enters the next position when both bits are 1, or when one is and a
\* carry enters this one.
LEMMA CarryStep ==
    ASSUME NEW x \in Word, NEW y \in Word, NEW c \in BOOLEAN
    PROVE  /\ 0 \in Carries(x, y, c) <=> c
           /\ \A i \in Bits : i + 1 \in Carries(x, y, c) <=>
                \/ i \in x /\ i \in y
                \/ (i \in x) # (i \in y) /\ i \in Carries(x, y, c)
<1> DEFINE K == Carries(x, y, c)
           differ == (x \ y) \cup (y \ x)
           Reaches(i) == \/ \E g \in x \cap y : g < i /\ ((g + 1)..(i - 1)) \subseteq differ
                         \/ c /\ (0..(i - 1)) \subseteq differ
<1>1. WordBits \in Nat /\ Bits = 0..(WordBits - 1)
  BY WordBitsAssumption DEF Bits
<1>2. x \subseteq Bits /\ y \subseteq Bits
  BY DEF Word
<1>3. \A i \in 0..WordBits : i \in K <=> Reaches(i)
  BY DEF Carries
<1> HIDE DEF K
<1>4. 0 \in K <=> c
  <2>1. 0..(0 - 1) = {} /\ 0 \in 0..WordBits
    BY <1>1
  <2>2. \A g \in x \cap y : ~(g < 0)
    BY <1>1, <1>2
  <2> HIDE DEF differ
  <2>3. Reaches(0) <=> c
    BY <2>1, <2>2
  <2> QED BY <1>3, <2>1, <2>3
<1>5. ASSUME NEW i \in Bits
      PROVE  i + 1 \in K <=> \/ i \in x /\ i \in y
                             \/ i \in differ /\ i \in K
  <2>1. i \in 0..WordBits /\ i + 1 \in 0..WordBits /\ i \in Nat /\ (i + 1) - 1 = i
    BY <1>1
  <2>2. ASSUME i + 1 \in K PROVE (i \in x /\ i \in y) \/ (i \in differ /\ i \in K)
    <3>1. Reaches(i + 1)
      BY <1>3, <2>1, <2>2
    <3>2. CASE c /\ (0..i) \subseteq differ
      <4>1. i \in 0..i /\ \A j \in 0..(i - 1) : j \in 0..i
        BY <2>1
      <4>2. i \in differ /\ (0..(i - 1)) \subseteq differ
        BY <3>2, <4>1
      <4> QED BY <1>3, <2>1, <3>2, <4>2
    <3>3. ASSUME NEW g \in x \cap y, g < i + 1, ((g + 1)..i) \subseteq differ
          PROVE  (i \in x /\ i \in y) \/ (i \in differ /\ i \in K)
      <4>1. g \in Nat
        BY <1>1, <1>2
      <4>2. CASE g = i
        BY <4>2
      <4>3. CASE g < i
        <5>1. i \in (g + 1)..i /\ \A j \in (g + 1)..(i - 1) : j \in (g + 1)..i
          BY <2>1, <4>1, <4>3
        <5>2. i \in differ /\ ((g + 1)..(i - 1)) \subseteq differ
          BY <3>3, <5>1
        <5> QED BY <1>3, <2>1, <4>3, <5>2
      <4> QED BY <2>1, <3>3, <4>1, <4>2, <4>3
    <3> QED BY <2>1, <3>1, <3>2, <3>3
  <2>3. ASSUME i \in x, i \in y PROVE i + 1 \in K
    <3>1. i < i + 1 /\ (i + 1)..((i + 1) - 1) = {}
      BY <2>1
    <3>2. Reaches(i + 1)
      BY <2>3, <3>1
    <3> QED BY <1>3, <2>1, <3>2
  <2>4. ASSUME i \in differ, i \in K PROVE i + 1 \in K
    <3>1. Reaches(i)
      BY <1>3, <2>1, <2>4
    <3>2. CASE c /\ (0..(i - 1)) \subseteq differ
      <4>1. \A j \in 0..i : j = i \/ j \in 0..(i - 1)
        BY <2>1
      <4>2. (0..i) \subseteq differ
        BY <2>4, <3>2, <4>1
      <4> QED BY <1>3, <2>1, <3>2, <4>2
    <3>3. ASSUME NEW g \in x \cap y, g < i, ((g + 1)..(i - 1)) \subseteq differ
          PROVE  i + 1 \in K
      <4>1. g \in Nat
        BY <1>1, <1>2
      <4>2. g < i + 1 /\ \A j \in (g + 1)..i : j = i \/ j \in (g + 1)..(i - 1)
        BY <2>1, <3>3, <4>1
      <4>3. ((g + 1)..i) \subseteq differ
        BY <2>4, <3>3, <4>2
      <4> QED BY <1>3, <2>1, <4>2, <4>3
    <3> QED BY <3>1, <3>2, <3>3
  <2> QED BY <2>2, <2>3, <2>4
<1> QED BY <1>4, <1>5 DEF K

\* A borrow enters the next position where 0 - 1 is, or where one enters this
\* position and it is not 1 - 0.
LEMMA BorrowStep ==
    ASSUME NEW x \in Word, NEW y \in Word
    PROVE  /\ 0 \notin Borrows(x, y)
           /\ \A i \in Bits : i + 1 \in Borrows(x, y) <=>
                \/ i \notin x /\ i \in y
                \/ ~(i \in x /\ i \notin y) /\ i \in Borrows(x, y)
<1> DEFINE K == Borrows(x, y)
           clear == x \ y
           Reaches(i) == \E g \in y \ x : g < i /\ ((g + 1)..(i - 1)) \cap clear = {}
<1>1. WordBits \in Nat /\ Bits = 0..(WordBits - 1)
  BY WordBitsAssumption DEF Bits
<1>2. x \subseteq Bits /\ y \subseteq Bits
  BY DEF Word
<1>3. \A i \in 0..WordBits : i \in K <=> Reaches(i)
  BY DEF Borrows
<1> HIDE DEF K
<1>4. 0 \notin K
  <2>1. 0 \in 0..WordBits /\ \A g \in y \ x : ~(g < 0)
    BY <1>1, <1>2
  <2> QED BY <1>3, <2>1
<1>5. ASSUME NEW i \in Bits
      PROVE  i + 1 \in K <=> \/ i \notin x /\ i \in y
                             \/ i \notin clear /\ i \in K
  <2>1. i \in 0..WordBits /\ i + 1 \in 0..WordBits /\ i \in Nat /\ (i + 1) - 1 = i
    BY <1>1
  <2>2. ASSUME i + 1 \in K PROVE (i \notin x /\ i \in y) \/ (i \notin clear /\ i \in K)
    <3>1. Reaches(i + 1)
      BY <1>3, <2>1, <2>2
    <3>2. PICK g \in y \ x : g < i + 1 /\ ((g + 1)..i) \cap clear = {}
      BY <2>1, <3>1
    <3>3. g \in Nat
      BY <1>1, <1>2
    <3>4. CASE g = i
      BY <3>4
    <3>5. CASE g < i
      <4>1. i \in (g + 1)..i /\ \A j \in (g + 1)..(i - 1) : j \in (g + 1)..i
        BY <2>1, <3>3, <3>5
      <4>2. i \notin clear /\ ((g + 1)..(i - 1)) \cap clear = {}
        BY <3>2, <4>1
      <4> QED BY <1>3, <2>1, <3>5, <4>2
    <3> QED BY <2>1, <3>2, <3>3, <3>4, <3>5
  <2>3. ASSUME i \notin x, i \in y PROVE i + 1 \in K
    <3>1. i < i + 1 /\ (i + 1)..((i + 1) - 1) = {}
      BY <2>1
    <3>2. Reaches(i + 1)
      BY <2>3, <3>1
    <3> QED BY <1>3, <2>1, <3>2
  <2>4. ASSUME i \notin clear, i \in K PROVE i + 1 \in K
    <3>1. PICK g \in y \ x : g < i /\ ((g + 1)..(i - 1)) \cap clear = {}
      BY <1>3, <2>1, <2>4
    <3>2. g \in Nat
      BY <1>1, <1>2
    <3>3. g < i + 1 /\ \A j \in (g + 1)..i : j = i \/ j \in (g + 1)..(i - 1)
      BY <2>1, <3>1, <3>2
    <3>4. ((g + 1)..i) \cap clear = {}
      BY <2>4, <3>1, <3>3
    <3> QED BY <1>3, <2>1, <3>3, <3>4
  <2> QED BY <2>2, <2>3, <2>4
<1> QED BY <1>4, <1>5 DEF K

Low(x, n) == LowBits(x)[n]
Extra(K, n) == IF n \in K THEN Weight[n] ELSE 0

\* Low bit by bit.
LEMMA LowSteps ==
    ASSUME NEW z
    PROVE  /\ Low(z, 0) = 0
           /\ \A n \in 0..WordBits : Low(z, n) \in Int /\ Low(z, n) >= 0 /\ Low(z, n) < Weight[n]
           /\ \A n \in 0..(WordBits - 1) :
                Low(z, n + 1) = Low(z, n) + (IF n \in z THEN Weight[n] ELSE 0)
<1>1. \A n \in 0..WordBits : LowBits(z)[n] \in 0..(Weight[n] - 1)
  BY Lows
<1>2. \A n \in 0..WordBits : Weight[n] \in Nat
  BY Weights
<1>3. \A n \in 0..WordBits :
            LowBits(z)[n] \in Int /\ LowBits(z)[n] >= 0 /\ LowBits(z)[n] < Weight[n]
  BY <1>1, <1>2
<1> QED BY <1>3, Lows DEF Low

\* The lowest n bits of a sum, with the carry out of them.
LEMMA LowSum ==
    ASSUME NEW x \in Word, NEW y \in Word, NEW c \in BOOLEAN
    PROVE  \A n \in 0..WordBits :
                Low(x, n) + Low(y, n) + (IF c THEN 1 ELSE 0)
                    = Low(AddCarry(x, y, c), n) + Extra(Carries(x, y, c), n)
<1> DEFINE s == AddCarry(x, y, c)
           K == Carries(x, y, c)
           one == IF c THEN 1 ELSE 0
           top == WordBits
           S == {n \in 0..top : Low(x, n) + Low(y, n) + one = Low(s, n) + Extra(K, n)}
<1>1. /\ top \in Nat /\ Bits = 0..(top - 1)
      /\ Weight[0] = 1
      /\ \A n \in 0..top : Weight[n] \in Nat
      /\ \A n \in 0..(top - 1) : Weight[n + 1] = 2 * Weight[n]
  BY Weights DEF Bits
<1>2. /\ 0 \in K <=> c
      /\ \A i \in Bits : i + 1 \in K <=> \/ i \in x /\ i \in y
                                         \/ (i \in x) # (i \in y) /\ i \in K
  BY CarryStep
<1>3. \A i \in Bits : i \in s <=> ((i \in x) # (i \in y)) # (i \in K)
  BY DEF AddCarry
<1>4. \A z \in {x, y, s} :
             /\ Low(z, 0) = 0
             /\ \A n \in 0..top : Low(z, n) \in Int
             /\ \A n \in 0..(top - 1) :
                    Low(z, n + 1) = Low(z, n) + (IF n \in z THEN Weight[n] ELSE 0)
  BY LowSteps
<1> HIDE DEF s, K, top
<1>5. 0 \in S
  <2>1. 0 \in 0..top /\ one \in Int
    BY <1>1
  <2>2. Low(x, 0) = 0 /\ Low(y, 0) = 0 /\ Low(s, 0) = 0
    BY <1>4
  <2>3. Extra(K, 0) = one
    BY <1>1, <1>2 DEF Extra
  <2> QED BY <2>1, <2>2, <2>3
<1>6. ASSUME NEW n \in 0..(top - 1), n \in S PROVE n + 1 \in S
  <2> DEFINE w == Weight[n]
             lx == Low(x, n)
             ly == Low(y, n)
             ls == Low(s, n)
  <2>0. n \in 0..top /\ n + 1 \in 0..top /\ n \in Bits
    BY <1>1
  <2>1. lx \in Int /\ ly \in Int /\ ls \in Int /\ w \in Int /\ one \in Int
    <3>1. \A z \in {x, y, s} : Low(z, n) \in Int
      BY <1>4, <2>0
    <3>2. w \in Int /\ one \in Int
      BY <1>1, <2>0
    <3> QED BY <3>1, <3>2
  <2>2. /\ Low(x, n + 1) = lx + (IF n \in x THEN w ELSE 0)
        /\ Low(y, n + 1) = ly + (IF n \in y THEN w ELSE 0)
        /\ Low(s, n + 1) = ls + (IF n \in s THEN w ELSE 0)
    BY <1>4
  <2>3. lx + ly + one = ls + (IF n \in K THEN w ELSE 0)
    BY <1>6 DEF Extra
  <2>4. Extra(K, n + 1) = IF n + 1 \in K THEN 2 * w ELSE 0
    BY <1>1 DEF Extra
  <2> HIDE DEF w, lx, ly, ls, one
  <2>5. /\ n + 1 \in K <=> (n \in x /\ n \in y) \/ (((n \in x) # (n \in y)) /\ n \in K)
        /\ n \in s <=> (((n \in x) # (n \in y)) # (n \in K))
    BY <1>2, <1>3, <2>0
  <2>6. (lx + (IF n \in x THEN w ELSE 0)) + (ly + (IF n \in y THEN w ELSE 0)) + one
            = (ls + (IF n \in s THEN w ELSE 0)) + (IF n + 1 \in K THEN 2 * w ELSE 0)
    BY <2>1, <2>3, <2>5
  <2> QED BY <2>0, <2>2, <2>4, <2>6
<1>7. \A n \in 0..top : n \in S
  <2> HIDE DEF S
  <2> QED BY <1>1, <1>5, <1>6, Upwards
<1> QED BY <1>7 DEF s, K, top

\* The lowest n bits of a difference, with the borrow out of them.
LEMMA LowDifference ==
    ASSUME NEW x \in Word, NEW y \in Word
    PROVE  \A n \in 0..WordBits :
                Low(x, n) - Low(y, n) = Low(Sub(x, y), n) - Extra(Borrows(x, y), n)
<1> DEFINE s == Sub(x, y)
           K == Borrows(x, y)
           top == WordBits
           S == {n \in 0..top : Low(x, n) - Low(y, n) = Low(s, n) - Extra(K, n)}
<1>1. /\ top \in Nat /\ Bits = 0..(top - 1)
      /\ Weight[0] = 1
      /\ \A n \in 0..top : Weight[n] \in Nat
      /\ \A n \in 0..(top - 1) : Weight[n + 1] = 2 * Weight[n]
  BY Weights DEF Bits
<1>2. /\ 0 \notin K
      /\ \A i \in Bits : i + 1 \in K <=> \/ i \notin x /\ i \in y
                                         \/ ~(i \in x /\ i \notin y) /\ i \in K
  BY BorrowStep
<1>3. \A i \in Bits : i \in s <=> ((i \in x) # (i \in y)) # (i \in K)
  BY DEF Sub
<1>4. \A z \in {x, y, s} :
             /\ Low(z, 0) = 0
             /\ \A n \in 0..top : Low(z, n) \in Int
             /\ \A n \in 0..(top - 1) :
                    Low(z, n + 1) = Low(z, n) + (IF n \in z THEN Weight[n] ELSE 0)
  BY LowSteps
<1> HIDE DEF s, K, top
<1>5. 0 \in S
  <2>1. 0 \in 0..top
    BY <1>1
  <2>2. Low(x, 0) = 0 /\ Low(y, 0) = 0 /\ Low(s, 0) = 0
    BY <1>4
  <2>3. Extra(K, 0) = 0
    BY <1>2 DEF Extra
  <2> QED BY <2>1, <2>2, <2>3
<1>6. ASSUME NEW n \in 0..(top - 1), n \in S PROVE n + 1 \in S
  <2> DEFINE w == Weight[n]
             lx == Low(x, n)
             ly == Low(y, n)
             ls == Low(s, n)
  <2>0. n \in 0..top /\ n + 1 \in 0..top /\ n \in Bits
    BY <1>1
  <2>1. lx \in Int /\ ly \in Int /\ ls \in Int /\ w \in Int
    <3>1. \A z \in {x, y, s} : Low(z, n) \in Int
      BY <1>4, <2>0
    <3>2. w \in Int
      BY <1>1, <2>0
    <3> QED BY <3>1, <3>2
  <2>2. /\ Low(x, n + 1) = lx + (IF n \in x THEN w ELSE 0)
        /\ Low(y, n + 1) = ly + (IF n \in y THEN w ELSE 0)
        /\ Low(s, n + 1) = ls + (IF n \in s THEN w ELSE 0)
    BY <1>4
  <2>3. lx - ly = ls - (IF n \in K THEN w ELSE 0)
    BY <1>6 DEF Extra
  <2>4. Extra(K, n + 1) = IF n + 1 \in K THEN 2 * w ELSE 0
    BY <1>1 DEF Extra
  <2> HIDE DEF w, lx, ly, ls
  <2>5. /\ n + 1 \in K <=> (n \notin x /\ n \in y) \/ (~(n \in x /\ n \notin y) /\ n \in K)
        /\ n \in s <=> (((n \in x) # (n \in y)) # (n \in K))
    BY <1>2, <1>3, <2>0
  <2>6. (lx + (IF n \in x THEN w ELSE 0)) - (ly + (IF n \in y THEN w ELSE 0))
            = (ls + (IF n \in s THEN w ELSE 0)) - (IF n + 1 \in K THEN 2 * w ELSE 0)
    BY <2>1, <2>3, <2>5
  <2> QED BY <2>0, <2>2, <2>4, <2>6
<1>7. \A n \in 0..top : n \in S
  <2> HIDE DEF S
  <2> QED BY <1>1, <1>5, <1>6, Upwards
<1> QED BY <1>7 DEF s, K, top

\* The bits of a word below its complement's.
LEMMA LowComplement ==
    ASSUME NEW x \in Word
    PROVE  \A n \in 0..WordBits : Low(Complement(x), n) = (Weight[n] - 1) - Low(x, n)
<1> DEFINE s == Complement(x)
           top == WordBits
           S == {n \in 0..top : Low(s, n) = (Weight[n] - 1) - Low(x, n)}
<1>1. /\ top \in Nat /\ Bits = 0..(top - 1)
      /\ Weight[0] = 1
      /\ \A n \in 0..top : Weight[n] \in Nat
      /\ \A n \in 0..(top - 1) : Weight[n + 1] = 2 * Weight[n]
  BY Weights DEF Bits
<1>2. \A i \in Bits : i \in s <=> i \notin x
  BY DEF Complement
<1>3. \A z \in {x, s} :
             /\ Low(z, 0) = 0
             /\ \A n \in 0..top : Low(z, n) \in Int
             /\ \A n \in 0..(top - 1) :
                    Low(z, n + 1) = Low(z, n) + (IF n \in z THEN Weight[n] ELSE 0)
  BY LowSteps
<1> HIDE DEF s, top
<1>4. 0 \in S
  <2>1. 0 \in 0..top /\ Low(x, 0) = 0 /\ Low(s, 0) = 0
    BY <1>1, <1>3
  <2> QED BY <1>1, <2>1
<1>5. ASSUME NEW n \in 0..(top - 1), n \in S PROVE n + 1 \in S
  <2> DEFINE w == Weight[n]
             lx == Low(x, n)
             ls == Low(s, n)
  <2>0. n \in 0..top /\ n + 1 \in 0..top /\ n \in Bits
    BY <1>1
  <2>1. lx \in Int /\ ls \in Int /\ w \in Int
    <3>1. \A z \in {x, s} : Low(z, n) \in Int
      BY <1>3, <2>0
    <3>2. w \in Int
      BY <1>1, <2>0
    <3> QED BY <3>1, <3>2
  <2>2. /\ Low(x, n + 1) = lx + (IF n \in x THEN w ELSE 0)
        /\ Low(s, n + 1) = ls + (IF n \in s THEN w ELSE 0)
    BY <1>3
  <2>3. ls = (w - 1) - lx
    BY <1>5
  <2>4. Weight[n + 1] = 2 * w
    BY <1>1
  <2> HIDE DEF w, lx, ls
  <2>5. n \in s <=> n \notin x
    BY <1>2, <2>0
  <2>6. ls + (IF n \in s THEN w ELSE 0) = (2 * w - 1) - (lx + (IF n \in x THEN w ELSE 0))
    BY <2>1, <2>3, <2>5
  <2> QED BY <2>0, <2>2, <2>4, <2>6
<1>6. \A n \in 0..top : n \in S
  <2> HIDE DEF S
  <2> QED BY <1>1, <1>4, <1>5, Upwards
<1> QED BY <1>6 DEF s, top

\* A number is 0 just when no bit is set.
LEMMA LowZero ==
    ASSUME NEW x \in Word
    PROVE  \A n \in 0..WordBits : Low(x, n) = 0 <=> \A i \in 0..(n - 1) : i \notin x
<1> DEFINE top == WordBits
           S == {n \in 0..top : Low(x, n) = 0 <=> \A i \in 0..(n - 1) : i \notin x}
<1>1. top \in Nat /\ \A n \in 0..top : Weight[n] \in Nat \ {0}
  BY Weights
<1>2. /\ Low(x, 0) = 0
      /\ \A n \in 0..top : Low(x, n) \in Int /\ Low(x, n) >= 0
      /\ \A n \in 0..(top - 1) : Low(x, n + 1) = Low(x, n) + (IF n \in x THEN Weight[n] ELSE 0)
  BY LowSteps
<1> HIDE DEF top
<1>3. 0 \in S
  <2>1. 0 \in 0..top /\ 0..(0 - 1) = {}
    BY <1>1
  <2> QED BY <1>2, <2>1
<1>4. ASSUME NEW n \in 0..(top - 1), n \in S PROVE n + 1 \in S
  <2>1. n \in 0..top /\ n + 1 \in 0..top /\ (n + 1) - 1 = n
    BY <1>1
  <2>2. Low(x, n) \in Int /\ Low(x, n) >= 0 /\ Weight[n] \in Int /\ Weight[n] > 0
    BY <1>1, <1>2, <2>1
  <2>3. Low(x, n + 1) = 0 <=> Low(x, n) = 0 /\ n \notin x
    BY <1>2, <2>2
  <2>4. (\A i \in 0..n : i \notin x) <=> (\A i \in 0..(n - 1) : i \notin x) /\ n \notin x
    <3>1. \A i \in 0..n : i = n \/ i \in 0..(n - 1)
      BY <1>1
    <3>2. n \in 0..n /\ \A i \in 0..(n - 1) : i \in 0..n
      BY <1>1
    <3> QED BY <3>1, <3>2
  <2>5. Low(x, n) = 0 <=> \A i \in 0..(n - 1) : i \notin x
    BY <1>4
  <2> QED BY <2>1, <2>3, <2>4, <2>5
<1>5. \A n \in 0..top : n \in S
  <2> HIDE DEF S
  <2> QED BY <1>1, <1>3, <1>4, Upwards
<1> QED BY <1>5 DEF top

Half == Weight[WordBits - 1]

\* The numbers of words: their range, what the sign says of them, and which
\* word is 0.
LEMMA Numbers ==
    /\ Half \in Nat \ {0} /\ Modulus = 2 * Half /\ Modulus \div 2 = Half
    /\ Lowest = -Half /\ Highest = Half - 1
    /\ \A x \in Word :
        /\ Unsigned(x) \in 0..(Modulus - 1)
        /\ Sign(x) <=> Unsigned(x) >= Half
        /\ x = {} <=> Unsigned(x) = 0
        /\ Signed(x) = Unsigned(x) - (IF Sign(x) THEN Modulus ELSE 0)
        /\ Complement(x) \in Word
        /\ Unsigned(Complement(x)) = (Modulus - 1) - Unsigned(x)
<1> DEFINE top == WordBits
<1>1. /\ top \in Nat /\ top > 1 /\ Bits = 0..(top - 1)
      /\ \A n \in 0..top : Weight[n] \in Nat \ {0}
      /\ \A n \in 0..(top - 1) : Weight[n + 1] = 2 * Weight[n]
  BY Weights DEF Bits
<1> HIDE DEF top
<1>2. /\ top - 1 \in 0..top /\ top - 1 \in 0..(top - 1) /\ (top - 1) + 1 = top /\ top \in 0..top
  BY <1>1
<1>3. Half \in Nat \ {0} /\ Modulus = 2 * Half
  BY <1>1, <1>2 DEF Half, Modulus, top
<1>4. Modulus \div 2 = Half
  BY <1>3
<1>5. Lowest = -Half /\ Highest = Half - 1
  <2>1. SignBit - 1 = top - 2 /\ top - 2 \in 0..(top - 1) /\ (top - 2) + 1 = top - 1
    BY <1>1 DEF SignBit, top
  <2>2. Half = 2 * Weight[SignBit - 1] /\ Weight[SignBit - 1] \in Nat
    BY <1>1, <1>2, <2>1 DEF Half, top
  <2> QED BY <2>2 DEF Lowest, Highest
<1>6. ASSUME NEW x \in Word
      PROVE  /\ Unsigned(x) \in 0..(Modulus - 1)
             /\ Sign(x) <=> Unsigned(x) >= Half
             /\ x = {} <=> Unsigned(x) = 0
             /\ Signed(x) = Unsigned(x) - (IF Sign(x) THEN Modulus ELSE 0)
             /\ Complement(x) \in Word
             /\ Unsigned(Complement(x)) = (Modulus - 1) - Unsigned(x)
  <2>0. \A z : Unsigned(z) = Low(z, top)
    BY DEF Unsigned, Low, top
  <2>1. /\ Low(x, top) \in Int /\ Low(x, top) >= 0 /\ Low(x, top) < Weight[top]
        /\ Low(x, top - 1) \in Int /\ Low(x, top - 1) >= 0 /\ Low(x, top - 1) < Weight[top - 1]
    BY <1>2, LowSteps DEF top
  <2>2. Unsigned(x) = Low(x, top - 1) + (IF top - 1 \in x THEN Half ELSE 0)
    <3>1. Low(x, (top - 1) + 1) = Low(x, top - 1) + (IF top - 1 \in x THEN Weight[top - 1] ELSE 0)
      BY <1>2, LowSteps DEF top
    <3> QED BY <1>2, <2>0, <3>1 DEF Half, top
  <2>3. Unsigned(x) \in 0..(Modulus - 1)
    BY <1>3, <2>0, <2>1 DEF Modulus, top
  <2>4. Sign(x) <=> top - 1 \in x
    BY DEF Sign, get_bit, SignBit, top
  <2>5. Sign(x) <=> Unsigned(x) >= Half
    <3>1. Low(x, top - 1) < Half
      BY <2>1 DEF Half, top
    <3> QED BY <1>3, <2>1, <2>2, <2>4, <3>1
  <2>6. x = {} <=> Unsigned(x) = 0
    <3>1. Low(x, top) = 0 <=> \A i \in 0..(top - 1) : i \notin x
      BY <1>2, LowZero DEF top
    <3>2. x \subseteq 0..(top - 1)
      BY <1>1 DEF Word
    <3> QED BY <2>0, <3>1, <3>2
  <2>7. Signed(x) = Unsigned(x) - (IF Sign(x) THEN Modulus ELSE 0)
    <3>1. LowBits(x)[SignBit] = Low(x, top - 1) /\ (SignBit \in x <=> Sign(x))
      BY DEF Low, SignBit, Sign, get_bit, top
    <3>2. Signed(x) = Low(x, top - 1) + (IF Sign(x) THEN -Half ELSE 0)
      BY <1>5, <3>1 DEF Signed
    <3> QED BY <1>3, <2>1, <2>2, <2>4, <3>2
  <2>8. Complement(x) \in Word
    BY DEF Complement, Word
  <2>9. Unsigned(Complement(x)) = (Modulus - 1) - Unsigned(x)
    <3>1. Low(Complement(x), top) = (Weight[top] - 1) - Low(x, top)
      BY <1>2, LowComplement DEF top
    <3> QED BY <2>0, <3>1 DEF Modulus, top
  <2> QED BY <2>3, <2>5, <2>6, <2>7, <2>8, <2>9
<1> QED BY <1>3, <1>4, <1>5, <1>6

\* Sums and differences of words as numbers.
LEMMA SumsOfWords ==
    ASSUME NEW x \in Word, NEW y \in Word
    PROVE  /\ Add(x, y) \in Word /\ Sub(x, y) \in Word
           /\ \/ Unsigned(x) + Unsigned(y) = Unsigned(Add(x, y))
              \/ Unsigned(x) + Unsigned(y) = Unsigned(Add(x, y)) + Modulus
           /\ \/ Unsigned(x) - Unsigned(y) = Unsigned(Sub(x, y))
              \/ Unsigned(x) - Unsigned(y) = Unsigned(Sub(x, y)) - Modulus
<1>0. WordBits \in 0..WordBits /\ \A z : Unsigned(z) = Low(z, WordBits)
  BY Weights DEF Unsigned, Low
<1>1. Add(x, y) \in Word /\ Sub(x, y) \in Word
  BY DEF Add, AddCarry, Sub, Word
<1>2. \A z \in {x, y, Add(x, y), Sub(x, y)} : Unsigned(z) \in Int
  BY <1>1, Numbers
<1>3. Modulus \in Int
  BY Numbers
<1>4. \A K : Extra(K, WordBits) = 0 \/ Extra(K, WordBits) = Modulus
  BY DEF Extra, Modulus
<1>5. (Unsigned(x) + Unsigned(y)) + 0 = Unsigned(Add(x, y)) + Extra(Carries(x, y, FALSE), WordBits)
  <2>1. Low(x, WordBits) + Low(y, WordBits) + (IF FALSE THEN 1 ELSE 0)
            = Low(AddCarry(x, y, FALSE), WordBits) + Extra(Carries(x, y, FALSE), WordBits)
    BY <1>0, LowSum
  <2> QED BY <1>0, <2>1 DEF Add
<1>6. Unsigned(x) - Unsigned(y) = Unsigned(Sub(x, y)) - Extra(Borrows(x, y), WordBits)
  BY <1>0, LowDifference
<1>7. \A a, b, d, e \in Int : e = 0 \/ e = Modulus =>
            /\ (a + b) + 0 = d + e => a + b = d \/ a + b = d + Modulus
            /\ a - b = d - e => a - b = d \/ a - b = d - Modulus
  BY <1>3
<1>8. \A K : Extra(K, WordBits) \in Int
  BY <1>3, <1>4
<1>9. \/ Unsigned(x) + Unsigned(y) = Unsigned(Add(x, y))
      \/ Unsigned(x) + Unsigned(y) = Unsigned(Add(x, y)) + Modulus
  <2> DEFINE e == Extra(Carries(x, y, FALSE), WordBits)
             d == Unsigned(Add(x, y))
  <2>1. (e = 0 \/ e = Modulus) /\ e \in Int /\ d \in Int /\ (Unsigned(x) + Unsigned(y)) + 0 = d + e
    BY <1>2, <1>4, <1>5, <1>8
  <2> HIDE DEF d, e
  <2>2. Unsigned(x) + Unsigned(y) = d \/ Unsigned(x) + Unsigned(y) = d + Modulus
    BY <1>2, <1>7, <2>1
  <2> QED BY <2>2 DEF d
<1>10. \/ Unsigned(x) - Unsigned(y) = Unsigned(Sub(x, y))
       \/ Unsigned(x) - Unsigned(y) = Unsigned(Sub(x, y)) - Modulus
  BY <1>2, <1>4, <1>6, <1>7, <1>8
<1> QED BY <1>1, <1>9, <1>10

\* The word 1.
LEMMA OneIsOne == One \in Word /\ Unsigned(One) = 1 /\ ~Sign(One) /\ {} \in Word /\ Unsigned({}) = 0
<1>1. WordBits \in Nat /\ WordBits > 1
  BY Weights
<1>2. One \in Word /\ {} \in Word /\ ~Sign(One)
  BY <1>1 DEF One, Word, Bits, Sign, get_bit, SignBit
<1>3. Unsigned({}) = 0
  BY <1>2, Numbers
<1> DEFINE top == WordBits
           S == {k \in 0..(top - 1) : Low(One, k + 1) = 1}
<1>4. /\ top \in Nat /\ top - 1 \in Nat
      /\ Low(One, 0) = 0 /\ Weight[0] = 1
      /\ \A n \in 0..(top - 1) :
            Low(One, n + 1) = Low(One, n) + (IF n \in One THEN Weight[n] ELSE 0)
  <2>1. top \in Nat /\ top - 1 \in Nat
    BY <1>1
  <2> QED BY <2>1, LowSteps, Weights, Zenon
<1> HIDE DEF top
<1>5. 0 \in S
  BY <1>4 DEF One
<1>6. ASSUME NEW k \in 0..((top - 1) - 1), k \in S PROVE k + 1 \in S
  <2>1. k + 1 \in 0..(top - 1) /\ k + 1 \notin One
    BY <1>4 DEF One
  <2> QED BY <1>4, <1>6, <2>1
<1>7. \A k \in 0..(top - 1) : k \in S
  <2> HIDE DEF S
  <2> QED BY <1>4, <1>5, <1>6, Upwards
<1>8. Low(One, top) = 1
  <2>1. top - 1 \in 0..(top - 1) /\ (top - 1) + 1 = top
    BY <1>4
  <2> QED BY <1>7, <2>1
<1> QED BY <1>2, <1>3, <1>8 DEF top, Unsigned, Low

---------------------------------------------------------------------------
(* The condition tables.                                                   *)

Conditions == {{}, {0}, {1}, {1, 0}, {2}, {2, 0}, {2, 1}, {2, 1, 0}, {3}, {3, 0}, {3, 1},
               {3, 1, 0}, {3, 2}, {3, 2, 0}}

\* The conditions but AL and the reserved one are the fourteen of the tables.
LEMMA FourteenConditions ==
    ASSUME NEW cond \in SUBSET (0..3), cond # AL, cond # NeverCondition
    PROVE  cond \in Conditions
<1>1. cond \subseteq {0, 1, 2, 3}
  OBVIOUS
<1>2. CASE 3 \notin cond /\ 2 \notin cond
  <2>1. cond \in {{}, {0}, {1}, {1, 0}}
    BY <1>1, <1>2
  <2> QED BY <2>1, Zenon DEF Conditions
<1>3. CASE 3 \notin cond /\ 2 \in cond
  <2>1. cond \in {{2}, {2, 0}, {2, 1}, {2, 1, 0}}
    BY <1>1, <1>3
  <2> QED BY <2>1, Zenon DEF Conditions
<1>4. CASE 3 \in cond /\ 2 \notin cond
  <2>1. cond \in {{3}, {3, 0}, {3, 1}, {3, 1, 0}}
    BY <1>1, <1>4
  <2> QED BY <2>1, Zenon DEF Conditions
<1>5. CASE 3 \in cond /\ 2 \in cond
  <2>1. 1 \notin cond
    BY <1>1, <1>5 DEF AL, NeverCondition
  <2>2. cond \in {{3, 2}, {3, 2, 0}}
    BY <1>1, <1>5, <2>1
  <2> QED BY <2>2, Zenon DEF Conditions
<1> QED BY <1>2, <1>3, <1>4, <1>5

\* No two of the fourteen conditions are the same.
LEMMA ConditionsDiffer ==
    /\ {} \notin {{0}, {1}, {1, 0}, {2}, {2, 0}, {2, 1},
            {2, 1, 0}, {3}, {3, 0}, {3, 1}, {3, 1, 0}, {3, 2}, {3, 2, 0}}
    /\ {0} \notin {{1}, {1, 0}, {2}, {2, 0}, {2, 1}, {2, 1, 0},
            {3}, {3, 0}, {3, 1}, {3, 1, 0}, {3, 2}, {3, 2, 0}}
    /\ {1} \notin {{1, 0}, {2}, {2, 0}, {2, 1}, {2, 1, 0},
            {3}, {3, 0}, {3, 1}, {3, 1, 0}, {3, 2}, {3, 2, 0}}
    /\ {1, 0} \notin {{2}, {2, 0}, {2, 1}, {2, 1, 0}, {3},
            {3, 0}, {3, 1}, {3, 1, 0}, {3, 2}, {3, 2, 0}}
    /\ {2} \notin {{2, 0}, {2, 1}, {2, 1, 0}, {3}, {3, 0}, {3, 1}, {3, 1, 0}, {3, 2}, {3, 2, 0}}
    /\ {2, 0} \notin {{2, 1}, {2, 1, 0}, {3}, {3, 0}, {3, 1}, {3, 1, 0}, {3, 2}, {3, 2, 0}}
    /\ {2, 1} \notin {{2, 1, 0}, {3}, {3, 0}, {3, 1}, {3, 1, 0}, {3, 2}, {3, 2, 0}}
    /\ {2, 1, 0} \notin {{3}, {3, 0}, {3, 1}, {3, 1, 0}, {3, 2}, {3, 2, 0}}
    /\ {3} \notin {{3, 0}, {3, 1}, {3, 1, 0}, {3, 2}, {3, 2, 0}}
    /\ {3, 0} \notin {{3, 1}, {3, 1, 0}, {3, 2}, {3, 2, 0}}
    /\ {3, 1} \notin {{3, 1, 0}, {3, 2}, {3, 2, 0}}
    /\ {3, 1, 0} \notin {{3, 2}, {3, 2, 0}}
    /\ {3, 2} \notin {{3, 2, 0}}
<1>1. {} \notin {{0}, {1}, {1, 0}, {2}, {2, 0}, {2, 1}, {2, 1, 0},
            {3}, {3, 0}, {3, 1}, {3, 1, 0}, {3, 2}, {3, 2, 0}}
  OBVIOUS
<1>2. {0} \notin {{1}, {1, 0}, {2}, {2, 0}, {2, 1}, {2, 1, 0},
            {3}, {3, 0}, {3, 1}, {3, 1, 0}, {3, 2}, {3, 2, 0}}
  <2>1. \A s \in {{1}, {2}, {2, 1}, {3}, {3, 1}, {3, 2}} : 0 \notin s
    OBVIOUS
  <2>2. \A s \in {{1, 0}, {2, 0}, {2, 1, 0}, {3, 0}, {3, 1, 0}, {3, 2, 0}} :
            1 \in s \/ 2 \in s \/ 3 \in s
    OBVIOUS
  <2> QED BY <2>1, <2>2
<1>3. {1} \notin {{1, 0}, {2}, {2, 0}, {2, 1}, {2, 1, 0}, {3},
            {3, 0}, {3, 1}, {3, 1, 0}, {3, 2}, {3, 2, 0}}
  OBVIOUS
<1>4. {1, 0} \notin {{2}, {2, 0}, {2, 1}, {2, 1, 0}, {3},
            {3, 0}, {3, 1}, {3, 1, 0}, {3, 2}, {3, 2, 0}}
  OBVIOUS
<1>5. {2} \notin {{2, 0}, {2, 1}, {2, 1, 0}, {3}, {3, 0},
            {3, 1}, {3, 1, 0}, {3, 2}, {3, 2, 0}}
  OBVIOUS
<1>6. {2, 0} \notin {{2, 1}, {2, 1, 0}, {3}, {3, 0},
            {3, 1}, {3, 1, 0}, {3, 2}, {3, 2, 0}}
  OBVIOUS
<1>7. {2, 1} \notin {{2, 1, 0}, {3}, {3, 0}, {3, 1}, {3, 1, 0}, {3, 2}, {3, 2, 0}}
  OBVIOUS
<1>8. {2, 1, 0} \notin {{3}, {3, 0}, {3, 1}, {3, 1, 0}, {3, 2}, {3, 2, 0}}
  OBVIOUS
<1>9. {3} \notin {{3, 0}, {3, 1}, {3, 1, 0}, {3, 2}, {3, 2, 0}}
  OBVIOUS
<1>10. {3, 0} \notin {{3, 1}, {3, 1, 0}, {3, 2}, {3, 2, 0}}
  OBVIOUS
<1>11. {3, 1} \notin {{3, 1, 0}, {3, 2}, {3, 2, 0}}
  OBVIOUS
<1>12. {3, 1, 0} \notin {{3, 2}, {3, 2, 0}}
  OBVIOUS
<1>13. {3, 2} \notin {{3, 2, 0}}
  OBVIOUS
<1> QED BY <1>1, <1>2, <1>3, <1>4, <1>5, <1>6, <1>7, <1>8, <1>9, <1>10, <1>11, <1>12, <1>13

\* The rows of the table of arm_load_store.c.
LEMMA EvenRows ==
    ASSUME NEW f
    PROVE  /\ EvenCondition({}, f) = (Z \in f)
           /\ EvenCondition({1}, f) = (C \in f)
           /\ EvenCondition({2}, f) = (N \in f)
           /\ EvenCondition({2, 1}, f) = (V \in f)
           /\ EvenCondition({3}, f) = (C \in f /\ Z \notin f)
           /\ EvenCondition({3, 1}, f) = (N \in f <=> V \in f)
           /\ EvenCondition({3, 2}, f) = (Z \notin f /\ (N \in f <=> V \in f))
<1>1. EvenCondition({}, f) = (Z \in f)
  BY ConditionsDiffer, ZenonT(30) DEF EvenCondition
<1>2. EvenCondition({1}, f) = (C \in f)
  BY ConditionsDiffer, ZenonT(30) DEF EvenCondition
<1>3. EvenCondition({2}, f) = (N \in f)
  BY ConditionsDiffer, ZenonT(30) DEF EvenCondition
<1>4. EvenCondition({2, 1}, f) = (V \in f)
  BY ConditionsDiffer, ZenonT(30) DEF EvenCondition
<1>5. EvenCondition({3}, f) = (C \in f /\ Z \notin f)
  BY ConditionsDiffer, ZenonT(30) DEF EvenCondition
<1>6. EvenCondition({3, 1}, f) = (N \in f <=> V \in f)
  BY ConditionsDiffer, ZenonT(30) DEF EvenCondition
<1>7. EvenCondition({3, 2}, f) = (Z \notin f /\ (N \in f <=> V \in f))
  BY ConditionsDiffer, ZenonT(30) DEF EvenCondition
<1> QED BY <1>1, <1>2, <1>3, <1>4, <1>5, <1>6, <1>7

\* The rows of the table of arm_instruction.c.
LEMMA DecodeRows ==
    ASSUME NEW f
    PROVE  /\ arm_decode_condition({}, f) = (Z \in f)
           /\ arm_decode_condition({0}, f) = (Z \notin f)
           /\ arm_decode_condition({1}, f) = (C \in f)
           /\ arm_decode_condition({1, 0}, f) = (C \notin f)
           /\ arm_decode_condition({2}, f) = (N \in f)
           /\ arm_decode_condition({2, 0}, f) = (N \notin f)
           /\ arm_decode_condition({2, 1}, f) = (V \in f)
           /\ arm_decode_condition({2, 1, 0}, f) = (V \notin f)
           /\ arm_decode_condition({3}, f) = (f \cap {Z, C} = {C})
           /\ arm_decode_condition({3, 0}, f) = (Z \in f \/ C \notin f)
           /\ arm_decode_condition({3, 1}, f) = (N \in f <=> V \in f)
           /\ arm_decode_condition({3, 1, 0}, f) = (~(N \in f <=> V \in f))
           /\ arm_decode_condition({3, 2}, f) = ((N \in f <=> V \in f) /\ Z \notin f)
           /\ arm_decode_condition({3, 2, 0}, f) = (~(N \in f <=> V \in f) \/ Z \in f)
<1>1. arm_decode_condition({}, f) = (Z \in f)
  BY ConditionsDiffer, ZenonT(30) DEF arm_decode_condition
<1>2. arm_decode_condition({0}, f) = (Z \notin f)
  BY ConditionsDiffer, ZenonT(30) DEF arm_decode_condition
<1>3. arm_decode_condition({1}, f) = (C \in f)
  BY ConditionsDiffer, ZenonT(30) DEF arm_decode_condition
<1>4. arm_decode_condition({1, 0}, f) = (C \notin f)
  BY ConditionsDiffer, ZenonT(30) DEF arm_decode_condition
<1>5. arm_decode_condition({2}, f) = (N \in f)
  BY ConditionsDiffer, ZenonT(30) DEF arm_decode_condition
<1>6. arm_decode_condition({2, 0}, f) = (N \notin f)
  BY ConditionsDiffer, ZenonT(30) DEF arm_decode_condition
<1>7. arm_decode_condition({2, 1}, f) = (V \in f)
  BY ConditionsDiffer, ZenonT(30) DEF arm_decode_condition
<1>8. arm_decode_condition({2, 1, 0}, f) = (V \notin f)
  BY ConditionsDiffer, ZenonT(30) DEF arm_decode_condition
<1>9. arm_decode_condition({3}, f) = (f \cap {Z, C} = {C})
  BY ConditionsDiffer, ZenonT(30) DEF arm_decode_condition
<1>10. arm_decode_condition({3, 0}, f) = (Z \in f \/ C \notin f)
  BY ConditionsDiffer, ZenonT(30) DEF arm_decode_condition
<1>11. arm_decode_condition({3, 1}, f) = (N \in f <=> V \in f)
  BY ConditionsDiffer, ZenonT(30) DEF arm_decode_condition
<1>12. arm_decode_condition({3, 1, 0}, f) = (~(N \in f <=> V \in f))
  BY ConditionsDiffer, ZenonT(30) DEF arm_decode_condition
<1>13. arm_decode_condition({3, 2}, f) = ((N \in f <=> V \in f) /\ Z \notin f)
  BY ConditionsDiffer, ZenonT(30) DEF arm_decode_condition
<1>14. arm_decode_condition({3, 2, 0}, f) = (~(N \in f <=> V \in f) \/ Z \in f)
  BY ConditionsDiffer, ZenonT(30) DEF arm_decode_condition
<1> QED BY <1>1, <1>2, <1>3, <1>4, <1>5, <1>6, <1>7, <1>8, <1>9, <1>10, <1>11, <1>12, <1>13, <1>14

\* The two tables agree, whatever the flags.
LEMMA TablesAgree ==
    ASSUME NEW f, NEW cond \in Conditions
    PROVE  arm_decode_condition(cond, f) = ConditionTable(cond, f)
<1>1. Z # C /\ (f \cap {Z, C} = {C} <=> C \in f /\ Z \notin f)
  BY DEF Z, C
<1>2. CASE cond = {}
  <2>1. 0 \notin {}
    OBVIOUS
  <2>2. ConditionTable({}, f) = EvenCondition({}, f)
    BY <2>1 DEF ConditionTable
  <2> QED BY <1>1, <1>2, <2>2, EvenRows, DecodeRows, ZenonT(30)
<1>9. CASE cond = {0}
  <2>1. 0 \in {0} /\ {0} \ {0} = {}
    OBVIOUS
  <2>2. ConditionTable({0}, f) = ~EvenCondition({}, f)
    BY <2>1 DEF ConditionTable
  <2> QED BY <1>1, <1>9, <2>2, EvenRows, DecodeRows, ZenonT(30)
<1>3. CASE cond = {1}
  <2>1. 0 \notin {1}
    OBVIOUS
  <2>2. ConditionTable({1}, f) = EvenCondition({1}, f)
    BY <2>1 DEF ConditionTable
  <2> QED BY <1>1, <1>3, <2>2, EvenRows, DecodeRows, ZenonT(30)
<1>10. CASE cond = {1, 0}
  <2>1. 0 \in {1, 0} /\ {1, 0} \ {0} = {1}
    OBVIOUS
  <2>2. ConditionTable({1, 0}, f) = ~EvenCondition({1}, f)
    BY <2>1 DEF ConditionTable
  <2> QED BY <1>1, <1>10, <2>2, EvenRows, DecodeRows, ZenonT(30)
<1>4. CASE cond = {2}
  <2>1. 0 \notin {2}
    OBVIOUS
  <2>2. ConditionTable({2}, f) = EvenCondition({2}, f)
    BY <2>1 DEF ConditionTable
  <2> QED BY <1>1, <1>4, <2>2, EvenRows, DecodeRows, ZenonT(30)
<1>11. CASE cond = {2, 0}
  <2>1. 0 \in {2, 0} /\ {2, 0} \ {0} = {2}
    OBVIOUS
  <2>2. ConditionTable({2, 0}, f) = ~EvenCondition({2}, f)
    BY <2>1 DEF ConditionTable
  <2> QED BY <1>1, <1>11, <2>2, EvenRows, DecodeRows, ZenonT(30)
<1>5. CASE cond = {2, 1}
  <2>1. 0 \notin {2, 1}
    OBVIOUS
  <2>2. ConditionTable({2, 1}, f) = EvenCondition({2, 1}, f)
    BY <2>1 DEF ConditionTable
  <2> QED BY <1>1, <1>5, <2>2, EvenRows, DecodeRows, ZenonT(30)
<1>12. CASE cond = {2, 1, 0}
  <2>1. 0 \in {2, 1, 0} /\ {2, 1, 0} \ {0} = {2, 1}
    OBVIOUS
  <2>2. ConditionTable({2, 1, 0}, f) = ~EvenCondition({2, 1}, f)
    BY <2>1 DEF ConditionTable
  <2> QED BY <1>1, <1>12, <2>2, EvenRows, DecodeRows, ZenonT(30)
<1>6. CASE cond = {3}
  <2>1. 0 \notin {3}
    OBVIOUS
  <2>2. ConditionTable({3}, f) = EvenCondition({3}, f)
    BY <2>1 DEF ConditionTable
  <2> QED BY <1>1, <1>6, <2>2, EvenRows, DecodeRows, ZenonT(30)
<1>13. CASE cond = {3, 0}
  <2>1. 0 \in {3, 0} /\ {3, 0} \ {0} = {3}
    OBVIOUS
  <2>2. ConditionTable({3, 0}, f) = ~EvenCondition({3}, f)
    BY <2>1 DEF ConditionTable
  <2> QED BY <1>1, <1>13, <2>2, EvenRows, DecodeRows, ZenonT(30)
<1>7. CASE cond = {3, 1}
  <2>1. 0 \notin {3, 1}
    OBVIOUS
  <2>2. ConditionTable({3, 1}, f) = EvenCondition({3, 1}, f)
    BY <2>1 DEF ConditionTable
  <2> QED BY <1>1, <1>7, <2>2, EvenRows, DecodeRows, ZenonT(30)
<1>14. CASE cond = {3, 1, 0}
  <2>1. 0 \in {3, 1, 0} /\ {3, 1, 0} \ {0} = {3, 1}
    OBVIOUS
  <2>2. ConditionTable({3, 1, 0}, f) = ~EvenCondition({3, 1}, f)
    BY <2>1 DEF ConditionTable
  <2> QED BY <1>1, <1>14, <2>2, EvenRows, DecodeRows, ZenonT(30)
<1>8. CASE cond = {3, 2}
  <2>1. 0 \notin {3, 2}
    OBVIOUS
  <2>2. ConditionTable({3, 2}, f) = EvenCondition({3, 2}, f)
    BY <2>1 DEF ConditionTable
  <2> QED BY <1>1, <1>8, <2>2, EvenRows, DecodeRows, ZenonT(30)
<1>15. CASE cond = {3, 2, 0}
  <2>1. 0 \in {3, 2, 0} /\ {3, 2, 0} \ {0} = {3, 2}
    OBVIOUS
  <2>2. ConditionTable({3, 2, 0}, f) = ~EvenCondition({3, 2}, f)
    BY <2>1 DEF ConditionTable
  <2> QED BY <1>1, <1>15, <2>2, EvenRows, DecodeRows, ZenonT(30)
<1> QED BY <1>2, <1>3, <1>4, <1>5, <1>6, <1>7, <1>8,
       <1>9, <1>10, <1>11, <1>12, <1>13, <1>14, <1>15, ZenonT(30) DEF Conditions

---------------------------------------------------------------------------
(* The operations of executeInst by their opcodes.                         *)

\* No two opcodes are the same.
LEMMA OpcodesDiffer ==
    /\ AND \notin {EOR, SUB, RSB, ADD, ADC, SBC, RSC, TST, TEQ, CMP, CMN, ORR, MOV,
                BIC, MVN}
    /\ EOR \notin {SUB, RSB, ADD, ADC, SBC, RSC, TST, TEQ, CMP, CMN, ORR, MOV, BIC, MVN}
    /\ SUB \notin {RSB, ADD, ADC, SBC, RSC, TST, TEQ, CMP, CMN, ORR, MOV, BIC, MVN}
    /\ RSB \notin {ADD, ADC, SBC, RSC, TST, TEQ, CMP, CMN, ORR, MOV, BIC, MVN}
    /\ ADD \notin {ADC, SBC, RSC, TST, TEQ, CMP, CMN, ORR, MOV, BIC, MVN}
    /\ ADC \notin {SBC, RSC, TST, TEQ, CMP, CMN, ORR, MOV, BIC, MVN}
    /\ SBC \notin {RSC, TST, TEQ, CMP, CMN, ORR, MOV, BIC, MVN}
    /\ RSC \notin {TST, TEQ, CMP, CMN, ORR, MOV, BIC, MVN}
    /\ TST \notin {TEQ, CMP, CMN, ORR, MOV, BIC, MVN}
    /\ TEQ \notin {CMP, CMN, ORR, MOV, BIC, MVN}
    /\ CMP \notin {CMN, ORR, MOV, BIC, MVN}
    /\ CMN \notin {ORR, MOV, BIC, MVN}
    /\ ORR \notin {MOV, BIC, MVN}
    /\ MOV \notin {BIC, MVN}
    /\ BIC \notin {MVN}
<1>1. AND \notin {EOR, SUB, RSB, ADD, ADC, SBC, RSC, TST, TEQ, CMP, CMN, ORR, MOV, BIC,
                    MVN}
  BY DEF AND, EOR, SUB, RSB, ADD, ADC, SBC, RSC, TST, TEQ, CMP, CMN, ORR, MOV, BIC, MVN
<1>2. EOR \notin {SUB, RSB, ADD, ADC, SBC, RSC, TST, TEQ, CMP, CMN, ORR, MOV, BIC, MVN}
  BY DEF EOR, SUB, RSB, ADD, ADC, SBC, RSC, TST, TEQ, CMP, CMN, ORR, MOV, BIC, MVN
<1>3. SUB \notin {RSB, ADD, ADC, SBC, RSC, TST, TEQ, CMP, CMN, ORR, MOV, BIC, MVN}
  BY DEF SUB, RSB, ADD, ADC, SBC, RSC, TST, TEQ, CMP, CMN, ORR, MOV, BIC, MVN
<1>4. RSB \notin {ADD, ADC, SBC, RSC, TST, TEQ, CMP, CMN, ORR, MOV, BIC, MVN}
  BY DEF RSB, ADD, ADC, SBC, RSC, TST, TEQ, CMP, CMN, ORR, MOV, BIC, MVN
<1>5. ADD \notin {ADC, SBC, RSC, TST, TEQ, CMP, CMN, ORR, MOV, BIC, MVN}
  BY DEF ADD, ADC, SBC, RSC, TST, TEQ, CMP, CMN, ORR, MOV, BIC, MVN
<1>6. ADC \notin {SBC, RSC, TST, TEQ, CMP, CMN, ORR, MOV, BIC, MVN}
  BY DEF ADC, SBC, RSC, TST, TEQ, CMP, CMN, ORR, MOV, BIC, MVN
<1>7. SBC \notin {RSC, TST, TEQ, CMP, CMN, ORR, MOV, BIC, MVN}
  BY DEF SBC, RSC, TST, TEQ, CMP, CMN, ORR, MOV, BIC, MVN
<1>8. RSC \notin {TST, TEQ, CMP, CMN, ORR, MOV, BIC, MVN}
  BY DEF RSC, TST, TEQ, CMP, CMN, ORR, MOV, BIC, MVN
<1>9. TST \notin {TEQ, CMP, CMN, ORR, MOV, BIC, MVN}
  BY DEF TST, TEQ, CMP, CMN, ORR, MOV, BIC, MVN
<1>10. TEQ \notin {CMP, CMN, ORR, MOV, BIC, MVN}
  BY DEF TEQ, CMP, CMN, ORR, MOV, BIC, MVN
<1>11. CMP \notin {CMN, ORR, MOV, BIC, MVN}
  BY DEF CMP, CMN, ORR, MOV, BIC, MVN
<1>12. CMN \notin {ORR, MOV, BIC, MVN}
  BY DEF CMN, ORR, MOV, BIC, MVN
<1>13. ORR \notin {MOV, BIC, MVN}
  BY DEF ORR, MOV, BIC, MVN
<1>14. MOV \notin {BIC, MVN}
  <2>1. 1 \notin MOV /\ 1 \in BIC /\ 1 \in MVN
    BY DEF MOV, BIC, MVN
  <2> QED BY <2>1
<1>15. BIC \notin {MVN}
  <2>1. 0 \notin BIC /\ 0 \in MVN
    BY DEF BIC, MVN
  <2> QED BY <2>1
<1> QED BY <1>1, <1>2, <1>3, <1>4, <1>5, <1>6, <1>7, <1>8, <1>9, <1>10, <1>11, <1>12, <1>13, <1>14, <1>15

\* What each opcode computes.
LEMMA Results ==
    ASSUME NEW x, NEW y, NEW c, NEW o
    PROVE  /\ o \in {AND, TST} => Result(o, x, y, c) = Truth(x # {} /\ y # {})
           /\ o \in {EOR, TEQ} => Result(o, x, y, c) = Truth((x # {}) # (y # {}))
           /\ o \in {SUB, CMP} => Result(o, x, y, c) = Sub(x, y)
           /\ o = RSB => Result(o, x, y, c) = Sub(y, x)
           /\ o \in {ADD, CMN} => Result(o, x, y, c) = Add(y, x)
           /\ o = ADC => Result(o, x, y, c) = Add(Add(y, x), Truth(c))
           /\ o = SBC => Result(o, x, y, c) = SubWithCarry(x, y, c)
           /\ o = RSC => Result(o, x, y, c) = SubWithCarry(y, x, c)
           /\ o = ORR => Result(o, x, y, c) = Truth(x # {} \/ y # {})
           /\ o = MOV => Result(o, x, y, c) = y
           /\ o = BIC => Result(o, x, y, c) = Truth(x # {} /\ Complement(y) # {})
           /\ o = MVN => Result(o, x, y, c) = Complement(y)
<1>1. o \in {AND, TST} => Result(o, x, y, c) = Truth(x # {} /\ y # {})
  BY OpcodesDiffer, Zenon DEF Result
<1>2. o \in {EOR, TEQ} => Result(o, x, y, c) = Truth((x # {}) # (y # {}))
  BY OpcodesDiffer, Zenon DEF Result
<1>3. o \in {SUB, CMP} => Result(o, x, y, c) = Sub(x, y)
  BY OpcodesDiffer, Zenon DEF Result
<1>4. o = RSB => Result(o, x, y, c) = Sub(y, x)
  BY OpcodesDiffer, Zenon DEF Result
<1>5. o \in {ADD, CMN} => Result(o, x, y, c) = Add(y, x)
  BY OpcodesDiffer, Zenon DEF Result
<1>6. o = ADC => Result(o, x, y, c) = Add(Add(y, x), Truth(c))
  BY OpcodesDiffer, Zenon DEF Result
<1>7. o = SBC => Result(o, x, y, c) = SubWithCarry(x, y, c)
  BY OpcodesDiffer, Zenon DEF Result
<1>8. o = RSC => Result(o, x, y, c) = SubWithCarry(y, x, c)
  BY OpcodesDiffer, Zenon DEF Result
<1>9. o = ORR => Result(o, x, y, c) = Truth(x # {} \/ y # {})
  BY OpcodesDiffer, Zenon DEF Result
<1>10. o = MOV => Result(o, x, y, c) = y
  BY OpcodesDiffer, Zenon DEF Result
<1>11. o = BIC => Result(o, x, y, c) = Truth(x # {} /\ Complement(y) # {})
  BY OpcodesDiffer, Zenon DEF Result
<1>12. o = MVN => Result(o, x, y, c) = Complement(y)
  BY OpcodesDiffer, Zenon DEF Result
<1> QED BY <1>1, <1>2, <1>3, <1>4, <1>5, <1>6, <1>7, <1>8, <1>9, <1>10, <1>11, <1>12, Zenon

\* What the additions leave in V.
LEMMA OverflowsOfAdditions ==
    ASSUME NEW x, NEW y, NEW c, NEW v, NEW s, NEW o
    PROVE  /\ o \in {ADD, CMN} =>
                (OverflowAfter(o, x, y, c, v, s) <=> getOverflowFlagAdd(s, y, x))
           /\ o = ADC => (OverflowAfter(o, x, y, c, v, s) <=> AddOverflow(x, y, c, s))
<1>1. o \in {ADD, CMN} =>
        (OverflowAfter(o, x, y, c, v, s) <=> getOverflowFlagAdd(s, y, x))
  BY OpcodesDiffer, Zenon DEF OverflowAfter
<1>2. o = ADC => (OverflowAfter(o, x, y, c, v, s) <=> AddOverflow(x, y, c, s))
  BY OpcodesDiffer, Zenon DEF OverflowAfter
<1> QED BY <1>1, <1>2

\* Every opcode computes a word.
LEMMA ResultsAreWords ==
    ASSUME NEW x \in Word, NEW y \in Word, NEW c \in BOOLEAN, NEW o \in Opcode
    PROVE  Result(o, x, y, c) \in Word
<1>1. \A b : Truth(b) \in Word
  BY OneIsOne DEF Truth, One
<1>2. \A a, b \in Word : Add(a, b) \in Word /\ Sub(a, b) \in Word
  BY SumsOfWords
<1>3. Complement(y) \in Word
  BY Numbers
<1>4. \A a, b \in Word : SubWithCarry(a, b, c) \in Word
  <2>1. (IF c THEN {1} ELSE One) \in Word
    BY OneIsOne, Weights DEF Word, Bits
  <2> QED BY <1>2, <2>1 DEF SubWithCarry
<1>5. o \in {AND, TST, EOR, TEQ, SUB, CMP, RSB, ADD, CMN, ADC, SBC, RSC, ORR, MOV, BIC, MVN}
  <2>1. o \subseteq {0, 1, 2, 3}
    BY DEF Opcode
  <2>2. CASE 3 \in o /\ 2 \in o
    BY <2>1, <2>2 DEF ORR, MOV, BIC, MVN
  <2>3. CASE 3 \in o /\ 2 \notin o
    BY <2>1, <2>3 DEF TST, TEQ, CMP, CMN
  <2>4. CASE 3 \notin o /\ 2 \in o
    BY <2>1, <2>4 DEF ADD, ADC, SBC, RSC
  <2>5. CASE 3 \notin o /\ 2 \notin o
    BY <2>1, <2>5 DEF AND, EOR, SUB, RSB
  <2> QED BY <2>2, <2>3, <2>4, <2>5
<1>6. CASE o \in {AND, TST}
  BY <1>1, <1>6, Results
<1>7. CASE o \in {EOR, TEQ}
  BY <1>1, <1>7, Results
<1>8. CASE o \in {SUB, CMP}
  BY <1>2, <1>8, Results
<1>9. CASE o \in {ADD, CMN}
  BY <1>2, <1>9, Results
<1>10. CASE o = RSB
  BY <1>2, <1>10, Results
<1>11. CASE o = ADC
  BY <1>1, <1>2, <1>11, Results
<1>12. CASE o = SBC
  BY <1>4, <1>12, Results
<1>13. CASE o = RSC
  BY <1>4, <1>13, Results
<1>14. CASE o = ORR
  BY <1>1, <1>14, Results
<1>15. CASE o = BIC
  BY <1>1, <1>15, Results
<1>16. CASE o \in {MOV, MVN}
  BY <1>3, <1>16, Results
<1> QED BY <1>5, <1>6, <1>7, <1>8, <1>9, <1>10, <1>11, <1>12, <1>13,
       <1>14, <1>15, <1>16

---------------------------------------------------------------------------
(* What an execution leaves.                                               *)

\* The flags left are those of the result of some execution of the opcode.
Executed ==
    /\ res = Result(opcode, rn, so, carry)
    /\ \E old \in SUBSET Flags : carry = (C \in old) /\ flags = FlagsAfter(opcode, rn, so, old)

IInv ==
    /\ opcode \in Opcode /\ rn \in Word /\ so \in Word
    /\ flags \subseteq Flags /\ carry \in BOOLEAN /\ done \in BOOLEAN
    /\ ~done => res = {} /\ carry = (C \in flags)
    /\ done => Executed

LEMMA Invariant == Spec => []IInv
<1>1. Init => IInv
  <2> SUFFICES ASSUME Init PROVE IInv
    OBVIOUS
  <2>1. flags \subseteq Flags /\ done \in BOOLEAN /\ ~done
    BY DEF Init
  <2>2. carry = (C \in flags)
    BY Zenon DEF Init
  <2>3. carry \in BOOLEAN
    BY <2>2
  <2> QED BY <2>1, <2>2, <2>3, Zenon DEF Init, IInv
<1>2. IInv /\ [Next]_vars => IInv'
  <2> SUFFICES ASSUME IInv, [Next]_vars PROVE IInv'
    OBVIOUS
  <2>1. CASE Execution
    <3>1. ~done /\ done' = TRUE /\ res' = Result(opcode, rn, so, carry)
      BY <2>1 DEF Execution
    <3>2. flags' = FlagsAfter(opcode, rn, so, flags)
      BY <2>1 DEF Execution
    <3>3. opcode' = opcode /\ rn' = rn /\ so' = so /\ carry' = carry
      BY <2>1 DEF Execution
    <3>4. carry = (C \in flags) /\ flags \in SUBSET Flags
      BY <3>1 DEF IInv
    <3>5. Executed'
      BY <3>1, <3>2, <3>3, <3>4, Zenon DEF Executed
    <3>6. flags' \subseteq Flags
      BY <3>2, Zenon DEF FlagsAfter
    <3> QED BY <3>1, <3>3, <3>5, <3>6 DEF IInv
  <2>2. CASE UNCHANGED vars
    BY <2>2 DEF vars, IInv, Executed
  <2> QED BY <2>1, <2>2 DEF Next
<1> QED BY <1>1, <1>2, PTL DEF Spec

\* The flags of the result, and V after an addition.
LEMMA AfterExecution ==
    ASSUME IInv, done
    PROVE  /\ res = Result(opcode, rn, so, carry) /\ res \in Word
           /\ Z \in flags <=> res = {}
           /\ N \in flags <=> Sign(res)
           /\ opcode \in {ADD, CMN} => (V \in flags <=> getOverflowFlagAdd(res, so, rn))
           /\ opcode = ADC => (V \in flags <=> AddOverflow(rn, so, carry, res))
<1>1. opcode \in Opcode /\ rn \in Word /\ so \in Word /\ carry \in BOOLEAN /\ Executed
  BY DEF IInv
<1>2. PICK old \in SUBSET Flags : carry = (C \in old) /\ flags = FlagsAfter(opcode, rn, so, old)
  BY <1>1 DEF Executed
<1>3. res = Result(opcode, rn, so, carry)
  BY <1>1 DEF Executed
<1>4. res \in Word
  BY <1>1, <1>3, ResultsAreWords
<1>5. Z # N /\ Z # C /\ Z # V /\ N # C /\ N # V /\ C # V /\ {Z, N, C, V} \subseteq Flags
  BY DEF Z, N, C, V, Flags
<1>6. flags = {f \in Flags : \/ f = Z /\ res = {}
                             \/ f = N /\ Sign(res)
                             \/ f = C /\ CarryAfter(opcode, rn, so, carry)
                             \/ f = V /\ OverflowAfter(opcode, rn, so, carry, V \in old, res)}
  BY <1>2, <1>3, Zenon DEF FlagsAfter
<1>7. Z \in flags <=> res = {}
  BY <1>5, <1>6, Zenon
<1>8. N \in flags <=> Sign(res)
  BY <1>5, <1>6, Zenon
<1>9. V \in flags <=> OverflowAfter(opcode, rn, so, carry, V \in old, res)
  BY <1>5, <1>6, Zenon
<1> QED BY <1>3, <1>4, <1>7, <1>8, <1>9, OverflowsOfAdditions, Zenon

---------------------------------------------------------------------------
(* The theorems.                                                           *)

\* TypeOK: the result is a word and the flags are flags.
THEOREM ArithmeticTyped == Spec => []TypeOK
<1>1. IInv => TypeOK
  <2> SUFFICES ASSUME IInv PROVE TypeOK
    OBVIOUS
  <2>1. flags \subseteq Flags /\ done \in BOOLEAN
    BY DEF IInv
  <2>2. res \in Word
    <3>1. CASE done
      BY <3>1, AfterExecution
    <3>2. CASE ~done
      BY <3>2, OneIsOne DEF IInv
    <3> QED BY <3>1, <3>2
  <2> QED BY <2>1, <2>2 DEF TypeOK
<1> QED BY <1>1, Invariant, PTL

\* What is computed modulo the word is the word's own number.
LEMMA Modulo ==
    ASSUME NEW m \in Nat \ {0}, NEW r \in 0..(m - 1)
    PROVE  r % m = r /\ (r + m) % m = r /\ (r - m) % m = r /\ ((r + m) + m) % m = r
OBVIOUS

\* Exact by the opcodes.
LEMMA ExactByOpcode ==
    /\ opcode \in {SUB, CMP} => Exact(Unsigned) = Unsigned(rn) - Unsigned(so)
    /\ opcode = RSB => Exact(Unsigned) = Unsigned(so) - Unsigned(rn)
    /\ opcode \in {ADD, CMN} => /\ Exact(Unsigned) = Unsigned(rn) + Unsigned(so)
                                /\ Exact(Signed) = Signed(rn) + Signed(so)
    /\ opcode = ADC => /\ Exact(Unsigned) = Unsigned(rn) + Unsigned(so) + CarryIn
                       /\ Exact(Signed) = Signed(rn) + Signed(so) + CarryIn
    /\ opcode = MOV => Exact(Unsigned) = Unsigned(so)
    /\ opcode = MVN => Exact(Unsigned) = -1 - Unsigned(so)
<1>1. opcode \in {SUB, CMP} => Exact(Unsigned) = Unsigned(rn) - Unsigned(so)
  BY OpcodesDiffer, Zenon DEF Exact
<1>2. opcode = RSB => Exact(Unsigned) = Unsigned(so) - Unsigned(rn)
  BY OpcodesDiffer, Zenon DEF Exact
<1>3. opcode \in {ADD, CMN} => /\ Exact(Unsigned) = Unsigned(rn) + Unsigned(so)
                               /\ Exact(Signed) = Signed(rn) + Signed(so)
  BY OpcodesDiffer, Zenon DEF Exact
<1>4. opcode = ADC => /\ Exact(Unsigned) = Unsigned(rn) + Unsigned(so) + CarryIn
                      /\ Exact(Signed) = Signed(rn) + Signed(so) + CarryIn
  BY OpcodesDiffer, Zenon DEF Exact
<1>5. opcode = MOV => Exact(Unsigned) = Unsigned(so)
  BY OpcodesDiffer, Zenon DEF Exact
<1>6. opcode = MVN => Exact(Unsigned) = -1 - Unsigned(so)
  BY OpcodesDiffer, Zenon DEF Exact
<1> QED BY <1>1, <1>2, <1>3, <1>4, <1>5, <1>6

\* The carry in, as a word and as a number.
LEMMA CarryInIsTruth ==
    ASSUME carry \in BOOLEAN
    PROVE  Truth(carry) \in Word /\ Unsigned(Truth(carry)) = CarryIn /\ CarryIn \in {0, 1}
BY OneIsOne DEF Truth, One, CarryIn

\* ArithmeticExact: the eight opcodes compute modulo the word.
THEOREM ArithmeticIsExact == Spec => []ArithmeticExact
<1>1. IInv => ArithmeticExact
  <2> SUFFICES ASSUME IInv, done, opcode \in Exactly
               PROVE  /\ Unsigned(res) = Exact(Unsigned) % Modulus
                      /\ Z \in flags <=> Exact(Unsigned) % Modulus = 0
                      /\ N \in flags <=> Exact(Unsigned) % Modulus >= Modulus \div 2
    BY DEF ArithmeticExact
  <2> DEFINE n == Unsigned(rn)
             s == Unsigned(so)
             m == Modulus
             r == Unsigned(res)
  <2>1. rn \in Word /\ so \in Word /\ carry \in BOOLEAN /\ res \in Word
    BY AfterExecution DEF IInv
  <2>2. /\ m \in Nat \ {0} /\ n \in Int /\ s \in Int /\ r \in 0..(m - 1)
        /\ r \in Int /\ m \in Int
    BY <2>1, Numbers
  <2>3. res = Result(opcode, rn, so, carry)
    BY AfterExecution
  <2>4. Exact(Unsigned) \in {r, r + m, r - m, (r + m) + m}
    <3>1. CASE opcode \in {SUB, CMP}
      <4>1. Exact(Unsigned) = n - s /\ res = Sub(rn, so)
        <5>1. Exact(Unsigned) = n - s
          BY <3>1, ExactByOpcode, Zenon
        <5>2. res = Sub(rn, so)
          BY <2>3, <3>1, Results
        <5> QED BY <5>1, <5>2
      <4> HIDE DEF m
      <4> QED BY <2>1, <4>1, SumsOfWords DEF m
    <3>2. CASE opcode = RSB
      <4>1. Exact(Unsigned) = s - n /\ res = Sub(so, rn)
        BY <2>3, <3>2, ExactByOpcode, Results
      <4> QED BY <2>1, <4>1, SumsOfWords
    <3>3. CASE opcode \in {ADD, CMN}
      <4>1. Exact(Unsigned) = n + s /\ res = Add(so, rn)
        <5>1. Exact(Unsigned) = n + s
          BY <3>3, ExactByOpcode, Zenon
        <5>2. res = Add(so, rn)
          BY <2>3, <3>3, Results
        <5> QED BY <5>1, <5>2
      <4>2. s + n = r \/ s + n = r + m
        BY <2>1, <4>1, SumsOfWords
      <4> QED BY <2>2, <4>1, <4>2
    <3>4. CASE opcode = ADC
      <4> DEFINE t == Unsigned(Add(so, rn))
      <4>1. Exact(Unsigned) = n + s + CarryIn /\ res = Add(Add(so, rn), Truth(carry))
        BY <2>3, <3>4, ExactByOpcode, Results
      <4>2. /\ Truth(carry) \in Word /\ Unsigned(Truth(carry)) = CarryIn /\ CarryIn \in Int
            /\ Add(so, rn) \in Word
        BY <2>1, CarryInIsTruth, SumsOfWords
      <4>3. s + n = t \/ s + n = t + m
        BY <2>1, SumsOfWords
      <4>4. t + CarryIn = r \/ t + CarryIn = r + m
        BY <4>1, <4>2, SumsOfWords
      <4>5. t \in Int
        BY <4>2, Numbers
      <4> HIDE DEF t, r, n, s, m
      <4>6. n + s + CarryIn \in {r, r + m, (r + m) + m}
        BY <2>2, <4>2, <4>3, <4>4, <4>5
      <4> QED BY <4>1, <4>6
    <3>5. CASE opcode = MOV
      <4>1. Exact(Unsigned) = s /\ res = so
        BY <2>3, <3>5, ExactByOpcode, Results
      <4> QED BY <4>1
    <3>6. CASE opcode = MVN
      <4>1. Exact(Unsigned) = -1 - s /\ res = Complement(so)
        BY <2>3, <3>6, ExactByOpcode, Results
      <4>2. r = (m - 1) - s
        BY <2>1, <4>1, Numbers
      <4> HIDE DEF r, s, m
      <4>3. -1 - s = r - m
        BY <2>2, <4>2
      <4> QED BY <4>1, <4>3
    <3> QED BY <3>1, <3>2, <3>3, <3>4, <3>5, <3>6 DEF Exactly
  <2>5. Exact(Unsigned) % m = r
    <3> HIDE DEF r, m
    <3> QED BY <2>2, <2>4, Modulo
  <2>6. Z \in flags <=> r = 0
    BY <2>1, AfterExecution, Numbers
  <2>7. N \in flags <=> r >= m \div 2
    BY <2>1, AfterExecution, Numbers
  <2> QED BY <2>5, <2>6, <2>7
<1> QED BY <1>1, Invariant, PTL

\* Signs of numbers below 2 * h: those from h on stand for negative ones.
Negative(x, h) == x >= h
AsSigned(x, h) == x - (IF x >= h THEN 2 * h ELSE 0)
Fits(x, h) == -h <= x /\ x < h

\* The signs tell whether a signed sum fits.
LEMMA SignsOfSum ==
    ASSUME NEW h \in Nat \ {0}, NEW a \in 0..(2 * h - 1), NEW b \in 0..(2 * h - 1),
           NEW r \in 0..(2 * h - 1), a + b = r \/ a + b = r + 2 * h
    PROVE  (Negative(b, h) <=> Negative(a, h)) /\ ~(Negative(b, h) <=> Negative(r, h))
                <=> ~Fits(AsSigned(a, h) + AsSigned(b, h), h)
BY DEF Negative, AsSigned, Fits

\* When the sum fits, it is the signed number of the result.
LEMMA FittingSum ==
    ASSUME NEW h \in Nat \ {0}, NEW a \in 0..(2 * h - 1), NEW b \in 0..(2 * h - 1),
           NEW r \in 0..(2 * h - 1), a + b = r \/ a + b = r + 2 * h,
           Fits(AsSigned(a, h) + AsSigned(b, h), h)
    PROVE  AsSigned(a, h) + AsSigned(b, h) = AsSigned(r, h)
BY DEF AsSigned, Fits

\* getOverflowFlagAdd tells whether the signed sum fits in the word.
LEMMA OverflowFlag ==
    ASSUME NEW a \in Word, NEW b \in Word
    PROVE  /\ getOverflowFlagAdd(Add(a, b), a, b) <=> ~Fits(Signed(a) + Signed(b), Half)
           /\ Fits(Signed(a) + Signed(b), Half) => Signed(a) + Signed(b) = Signed(Add(a, b))
<1> DEFINE r == Add(a, b)
           ua == Unsigned(a)
           ub == Unsigned(b)
           ur == Unsigned(r)
<1>1. Half \in Nat \ {0} /\ Modulus = 2 * Half /\ r \in Word
  BY Numbers, SumsOfWords
<1>2. \A x \in Word : /\ Unsigned(x) \in 0..(2 * Half - 1)
                      /\ Sign(x) <=> Negative(Unsigned(x), Half)
                      /\ Signed(x) = AsSigned(Unsigned(x), Half)
  BY <1>1, Numbers DEF Negative, AsSigned
<1>3. ua + ub = ur \/ ua + ub = ur + 2 * Half
  BY <1>1, SumsOfWords
<1>4. ua \in 0..(2 * Half - 1) /\ ub \in 0..(2 * Half - 1) /\ ur \in 0..(2 * Half - 1)
  BY <1>1, <1>2
<1>5. getOverflowFlagAdd(r, a, b) <=>
        (Negative(ub, Half) <=> Negative(ua, Half)) /\ ~(Negative(ub, Half) <=> Negative(ur, Half))
  <2>1. /\ Sign(a) <=> Negative(ua, Half)
        /\ Sign(b) <=> Negative(ub, Half)
        /\ Sign(r) <=> Negative(ur, Half)
    BY <1>1, <1>2
  <2>2. getOverflowFlagAdd(r, a, b) <=> (Sign(b) <=> Sign(a)) /\ ~(Sign(b) <=> Sign(r))
    BY DEF getOverflowFlagAdd, Sign, get_bit
  <2> QED BY <2>1, <2>2
<1>6. /\ Signed(a) = AsSigned(ua, Half) /\ Signed(b) = AsSigned(ub, Half)
      /\ Signed(r) = AsSigned(ur, Half)
  BY <1>1, <1>2
<1> HIDE DEF r, ua, ub, ur
<1>7. (Negative(ub, Half) <=> Negative(ua, Half)) /\ ~(Negative(ub, Half) <=> Negative(ur, Half))
        <=> ~Fits(AsSigned(ua, Half) + AsSigned(ub, Half), Half)
  BY <1>1, <1>3, <1>4, SignsOfSum
<1>8. Fits(AsSigned(ua, Half) + AsSigned(ub, Half), Half) =>
        AsSigned(ua, Half) + AsSigned(ub, Half) = AsSigned(ur, Half)
  BY <1>1, <1>3, <1>4, FittingSum
<1>9. getOverflowFlagAdd(r, a, b) <=> ~Fits(Signed(a) + Signed(b), Half)
  BY <1>5, <1>6, <1>7
<1>10. Fits(Signed(a) + Signed(b), Half) => Signed(a) + Signed(b) = Signed(r)
  BY <1>6, <1>8
<1> QED BY <1>9, <1>10 DEF r

\* OverflowOfAdditions: V is exact after ADD and CMN and misses no overflow of ADC.
THEOREM OverflowsAreFlagged == Spec => []OverflowOfAdditions
<1>1. IInv => OverflowOfAdditions
  <2> SUFFICES ASSUME IInv, done
               PROVE  /\ opcode \in {ADD, CMN} => (V \in flags <=> Overflows)
                      /\ opcode = ADC /\ Overflows => V \in flags
    BY DEF OverflowOfAdditions
  <2>1. rn \in Word /\ so \in Word /\ carry \in BOOLEAN /\ res = Result(opcode, rn, so, carry)
    BY AfterExecution DEF IInv
  <2>2. \A x \in Word : Signed(x) \in Int
    <3>1. Modulus \in Int /\ \A x \in Word : Unsigned(x) \in Int
      BY Numbers
    <3> QED BY <3>1, Numbers
  <2>3. Half \in Nat \ {0}
    BY Numbers
  <2>4. Exact(Signed) \in Int => (Overflows <=> ~Fits(Exact(Signed), Half))
    <3> DEFINE e == Exact(Signed)
    <3> HIDE DEF e
    <3>1. e \in Int => (e \notin -Half..(Half - 1) <=> ~Fits(e, Half))
      BY <2>3 DEF Fits
    <3>2. Modulus \div 2 = Half
      BY Numbers
    <3>3. Overflows <=> e \notin -Half..(Half - 1)
      BY <3>2 DEF Overflows, e
    <3> QED BY <3>1, <3>3 DEF e
  <2> DEFINE t == Add(so, rn)
  <2>5. t \in Word /\ (getOverflowFlagAdd(t, so, rn) <=> ~Fits(Signed(so) + Signed(rn), Half))
        /\ (Fits(Signed(so) + Signed(rn), Half) => Signed(so) + Signed(rn) = Signed(t))
    BY <2>1, OverflowFlag, SumsOfWords
  <2>6. ASSUME opcode \in {ADD, CMN} PROVE V \in flags <=> Overflows
    <3>1. Exact(Signed) = Signed(rn) + Signed(so) /\ res = t
      <4>1. Exact(Signed) = Signed(rn) + Signed(so)
        BY <2>6, ExactByOpcode, Zenon
      <4>2. res = t
        BY <2>1, <2>6, Results
      <4> QED BY <4>1, <4>2
    <3>2. Signed(rn) + Signed(so) = Signed(so) + Signed(rn) /\ Signed(rn) + Signed(so) \in Int
      BY <2>1, <2>2
    <3>3. V \in flags <=> getOverflowFlagAdd(res, so, rn)
      BY <2>6, AfterExecution
    <3> QED BY <2>4, <2>5, <3>1, <3>2, <3>3
  <2>7. ASSUME opcode = ADC, Overflows, V \notin flags PROVE FALSE
    <3>1. Exact(Signed) = Signed(rn) + Signed(so) + CarryIn /\ res = Add(t, Truth(carry))
      BY <2>1, <2>7, ExactByOpcode, Results
    <3>2. Signed(rn) + Signed(so) = Signed(so) + Signed(rn) /\ Signed(rn) + Signed(so) \in Int
      BY <2>1, <2>2
    <3>3. CarryIn \in {0, 1} /\ Signed(t) \in Int /\ (carry <=> CarryIn = 1)
      BY <2>1, <2>2, <2>5 DEF CarryIn
    <3>4. ~AddOverflow(rn, so, carry, res)
      BY <2>7, AfterExecution
    <3>5. Signed(so) + Signed(rn) = Signed(t) /\ Fits(Signed(so) + Signed(rn), Half)
      BY <2>5, <3>4 DEF AddOverflow
    <3>6. Exact(Signed) = Signed(t) + CarryIn /\ Exact(Signed) \in Int
      BY <3>1, <3>2, <3>3, <3>5
    <3>7. ~Fits(Signed(t) + CarryIn, Half)
      BY <2>4, <2>7, <3>6
    <3>8. CarryIn = 1
      BY <3>3, <3>5, <3>7
    <3>9. Signed(One) = 1 /\ One \in Word
      BY OneIsOne, Numbers
    <3>10. Truth(carry) = One
      BY <3>3, <3>8 DEF Truth, One
    <3>11. getOverflowFlagAdd(res, t, One) <=> ~Fits(Signed(t) + Signed(One), Half)
      BY <2>5, <3>1, <3>9, <3>10, OverflowFlag
    <3> QED BY <3>3, <3>4, <3>7, <3>8, <3>9, <3>11 DEF AddOverflow
  <2> QED BY <2>6, <2>7
<1> QED BY <1>1, Invariant, PTL

\* ConditionTablesAgree: the two transcriptions of the condition codes are one table.
THEOREM ConditionTablesAreOne == Spec => []ConditionTablesAgree
<1>1. ConditionTablesAgree
  <2> SUFFICES ASSUME NEW cond \in (SUBSET (0..3)) \ {AL, NeverCondition}
               PROVE  arm_decode_condition(cond, flags) = ConditionTable(cond, flags)
    BY DEF ConditionTablesAgree
  <2>1. cond \in SUBSET (0..3) /\ cond # AL /\ cond # NeverCondition
    OBVIOUS
  <2>2. cond \in Conditions
    BY <2>1, FourteenConditions, Zenon
  <2> QED BY <2>2, TablesAgree, Zenon
<1> QED BY <1>1, PTL

==============================================================================
