--------------------------- MODULE TransferProofs ---------------------------
(***************************************************************************)
(* Theorems about transfers: a load brings back what the store it mirrors  *)
(* wrote, and a store keeps to its range, for every store of the three     *)
(* forms, every register file, every memory and both byte orders.          *)
(*                                                                         *)
(* The argument is one about numbers (DataProcessingProofs): the bytes of  *)
(* a transfer are the addresses First, First + 1, ..., so that they are    *)
(* apart, and inside the memory just when these numbers are.               *)
(***************************************************************************)
EXTENDS Transfers, DataProcessingProofs, CoreLemmas, FiniteSetTheorems

---------------------------------------------------------------------------
(* The numbers of words, once more.                                        *)

LEMMA LowTyped ==
    ASSUME NEW x, NEW n \in 0..WordBits
    PROVE  Low(x, n) \in Int /\ Low(x, n) >= 0 /\ Low(x, n) < Weight[n] /\ Weight[n] \in Nat
BY LowSteps, Weights

\* A word is the number of its lowest bits when it has no others, and is not
\* below their weight when it has.
LEMMA LowOfShort ==
    ASSUME NEW x, NEW k \in 0..WordBits
    PROVE  \A n \in k..WordBits :
                /\ Weight[n] >= Weight[k]
                /\ IF \E i \in k..(n - 1) : i \in x THEN Low(x, n) >= Weight[k]
                   ELSE Low(x, n) = Low(x, k)
<1> DEFINE top == WordBits
           Tall(n) == \E i \in k..(n - 1) : i \in x
           P(n) == /\ Weight[n] >= Weight[k]
                   /\ IF Tall(n) THEN Low(x, n) >= Weight[k] ELSE Low(x, n) = Low(x, k)
           S == {j \in 0..(top - k) : P(k + j)}
<1>1. /\ top \in Nat /\ k \in 0..top
      /\ \A n \in 0..top : Weight[n] \in Nat /\ Low(x, n) \in Int /\ Low(x, n) >= 0
      /\ \A n \in 0..(top - 1) : Weight[n + 1] = 2 * Weight[n]
      /\ \A n \in 0..(top - 1) : Low(x, n + 1) = Low(x, n) + (IF n \in x THEN Weight[n] ELSE 0)
  BY Weights, LowSteps
<1> HIDE DEF top
<1>2. 0 \in S
  <2>1. ~Tall(k) /\ k + 0 = k /\ 0 \in 0..(top - k)
    BY <1>1
  <2>2. P(k)
    BY <1>1, <2>1
  <2> QED BY <2>1, <2>2
<1>3. ASSUME NEW j \in 0..((top - k) - 1), j \in S PROVE j + 1 \in S
  <2> DEFINE n == k + j
  <2>1. n \in 0..(top - 1) /\ n \in 0..top /\ n + 1 \in 0..top /\ k + (j + 1) = n + 1
        /\ j + 1 \in 0..(top - k) /\ n >= k
    BY <1>1
  <2>2. P(n)
    BY <1>3
  <2>3. Tall(n + 1) <=> Tall(n) \/ n \in x
    <3>1. k..((n + 1) - 1) = (k..(n - 1)) \cup {n}
      BY <1>1, <2>1
    <3> QED BY <3>1
  <2>4. Weight[n + 1] = 2 * Weight[n] /\ Weight[n] \in Nat /\ Weight[k] \in Nat
        /\ Low(x, n) \in Int /\ Low(x, n) >= 0
        /\ Low(x, n + 1) = Low(x, n) + (IF n \in x THEN Weight[n] ELSE 0)
    BY <1>1, <2>1
  <2>5. P(n + 1)
    <3> HIDE DEF Tall, n
    <3> QED BY <2>2, <2>3, <2>4
  <2> QED BY <2>1, <2>5
<1>4. \A j \in 0..(top - k) : j \in S
  <2> HIDE DEF S
  <2>1. top - k \in Nat
    BY <1>1
  <2> QED BY <1>2, <1>3, <2>1, Upwards
<1>5. ASSUME NEW n \in k..top PROVE P(n)
  <2>1. n - k \in 0..(top - k) /\ k + (n - k) = n
    BY <1>1
  <2> QED BY <1>4, <2>1
<1> QED BY <1>5 DEF top

\* The words with no bit at k or above it are those below its weight.
LEMMA ShortWords ==
    ASSUME NEW x \in Word, NEW k \in 0..WordBits
    PROVE  x \in SUBSET (0..(k - 1)) <=> Unsigned(x) < Weight[k]
<1>1. WordBits \in k..WordBits /\ WordBits \in Nat /\ Unsigned(x) = Low(x, WordBits)
  BY Weights DEF Unsigned, Low
<1>2. Low(x, k) < Weight[k] /\ Low(x, k) \in Int /\ Weight[k] \in Nat /\ Low(x, WordBits) \in Int
  BY <1>1, LowTyped
<1>3. x \in SUBSET (0..(k - 1)) <=> ~\E i \in k..(WordBits - 1) : i \in x
  BY <1>1 DEF Word, Bits
<1>4. IF \E i \in k..(WordBits - 1) : i \in x THEN Low(x, WordBits) >= Weight[k]
      ELSE Low(x, WordBits) = Low(x, k)
  BY <1>1, LowOfShort
<1> QED BY <1>1, <1>2, <1>3, <1>4

\* Different words are different numbers.
LEMMA NumbersTellWords ==
    ASSUME NEW x \in Word, NEW y \in Word, Unsigned(x) = Unsigned(y)
    PROVE  x = y
<1> DEFINE top == WordBits
           S == {n \in 0..top : Low(x, n) = Low(y, n) => \A i \in 0..(n - 1) : i \in x <=> i \in y}
<1>1. /\ top \in Nat
      /\ \A n \in 0..top : Weight[n] \in Nat
      /\ \A z \in {x, y} : \A n \in 0..top :
            Low(z, n) \in Int /\ Low(z, n) >= 0 /\ Low(z, n) < Weight[n]
      /\ \A z \in {x, y} : \A n \in 0..(top - 1) :
            Low(z, n + 1) = Low(z, n) + (IF n \in z THEN Weight[n] ELSE 0)
  BY Weights, LowSteps
<1> HIDE DEF top
<1>2. 0 \in S
  BY <1>1
<1>3. ASSUME NEW n \in 0..(top - 1), n \in S PROVE n + 1 \in S
  <2>1. n \in 0..top /\ n + 1 \in 0..top /\ 0..((n + 1) - 1) = (0..(n - 1)) \cup {n}
    BY <1>1
  <2>2. SUFFICES ASSUME Low(x, n + 1) = Low(y, n + 1)
                 PROVE  \A i \in 0..((n + 1) - 1) : i \in x <=> i \in y
    BY <2>1
  <2>3. Low(x, n) = Low(y, n) /\ (n \in x <=> n \in y)
    BY <1>1, <2>1, <2>2
  <2>4. \A i \in 0..(n - 1) : i \in x <=> i \in y
    BY <1>3, <2>3
  <2> QED BY <2>1, <2>3, <2>4
<1>4. top \in S
  <2> HIDE DEF S
  <2>1. \A n \in 0..top : n \in S
    BY <1>1, <1>2, <1>3, Upwards
  <2> QED BY <1>1, <2>1
<1>5. Low(x, top) = Low(y, top)
  BY DEF Unsigned, Low, top
<1> QED BY <1>1, <1>4, <1>5 DEF Word, Bits, top

\* The powers of two of a byte.
LEMMA FirstWeights ==
    /\ Weight[0] = 1 /\ Weight[1] = 2 /\ Weight[2] = 4 /\ Weight[3] = 8 /\ Weight[4] = 16
    /\ Weight[5] = 32 /\ Weight[6] = 64 /\ Weight[7] = 128
    /\ Half >= 256
<1>1. WordBits = 32
  BY WordWidth
<1>2. Weight[0] = 1 /\ \A n \in 0..31 : Weight[n + 1] = 2 * Weight[n]
  BY <1>1, Weights
<1>3. Weight[0 + 1] = 2 * 1
  BY <1>2
<1>4. Weight[1 + 1] = 2 * 2 /\ Weight[1] = 2
  BY <1>2, <1>3
<1>5. Weight[2 + 1] = 2 * 4 /\ Weight[2] = 4
  BY <1>2, <1>4
<1>6. Weight[3 + 1] = 2 * 8 /\ Weight[3] = 8
  BY <1>2, <1>5
<1>7. Weight[4 + 1] = 2 * 16 /\ Weight[4] = 16
  BY <1>2, <1>6
<1>8. Weight[5 + 1] = 2 * 32 /\ Weight[5] = 32
  BY <1>2, <1>7
<1>9. Weight[6 + 1] = 2 * 64 /\ Weight[6] = 64
  BY <1>2, <1>8
<1>10. Weight[7 + 1] = 2 * 128 /\ Weight[7] = 128
  BY <1>2, <1>9
<1>11. Weight[31] >= Weight[8] /\ Weight[8] = 256
  <2>1. 8 \in 0..WordBits /\ 31 \in 8..WordBits
    BY <1>1
  <2> QED BY <1>10, <2>1, LowOfShort
<1> QED BY <1>1, <1>2, <1>4, <1>5, <1>6, <1>7, <1>8, <1>9, <1>10, <1>11 DEF Half

\* FromNat, on the offsets of a transfer.
LEMMA SmallNumbers ==
    ASSUME NEW n \in 0..127
    PROVE  FromNat(n) \in Word /\ Unsigned(FromNat(n)) = n
<1> DEFINE x == FromNat(n)
<1>1. /\ WordBits = 32 /\ Bits = 0..31
  BY WordWidth
<1>2. x \in Word /\ \A i \in 0..6 : i \in x <=> (n \div 2^i) % 2 = 1
  BY <1>1 DEF FromNat, Word
<1>3. ASSUME NEW i \in 7..10 PROVE (n \div 2^i) % 2 # 1
  <2>1. /\ 2^7 = 128 /\ 2^8 = 256 /\ 2^9 = 512 /\ 2^10 = 1024
        /\ n \div 128 = 0 /\ n \div 256 = 0 /\ n \div 512 = 0 /\ n \div 1024 = 0
        /\ 0 % 2 = 0
    OBVIOUS
  <2>2. CASE i = 7
    BY <2>1, <2>2
  <2>3. CASE i = 8
    BY <2>1, <2>3
  <2>4. CASE i = 9
    BY <2>1, <2>4
  <2>5. CASE i = 10
    BY <2>1, <2>5
  <2> QED BY <2>2, <2>3, <2>4, <2>5
<1>4. x \in SUBSET (0..(7 - 1))
  <2>1. ASSUME NEW i \in x PROVE i \in 0..6
    <3>1. i \in 0..10 /\ (n \div 2^i) % 2 = 1
      BY DEF FromNat
    <3>2. i \notin 7..10
      BY <1>3, <3>1
    <3> QED BY <3>1, <3>2
  <2> QED BY <2>1
<1>5. Unsigned(x) = Low(x, 7)
  <2>1. 7 \in 0..WordBits /\ WordBits \in 7..WordBits /\ ~\E i \in 7..(WordBits - 1) : i \in x
    BY <1>1, <1>4
  <2> QED BY <2>1, LowOfShort DEF Unsigned, Low
<1> DEFINE bit(i, w) == IF i \in x THEN w ELSE 0
<1>6. Low(x, 7) = bit(0, 1) + bit(1, 2) + bit(2, 4) + bit(3, 8) + bit(4, 16) + bit(5, 32) + bit(6, 64)
  <2>1. \A i \in 0..6 : Low(x, i + 1) = Low(x, i) + (IF i \in x THEN Weight[i] ELSE 0)
    BY <1>1, LowSteps
  <2>2. Low(x, 0) = 0
    BY LowSteps
  <2>3. /\ Low(x, 1) = Low(x, 0) + bit(0, 1) /\ Low(x, 2) = Low(x, 1) + bit(1, 2)
        /\ Low(x, 3) = Low(x, 2) + bit(2, 4) /\ Low(x, 4) = Low(x, 3) + bit(3, 8)
        /\ Low(x, 5) = Low(x, 4) + bit(4, 16) /\ Low(x, 6) = Low(x, 5) + bit(5, 32)
        /\ Low(x, 7) = Low(x, 6) + bit(6, 64)
    <3> HIDE DEF x
    <3>1. Low(x, 0 + 1) = Low(x, 0) + bit(0, 1) /\ Low(x, 1 + 1) = Low(x, 1) + bit(1, 2)
      BY <2>1, FirstWeights
    <3>2. Low(x, 2 + 1) = Low(x, 2) + bit(2, 4) /\ Low(x, 3 + 1) = Low(x, 3) + bit(3, 8)
      BY <2>1, FirstWeights
    <3>3. Low(x, 4 + 1) = Low(x, 4) + bit(4, 16) /\ Low(x, 5 + 1) = Low(x, 5) + bit(5, 32)
      BY <2>1, FirstWeights
    <3>4. Low(x, 6 + 1) = Low(x, 6) + bit(6, 64)
      BY <2>1, FirstWeights
    <3> QED BY <3>1, <3>2, <3>3, <3>4
  <2> HIDE DEF x
  <2> QED BY <2>2, <2>3
<1>7. /\ bit(0, 1) = n % 2 /\ bit(1, 2) = 2 * ((n \div 2) % 2) /\ bit(2, 4) = 4 * ((n \div 4) % 2)
      /\ bit(3, 8) = 8 * ((n \div 8) % 2) /\ bit(4, 16) = 16 * ((n \div 16) % 2)
      /\ bit(5, 32) = 32 * ((n \div 32) % 2) /\ bit(6, 64) = 64 * ((n \div 64) % 2)
  <2>1. /\ 2^0 = 1 /\ 2^1 = 2 /\ 2^2 = 4 /\ 2^3 = 8 /\ 2^4 = 16 /\ 2^5 = 32 /\ 2^6 = 64
    OBVIOUS
  <2>2. /\ (n \div 1) % 2 \in {0, 1} /\ (n \div 2) % 2 \in {0, 1} /\ (n \div 4) % 2 \in {0, 1}
        /\ (n \div 8) % 2 \in {0, 1} /\ (n \div 16) % 2 \in {0, 1}
        /\ (n \div 32) % 2 \in {0, 1} /\ (n \div 64) % 2 \in {0, 1} /\ n \div 1 = n
    OBVIOUS
  <2>3. /\ 0 \in x <=> (n \div 1) % 2 = 1
        /\ 1 \in x <=> (n \div 2) % 2 = 1
        /\ 2 \in x <=> (n \div 4) % 2 = 1
        /\ 3 \in x <=> (n \div 8) % 2 = 1
        /\ 4 \in x <=> (n \div 16) % 2 = 1
        /\ 5 \in x <=> (n \div 32) % 2 = 1
        /\ 6 \in x <=> (n \div 64) % 2 = 1
    <3> HIDE DEF x
    <3> QED BY <1>2, <2>1
  <2> HIDE DEF x
  <2> QED BY <2>2, <2>3
<1>8. n = (n % 2) + 2 * ((n \div 2) % 2) + 4 * ((n \div 4) % 2) + 8 * ((n \div 8) % 2)
            + 16 * ((n \div 16) % 2) + 32 * ((n \div 32) % 2) + 64 * ((n \div 64) % 2)
  <2>1. /\ n \div 4 = (n \div 2) \div 2 /\ n \div 8 = (n \div 4) \div 2
        /\ n \div 16 = (n \div 8) \div 2 /\ n \div 32 = (n \div 16) \div 2
        /\ n \div 64 = (n \div 32) \div 2 /\ n \div 64 \in {0, 1}
    OBVIOUS
  <2>2. \A q \in Nat : q = (q % 2) + 2 * (q \div 2)
    OBVIOUS
  <2>3. /\ n = (n % 2) + 2 * (n \div 2)
        /\ n \div 2 = ((n \div 2) % 2) + 2 * (n \div 4)
        /\ n \div 4 = ((n \div 4) % 2) + 2 * (n \div 8)
        /\ n \div 8 = ((n \div 8) % 2) + 2 * (n \div 16)
        /\ n \div 16 = ((n \div 16) % 2) + 2 * (n \div 32)
        /\ n \div 32 = ((n \div 32) % 2) + 2 * (n \div 64)
        /\ n \div 64 = (n \div 64) % 2
    BY <2>1, <2>2
  <2> QED BY <2>3
<1> HIDE DEF bit, x
<1>9. Unsigned(x) = n
  BY <1>5, <1>6, <1>7, <1>8
<1> QED BY <1>2, <1>9 DEF x

---------------------------------------------------------------------------
(* The bytes of a transfer.                                                *)

\* A memory is the words below its size, which is not more than a half of them.
LEMMA AddressesAreBelow ==
    /\ MemSize \in Nat /\ MemSize <= Half
    /\ MemAddress \subseteq Word
    /\ \A x \in Word : x \in MemAddress <=> Unsigned(x) < MemSize
<1>1. MemBits \in Nat /\ MemBits <= 31 /\ WordBits = 32 /\ Bits = 0..31
  BY MemoryAssumption, ArmCoreAssumption, WordWidth
<1>2. MemBits \in 0..WordBits /\ 31 \in MemBits..WordBits
  BY <1>1
<1>3. MemSize \in Nat /\ Weight[31] >= MemSize
  BY <1>2, Weights, LowOfShort DEF MemSize
<1>4. MemAddress \subseteq Word
  BY <1>1 DEF MemAddress, Word
<1>5. \A x \in Word : x \in MemAddress <=> Unsigned(x) < MemSize
  BY <1>2, ShortWords DEF MemSize, MemAddress
<1>6. Half = Weight[31]
  BY <1>1 DEF Half
<1>7. Weight[31] \in Nat
  BY <1>2, Weights
<1> QED BY <1>3, <1>4, <1>5, <1>6, <1>7

\* The byte at distance k from an address is at the number k above it, if it is
\* in the memory.
LEMMA Distance ==
    ASSUME NEW a \in Word, NEW k \in 0..127
    PROVE  /\ ByteAddress(a, k) \in Word
           /\ Signed(a) \in Int
           /\ ByteAddress(a, k) \in MemAddress <=> Signed(a) + k >= 0 /\ Signed(a) + k < MemSize
           /\ ByteAddress(a, k) \in MemAddress => Unsigned(ByteAddress(a, k)) = Signed(a) + k
<1> DEFINE u == Unsigned(ByteAddress(a, k))
<1>1. FromNat(k) \in Word /\ Unsigned(FromNat(k)) = k
  BY SmallNumbers
<1>2. ByteAddress(a, k) \in Word /\ (Unsigned(a) + k = u \/ Unsigned(a) + k = u + Modulus)
  BY <1>1, SumsOfWords DEF ByteAddress
<1>3. /\ u \in 0..(Modulus - 1) /\ Unsigned(a) \in 0..(Modulus - 1)
      /\ Signed(a) = Unsigned(a) - (IF Unsigned(a) >= Half THEN Modulus ELSE 0)
      /\ Half \in Nat /\ Modulus = 2 * Half /\ Half >= 256
  BY <1>2, Numbers, FirstWeights
<1>4. ByteAddress(a, k) \in MemAddress <=> u < MemSize
  BY <1>2, AddressesAreBelow
<1>5. MemSize \in Nat /\ MemSize <= Half
  BY AddressesAreBelow
<1> HIDE DEF u
<1> QED BY <1>2, <1>3, <1>4, <1>5 DEF u

\* Bytes at different distances are different, and distances add up.
LEMMA DistancesDiffer ==
    ASSUME NEW a \in Word, NEW j \in 0..127, NEW k \in 0..127,
           ByteAddress(a, j) = ByteAddress(a, k)
    PROVE  j = k
<1>1. FromNat(k) \in Word /\ Unsigned(FromNat(k)) = k /\ FromNat(j) \in Word /\ Unsigned(FromNat(j)) = j
  BY SmallNumbers
<1> DEFINE u == Unsigned(ByteAddress(a, k))
<1>2. /\ Unsigned(a) + k = u \/ Unsigned(a) + k = u + Modulus
      /\ Unsigned(a) + j = u \/ Unsigned(a) + j = u + Modulus
      /\ ByteAddress(a, k) \in Word
  BY <1>1, SumsOfWords DEF ByteAddress
<1>3. u \in Nat /\ Unsigned(a) \in Nat /\ Half \in Nat /\ Modulus = 2 * Half /\ Half >= 256
  BY <1>2, Numbers, FirstWeights
<1> HIDE DEF u
<1> QED BY <1>2, <1>3

LEMMA DistancesAdd ==
    ASSUME NEW a \in Word, NEW j \in 0..127, NEW k \in 0..127, j + k \in 0..127
    PROVE  ByteAddress(ByteAddress(a, j), k) = ByteAddress(a, j + k)
<1>1. FromNat(k) \in Word /\ Unsigned(FromNat(k)) = k /\ FromNat(j) \in Word
      /\ Unsigned(FromNat(j)) = j /\ FromNat(j + k) \in Word /\ Unsigned(FromNat(j + k)) = j + k
  BY SmallNumbers
<1> DEFINE b == ByteAddress(a, j)
           c == ByteAddress(b, k)
           d == ByteAddress(a, j + k)
<1>2. b \in Word /\ (Unsigned(a) + j = Unsigned(b) \/ Unsigned(a) + j = Unsigned(b) + Modulus)
  BY <1>1, SumsOfWords DEF ByteAddress
<1>3. d \in Word /\ (\/ Unsigned(a) + (j + k) = Unsigned(d)
                     \/ Unsigned(a) + (j + k) = Unsigned(d) + Modulus)
  BY <1>1, SumsOfWords DEF ByteAddress
<1>4. c \in Word /\ (Unsigned(b) + k = Unsigned(c) \/ Unsigned(b) + k = Unsigned(c) + Modulus)
  <2> HIDE DEF b
  <2> QED BY <1>1, <1>2, SumsOfWords DEF ByteAddress
<1> HIDE DEF b, c, d
<1>5. /\ \A x \in {a, b, c, d} : Unsigned(x) \in 0..(Modulus - 1)
      /\ Half \in Nat /\ Modulus = 2 * Half /\ Half >= 256
  BY <1>2, <1>3, <1>4, Numbers, FirstWeights
<1>6. Unsigned(c) = Unsigned(d)
  BY <1>2, <1>3, <1>4, <1>5
<1>7. c = d
  BY <1>3, <1>4, <1>6, NumbersTellWords
<1> QED BY <1>7 DEF b, c, d

---------------------------------------------------------------------------
(* Accesses to the memory.                                                 *)

\* An access succeeds when all its bytes are in the memory, and does nothing
\* when it fails otherwise than by the death of the process.
LEMMA AccessInside ==
    ASSUME NEW a, NEW n \in Nat \ {0}
    PROVE  /\ Access(a, n) \in {0, FAULT, SEGV}
           /\ Access(a, n) = 0 <=> \A i \in 0..(n - 1) : ByteAddress(a, i) \in MemAddress
           /\ Access(a, n) = FAULT <=> ~InBounds(a, n)
BY DEF Access, Wild, InBounds, FAULT, SEGV

\* No two of these pairs store different bytes at one address.
OneByteEach(bytes) == \A b, c \in bytes : b[1] = c[1] => b[2] = c[2]

\* The lanes of a half word and of a word, in both byte orders.
LEMMA LanesCover ==
    ASSUME NEW n \in {2, 4}
    PROVE  /\ \A i \in 0..(n - 1) : Lane(n, i) \in 0..(n - 1)
           /\ \A b \in 0..(8 * n - 1) : \E i \in 0..(n - 1) :
                b >= 8 * Lane(n, i) /\ b <= 8 * Lane(n, i) + 7
<1>1. \A i \in 0..(n - 1) : Lane(n, i) \in 0..(n - 1)
  BY DEF Lane
<1>2. ASSUME NEW b \in 0..(8 * n - 1)
      PROVE  \E i \in 0..(n - 1) : b >= 8 * Lane(n, i) /\ b <= 8 * Lane(n, i) + 7
  <2> DEFINE k == b \div 8
  <2>1. k \in 0..(n - 1) /\ b >= 8 * k /\ b <= 8 * k + 7
    OBVIOUS
  <2> HIDE DEF k
  <2>2. CASE BigEndian
    <3>1. (n - 1) - k \in 0..(n - 1) /\ Lane(n, (n - 1) - k) = k
      BY <2>1, <2>2 DEF Lane
    <3> QED BY <2>1, <3>1
  <2>3. CASE ~BigEndian
    BY <2>1, <2>3 DEF Lane
  <2> QED BY <2>2, <2>3
<1> QED BY <1>1, <1>2

\* What is read where bytes of a value were stored is the value.
LEMMA ReadsBack ==
    ASSUME NEW m, NEW bytes, OneByteEach(bytes), NEW a, NEW n \in {2, 4}, NEW v \in Word,
           \A i \in 0..(n - 1) : ByteAddress(a, i) \in MemAddress,
           BytesOf(a, n, v) \subseteq bytes
    PROVE  memory_read(StoreBytes(m, bytes), a, n) = v \cap (0..(8 * n - 1))
<1> DEFINE s == StoreBytes(m, bytes)
           place(i) == ByteAddress(a, i)
           lane(i) == Lane(n, i)
<1>1. ASSUME NEW i \in 0..(n - 1) PROVE s[place(i)] = ByteOf(v, lane(i))
  <2> DEFINE p == place(i)
             q == ByteOf(v, lane(i))
  <2>1. <<p, q>> \in bytes /\ p \in MemAddress
    BY DEF BytesOf
  <2>2. s[p] = IF \E b \in bytes : b[1] = p THEN (CHOOSE b \in bytes : b[1] = p)[2] ELSE m[p]
    BY <2>1 DEF StoreBytes
  <2> HIDE DEF p, q
  <2>3. \E b \in bytes : b[1] = p
    BY <2>1
  <2> DEFINE c == CHOOSE b \in bytes : b[1] = p
  <2>4. c \in bytes /\ c[1] = p
    BY <2>3
  <2>5. c[2] = q
    <3> HIDE DEF c
    <3> QED BY <2>1, <2>4 DEF OneByteEach
  <2> QED BY <2>2, <2>3, <2>5 DEF p, q
<1>2. \A b : b \in memory_read(s, a, n)
            <=> b \in Bits /\ \E i \in 0..(n - 1) : b - 8 * lane(i) \in ByteOf(v, lane(i))
  BY <1>1 DEF memory_read
<1>3. \A i \in 0..(n - 1) : lane(i) \in 0..(n - 1)
  BY LanesCover
<1>4. \A b \in Bits, k \in 0..(n - 1) :
            b - 8 * k \in ByteOf(v, k) <=> b \in v /\ b >= 8 * k /\ b <= 8 * k + 7
  <2>1. v \subseteq 0..31 /\ Bits = 0..31
    BY WordWidth DEF Word
  <2> QED BY <2>1 DEF ByteOf, get_bits
<1>5. \A b \in Bits : b \in memory_read(s, a, n) <=> b \in v /\ b \in 0..(8 * n - 1)
  <2> TAKE b \in Bits
  <2>0. b \in Nat
    BY WordWidth
  <2>1. b \in memory_read(s, a, n)
            <=> b \in v /\ \E i \in 0..(n - 1) : b >= 8 * lane(i) /\ b <= 8 * lane(i) + 7
    BY <1>2, <1>3, <1>4
  <2>2. (\E i \in 0..(n - 1) : b >= 8 * lane(i) /\ b <= 8 * lane(i) + 7) <=> b \in 0..(8 * n - 1)
    <3>1. ASSUME NEW i \in 0..(n - 1), b >= 8 * lane(i), b <= 8 * lane(i) + 7
          PROVE  b \in 0..(8 * n - 1)
      <4>1. lane(i) \in 0..(n - 1)
        BY <1>3
      <4> HIDE DEF lane
      <4> QED BY <2>0, <3>1, <4>1
    <3>2. b \in 0..(8 * n - 1) => \E i \in 0..(n - 1) : b >= 8 * lane(i) /\ b <= 8 * lane(i) + 7
      BY LanesCover
    <3> QED BY <3>1, <3>2
  <2> QED BY <2>1, <2>2
<1>6. memory_read(s, a, n) \subseteq Bits /\ v \subseteq Bits
  BY DEF memory_read, Word
<1> QED BY <1>5, <1>6

\* The bytes of one value are apart.
LEMMA BytesApart ==
    ASSUME NEW a \in Word, NEW n \in 1..4, NEW v
    PROVE  OneByteEach(BytesOf(a, n, v))
<1> SUFFICES ASSUME NEW b \in BytesOf(a, n, v), NEW c \in BytesOf(a, n, v), b[1] = c[1]
             PROVE  b[2] = c[2]
  BY DEF OneByteEach
<1>1. PICK i \in 0..(n - 1) : b = <<ByteAddress(a, i), ByteOf(v, Lane(n, i))>>
  BY DEF BytesOf
<1>2. PICK j \in 0..(n - 1) : c = <<ByteAddress(a, j), ByteOf(v, Lane(n, j))>>
  BY DEF BytesOf
<1>3. i = j
  <2>1. i \in 0..127 /\ j \in 0..127 /\ ByteAddress(a, i) = ByteAddress(a, j)
    BY <1>1, <1>2
  <2> QED BY <2>1, DistancesDiffer
<1> QED BY <1>1, <1>2, <1>3

\* Storing changes no byte but those that are stored.
LEMMA StoresOnly ==
    ASSUME NEW m \in MemoryContent, NEW bytes, NEW a \in MemAddress,
           StoreBytes(m, bytes)[a] # m[a]
    PROVE  \E b \in bytes : b[1] = a
BY DEF StoreBytes

---------------------------------------------------------------------------
(* The words of a list of registers.                                       *)

CountBelow(list, i) == Cardinality({j \in list : j < i})

\* A set of register numbers that is not empty has a smallest element.
LEMMA SmallestRegister ==
    ASSUME NEW S \in SUBSET (0..15), S # {}
    PROVE  \E i \in S : \A j \in S : i <= j
<1> DEFINE mirrored == {15 - i : i \in S}
<1>1. mirrored # {}
  <2>1. PICK i \in S : TRUE
    OBVIOUS
  <2> QED BY <2>1
<1>2. mirrored \in SUBSET (0..15)
  <2>1. \A i \in S : 15 - i \in 0..15
    OBVIOUS
  <2> QED BY <2>1
<1>3. PICK k \in mirrored : \A j \in mirrored : j <= k
  <2> HIDE DEF mirrored
  <2> QED BY <1>1, <1>2, LargestRegister
<1>4. PICK i \in S : k = 15 - i
  OBVIOUS
<1>5. ASSUME NEW j \in S PROVE i <= j
  <2>1. 15 - j <= 15 - i
    BY <1>3, <1>4
  <2>2. i \in 0..15 /\ j \in 0..15
    OBVIOUS
  <2> HIDE DEF mirrored
  <2> QED BY <2>1, <2>2
<1> QED BY <1>5

\* The registers of a list have the places 0, 1, ... in the order of their
\* numbers.
LEMMA Places ==
    ASSUME NEW list \in SUBSET (0..15), list # {}
    PROVE  /\ Cardinality(list) \in 1..16
           /\ \A i \in list : CountBelow(list, i) \in 0..(Cardinality(list) - 1)
           /\ \A i, j \in list : i < j => CountBelow(list, i) < CountBelow(list, j)
           /\ \E i \in list : CountBelow(list, i) = 0
           /\ \E i \in list : CountBelow(list, i) = Cardinality(list) - 1
<1> DEFINE below(i) == {j \in list : j < i}
<1>0. \A i \in list : i \in Int /\ i >= 0 /\ i <= 15
  OBVIOUS
<1>1. /\ IsFiniteSet(list) /\ Cardinality(list) <= 16
      /\ Cardinality(list) \in Nat /\ Cardinality(list) # 0
  <2>1. IsFiniteSet(0..15) /\ Cardinality(0..15) = 16
    <3>1. 0 \in Int /\ 15 \in Int /\ ~(0 > 15) /\ 15 - 0 + 1 = 16
      OBVIOUS
    <3> QED BY <3>1, FS_Interval
  <2>2. IsFiniteSet(list) /\ Cardinality(list) <= 16
    BY <2>1, FS_Subset
  <2> QED BY <2>2, FS_CardinalityType, FS_EmptySet
<1>2. ASSUME NEW S \in SUBSET list
      PROVE  IsFiniteSet(S) /\ Cardinality(S) \in Nat
  BY <1>1, FS_Subset, FS_CardinalityType
<1>3. ASSUME NEW S \in SUBSET list, NEW T \in SUBSET S, NEW k \in S, k \notin T
      PROVE  Cardinality(T) < Cardinality(S)
  <2>1. IsFiniteSet(S) /\ Cardinality(S) \in Nat /\ Cardinality(T) \in Nat
    BY <1>2
  <2>2. Cardinality(T) <= Cardinality(S) /\ (Cardinality(S) = Cardinality(T) => S = T)
    BY <2>1, FS_Subset
  <2> QED BY <1>3, <2>1, <2>2
<1>4. \A i \in list : below(i) \in SUBSET list /\ i \notin below(i)
  OBVIOUS
<1>5. ASSUME NEW i \in list PROVE CountBelow(list, i) \in 0..(Cardinality(list) - 1)
  <2>1. Cardinality(below(i)) < Cardinality(list) /\ Cardinality(below(i)) \in Nat
    BY <1>2, <1>3, <1>4
  <2> QED BY <1>1, <2>1 DEF CountBelow
<1>6. ASSUME NEW i \in list, NEW j \in list, i < j
      PROVE  CountBelow(list, i) < CountBelow(list, j)
  <2>1. /\ below(i) \in SUBSET below(j) /\ i \in below(j)
        /\ i \notin below(i) /\ below(j) \in SUBSET list
    <3>1. \A k \in list : k < i => k < j
      BY <1>0, <1>6
    <3>2. i \in Int /\ ~(i < i)
      BY <1>0
    <3> QED BY <1>6, <3>1, <3>2
  <2> QED BY <1>3, <2>1 DEF CountBelow
<1>7. \E i \in list : CountBelow(list, i) = 0
  <2>1. PICK i \in list : \A j \in list : i <= j
    BY <1>0, SmallestRegister
  <2>2. below(i) = {}
    <3>1. \A j \in list : ~(j < i)
      BY <1>0, <2>1
    <3> QED BY <3>1
  <2> QED BY <2>1, <2>2, FS_EmptySet DEF CountBelow
<1>8. \E i \in list : CountBelow(list, i) = Cardinality(list) - 1
  <2>1. PICK i \in list : \A j \in list : j <= i
    BY LargestRegister
  <2>2. below(i) = list \ {i}
    <3>1. \A j \in list : j < i <=> j # i
      BY <1>0, <2>1
    <3> QED BY <3>1
  <2>3. Cardinality(list \ {i}) = Cardinality(list) - 1
    BY <1>1, FS_RemoveElement
  <2> QED BY <2>2, <2>3 DEF CountBelow
<1>9. Cardinality(list) \in 1..16
  BY <1>1
<1> QED BY <1>5, <1>6, <1>7, <1>8, <1>9

\* The word of a register is at its place, 4 bytes apart from the others.
LEMMA PlaceOfRegister ==
    ASSUME NEW list \in SUBSET (0..15), NEW i \in list, NEW start \in Word
    PROVE  /\ 4 * CountBelow(list, i) \in 0..60
           /\ TransferAddress(start, list, i) = ByteAddress(start, 4 * CountBelow(list, i))
           /\ TransferAddress(start, list, i) \in Word
           /\ \A b \in 0..3 :
                /\ 4 * CountBelow(list, i) + b \in 0..127
                /\ ByteAddress(TransferAddress(start, list, i), b)
                        = ByteAddress(start, 4 * CountBelow(list, i) + b)
<1> DEFINE c == CountBelow(list, i)
<1>1. c \in 0..15
  <2>1. Cardinality(list) \in 1..16 /\ c \in 0..(Cardinality(list) - 1)
    BY Places
  <2> HIDE DEF c
  <2> QED BY <2>1
<1>2. TransferAddress(start, list, i) = ByteAddress(start, 4 * c)
  BY DEF TransferAddress, ByteAddress, CountBelow
<1> HIDE DEF c
<1>3. 4 * c \in 0..60 /\ 4 * c \in 0..127 /\ \A b \in 0..3 : 4 * c + b \in 0..127 /\ b \in 0..127
  BY <1>1
<1>4. ByteAddress(start, 4 * c) \in Word
  BY <1>3, Distance
<1>5. \A b \in 0..3 : ByteAddress(ByteAddress(start, 4 * c), b) = ByteAddress(start, 4 * c + b)
  BY <1>3, DistancesAdd
<1> QED BY <1>2, <1>3, <1>4, <1>5 DEF c

\* The words of a list do not overlap.
LEMMA ListApart ==
    ASSUME NEW list \in SUBSET (0..15), NEW start \in Word, NEW some \in SUBSET list, NEW value
    PROVE  OneByteEach(UNION {BytesOf(TransferAddress(start, list, i), 4, value[i]) : i \in some})
<1> DEFINE bytes == UNION {BytesOf(TransferAddress(start, list, i), 4, value[i]) : i \in some}
           at(i, k) == ByteAddress(TransferAddress(start, list, i), k)
<1> SUFFICES ASSUME NEW b \in bytes, NEW c \in bytes, b[1] = c[1] PROVE b[2] = c[2]
  BY DEF OneByteEach
<1>1. PICK i \in some, k \in 0..3 : b = <<at(i, k), ByteOf(value[i], Lane(4, k))>>
  BY DEF BytesOf
<1>2. PICK j \in some, l \in 0..3 : c = <<at(j, l), ByteOf(value[j], Lane(4, l))>>
  BY DEF BytesOf
<1>3. at(i, k) = at(j, l)
  BY <1>1, <1>2
<1> DEFINE x == CountBelow(list, i)
           y == CountBelow(list, j)
<1>4. /\ 4 * x + k \in 0..127 /\ 4 * y + l \in 0..127
      /\ at(i, k) = ByteAddress(start, 4 * x + k)
      /\ at(j, l) = ByteAddress(start, 4 * y + l)
  BY PlaceOfRegister
<1>5. 4 * x + k = 4 * y + l
  <2> HIDE DEF at, x, y
  <2> QED BY <1>3, <1>4, DistancesDiffer
<1>6. x \in Nat /\ y \in Nat /\ (i < j => x < y) /\ (j < i => y < x)
  <2>1. list # {} /\ i \in list /\ j \in list
    OBVIOUS
  <2>2. x \in 0..(Cardinality(list) - 1) /\ y \in 0..(Cardinality(list) - 1)
    BY <2>1, Places
  <2>3. (i < j => x < y) /\ (j < i => y < x)
    BY <2>1, Places
  <2> HIDE DEF x, y
  <2> QED BY <2>2, <2>3
<1>7. x = y /\ k = l
  <2> HIDE DEF x, y, at
  <2> QED BY <1>5, <1>6
<1>8. i = j
  <2>1. i \in Nat /\ j \in Nat
    OBVIOUS
  <2> HIDE DEF x, y, at
  <2> QED BY <1>6, <1>7, <2>1
<1> QED BY <1>1, <1>2, <1>7, <1>8

\* What an ldm and an stm make of the accesses that fail.
LEMMA ListResult ==
    ASSUME NEW list \in SUBSET (0..15), NEW start
    PROVE  /\ MultipleResult(start, list) = 0 <=> Failing(start, list) = {}
           /\ Failing(start, list) = {} =>
                FirstFailing(start, list) = 16 /\ Transferred(start, list) = list
           /\ MultipleResult(start, list) = FAULT =>
                \A i \in list : (\E j \in list : j > i) => i \in Transferred(start, list)
           /\ \A i \in Transferred(start, list) : Access(TransferAddress(start, list, i), 4) = 0
<1> DEFINE bad == Failing(start, list)
           first == FirstFailing(start, list)
<1>1. bad \in SUBSET (0..15) /\ bad \in SUBSET list
  BY DEF Failing
<1>2. bad = {} => first = 16 /\ Transferred(start, list) = list
  BY DEF FirstFailing, Transferred
<1>3. bad # {} => first \in bad /\ \A i \in bad : first <= i
  <2> SUFFICES ASSUME bad # {} PROVE first \in bad /\ \A i \in bad : first <= i
    OBVIOUS
  <2>1. PICK i \in bad : \A j \in bad : i <= j
    <3> HIDE DEF bad
    <3> QED BY <1>1, SmallestRegister
  <2>2. first = CHOOSE k \in bad : \A j \in bad : k <= j
    BY DEF FirstFailing
  <2> HIDE DEF bad, first
  <2> QED BY <2>1, <2>2
<1>4. bad # {} => Access(TransferAddress(start, list, first), 4) # 0 /\ first # 16 /\ first \in list
  <2>1. \A i \in bad : Access(TransferAddress(start, list, i), 4) # 0 /\ i \in 0..15 /\ i \in list
    BY <1>1 DEF Failing
  <2> HIDE DEF bad, first
  <2> QED BY <1>3, <2>1
<1>5. MultipleResult(start, list) =
        IF first = 16 THEN 0
        ELSE IF Access(TransferAddress(start, list, first), 4) = SEGV THEN SEGV
        ELSE IF \E j \in list : j > first THEN ABORT ELSE FAULT
  BY DEF MultipleResult
<1>6. MultipleResult(start, list) = 0 <=> bad = {}
  <2> HIDE DEF bad, first
  <2> QED BY <1>2, <1>4, <1>5 DEF SEGV, ABORT, FAULT
<1>7. ASSUME MultipleResult(start, list) = FAULT, NEW i \in list, NEW j \in list, j > i
      PROVE  i \in Transferred(start, list)
  <2>1. bad # {} /\ ~\E k \in list : k > first
    <3> HIDE DEF bad, first
    <3> QED BY <1>2, <1>5, <1>7 DEF SEGV, ABORT, FAULT
  <2>2. \A k \in bad : i < k
    <3> HIDE DEF bad, first
    <3>1. first \in 0..15 /\ first \in bad /\ \A k \in bad : first <= k
      BY <1>1, <1>3, <2>1
    <3>2. i < first
      BY <1>7, <2>1, <3>1
    <3> QED BY <1>1, <3>1, <3>2
  <2> QED BY <2>2 DEF Transferred
<1>8. ASSUME NEW i \in Transferred(start, list)
      PROVE  Access(TransferAddress(start, list, i), 4) = 0
  <2>1. i \in list /\ \A j \in bad : i < j
    BY DEF Transferred
  <2>2. i \notin bad
    <3> HIDE DEF bad
    <3>1. i \in bad => i < i
      BY <2>1
    <3> QED BY <2>1, <3>1
  <2> QED BY <2>1, <2>2 DEF Failing
<1> QED BY <1>2, <1>6, <1>7, <1>8

---------------------------------------------------------------------------
(* What the three forms execute.                                           *)

\* The address a transfer begins at.
AddressOf(r, ins) ==
    LET from == arm_read_register(r, Rn(ins))
    IN  IF IsMultiple(ins) THEN StartAddress(r, ins)
        ELSE IF ~P_bit(ins) THEN from
        ELSE op(ins, from, IF IsHalf(ins) THEN arm_read_register(r, Rm(ins))
                                        ELSE get_bits(ins, 11, 0))

Width(ins) == IF IsHalf(ins) THEN 2 ELSE 4

StoreOutcome(r, m, ins) ==
    IF IsMultiple(ins) THEN STM(r, m, RegisterList(ins), AddressOf(r, ins))
    ELSE Store(r, m, AddressOf(r, ins), Width(ins), arm_read_register(r, Rd(ins)))

LoadOutcome(r, m, ins, junk) ==
    IF IsMultiple(ins) THEN LDM(r, m, RegisterList(ins), AddressOf(r, ins), junk)
    ELSE IF IsHalf(ins) THEN LDRH(r, m, Rd(ins), AddressOf(r, ins))
    ELSE LDR(r, m, Rd(ins), AddressOf(r, ins), junk)

\* A store and its load have the same fields.
LEMMA MirrorFields ==
    ASSUME NEW ins \in Word
    PROVE  /\ Mirror(ins) \in Word /\ get_bit(Mirror(ins), 20)
           /\ \A i \in 0..31 : i # 20 => get_bit(Mirror(ins), i) = get_bit(ins, i)
           /\ \A h, l \in Nat : 20 \notin l..h => get_bits(Mirror(ins), h, l) = get_bits(ins, h, l)
<1>1. Mirror(ins) = ins \cup {20} /\ Mirror(ins) \in Word
  BY WordWidth DEF Mirror, set_bit, Word
<1>2. \A i \in 0..31 : i # 20 => get_bit(Mirror(ins), i) = get_bit(ins, i)
  BY <1>1 DEF get_bit
<1>3. ASSUME NEW h \in Nat, NEW l \in Nat, 20 \notin l..h
      PROVE  get_bits(Mirror(ins), h, l) = get_bits(ins, h, l)
  <2>1. (ins \cup {20}) \cap (l..h) = ins \cap (l..h)
    BY <1>3
  <2> QED BY <1>1, <2>1 DEF get_bits
<1> QED BY <1>1, <1>2, <1>3 DEF get_bit

LEMMA MirrorDecodes ==
    ASSUME NEW ins \in Word
    PROVE  /\ get_bits(Mirror(ins), 31, 28) = get_bits(ins, 31, 28)
           /\ get_bits(Mirror(ins), 27, 25) = get_bits(ins, 27, 25)
           /\ get_bits(Mirror(ins), 11, 0) = get_bits(ins, 11, 0)
           /\ get_bits(Mirror(ins), 7, 4) = get_bits(ins, 7, 4)
           /\ get_bits(Mirror(ins), 6, 5) = get_bits(ins, 6, 5)
           /\ get_bits(Mirror(ins), 3, 0) = get_bits(ins, 3, 0)
           /\ RegisterList(Mirror(ins)) = RegisterList(ins)
           /\ Rn(Mirror(ins)) = Rn(ins) /\ Rd(Mirror(ins)) = Rd(ins) /\ Rm(Mirror(ins)) = Rm(ins)
           /\ P_bit(Mirror(ins)) = P_bit(ins) /\ W_bit(Mirror(ins)) = W_bit(ins)
           /\ get_bit(Mirror(ins), 22) = get_bit(ins, 22)
           /\ get_bit(Mirror(ins), 23) = get_bit(ins, 23)
<1> DEFINE f(h, l) == get_bits(Mirror(ins), h, l) = get_bits(ins, h, l)
<1>1. \A h, l \in Nat : 20 \notin l..h => f(h, l)
  BY MirrorFields
<1> HIDE DEF f
<1>2. /\ f(31, 28) /\ f(27, 25) /\ f(11, 0) /\ f(7, 4) /\ f(6, 5) /\ f(3, 0)
      /\ f(15, 0) /\ f(19, 16) /\ f(15, 12)
  BY <1>1
<1>3. \A i \in {21, 22, 23, 24} : get_bit(Mirror(ins), i) = get_bit(ins, i)
  BY MirrorFields
<1> QED BY <1>2, <1>3 DEF f, RegisterList, Rn, Rd, Rm, P_bit, W_bit

\* A condition that always holds lets the store through, in both tables.
LEMMA AlwaysPasses ==
    ASSUME NEW r, NEW ins, get_bits(ins, 31, 28) = AL
    PROVE  condition_passed(r, ins)
<1> DEFINE f == (read_cpsr(r) \cap (0..7)) \cap Flags
<1>1. 0 \notin AL /\ AL \ {0} = {3, 2, 1} /\ AL = {3, 2, 1}
  BY DEF AL
<1>2. {3, 2, 1} \notin {{}, {1}, {2}, {2, 1}, {3}, {3, 1}, {3, 2}}
  OBVIOUS
<1> HIDE DEF f
<1>3. EvenCondition({3, 2, 1}, f)
  BY <1>2, ZenonT(30) DEF EvenCondition
<1>4. ConditionTable(AL, f) = EvenCondition({3, 2, 1}, f)
  BY <1>1, Zenon DEF ConditionTable
<1>5. condition_passed(r, ins) = ConditionTable(AL, f)
  BY Zenon DEF condition_passed, f
<1> QED BY <1>3, <1>4, <1>5

LEMMA AlwaysExecutes ==
    ASSUME NEW r, NEW m, NEW ins, NEW junk, get_bits(ins, 31, 28) = AL
    PROVE  Execute(r, m, ins, junk) = Dispatch(r, m, ins, junk)
<1>1. AL # NeverCondition
  BY DEF AL, NeverCondition
<1> DEFINE passes == AL = AL \/ arm_decode_condition(AL, read_cpsr(r) \cap Flags)
<1>2. Execute(r, m, ins, junk) =
        CASE AL = NeverCondition -> Outcome(r, m, UNDEFINED_INSTRUCTION)
          [] AL # NeverCondition /\ passes -> Dispatch(r, m, ins, junk)
          [] OTHER -> Outcome(r, m, 0)
  BY Zenon DEF Execute
<1>3. passes = TRUE
  BY Zenon
<1> HIDE DEF passes
<1> QED BY <1>1, <1>2, <1>3

\* What TransfersAssumption says of a store, field by field.
StoreForm(ins) ==
    /\ ins \in Word /\ get_bits(ins, 31, 28) = AL /\ ~get_bit(ins, 20)
    /\ IsMultiple(ins) \/ IsWord(ins) \/ IsHalf(ins)
    /\ IsWord(ins) => P_bit(ins) \/ ~W_bit(ins)
    /\ Operands(ins) # {} /\ PC \notin Operands(ins)

LEMMA ProgramIsStores == ASSUME NEW ins \in Program PROVE StoreForm(ins)
BY TransfersAssumption, ArmCoreAssumption DEF StoreForm

\* A half word: bits 7..4 are 1011.
LEMMA HalfFields ==
    ASSUME NEW ins \in Word, get_bits(ins, 7, 4) = {3, 1, 0}
    PROVE  get_bit(ins, 4) /\ get_bit(ins, 7) /\ get_bits(ins, 6, 5) = {0}
<1>1. \A b \in 0..31 : b \in ins /\ b >= 4 /\ b <= 7 <=> b - 4 \in {3, 1, 0}
  <2>1. \A c : c \in get_bits(ins, 7, 4) <=> \E b \in ins : b >= 4 /\ b <= 7 /\ c = b - 4
    BY WordWidth DEF get_bits, Word
  <2>2. ins \subseteq 0..31
    BY WordWidth DEF Word
  <2> QED BY <2>1, <2>2
<1>2. 4 \in ins /\ 5 \in ins /\ 6 \notin ins /\ 7 \in ins
  BY <1>1
<1>3. get_bits(ins, 6, 5) = {0}
  <2>1. ins \cap (5..6) = {5}
    BY <1>2, WordWidth DEF Word
  <2> QED BY <2>1 DEF get_bits
<1> QED BY <1>2, <1>3 DEF get_bit

\* Class, and with it the form, of an instruction is one.
LEMMA FormsDiffer ==
    ASSUME NEW ins
    PROVE  /\ IsMultiple(ins) => ~IsWord(ins) /\ ~IsHalf(ins)
           /\ IsWord(ins) => ~IsMultiple(ins) /\ ~IsHalf(ins)
           /\ IsHalf(ins) => ~IsMultiple(ins) /\ ~IsWord(ins)
<1>1. {} # {1} /\ {} # {2} /\ {1} # {2}
  OBVIOUS
<1> QED BY <1>1 DEF IsMultiple, IsWord, IsHalf

\* A store goes to the store of its form.
LEMMA StoreExecutes ==
    ASSUME NEW ins \in Program, NEW r, NEW m, NEW junk
    PROVE  Execute(r, m, ins, junk) = StoreOutcome(r, m, ins)
<1>1. StoreForm(ins)
  BY ProgramIsStores
<1>2. Execute(r, m, ins, junk) = Dispatch(r, m, ins, junk) /\ condition_passed(r, ins)
  BY <1>1, AlwaysExecutes, AlwaysPasses DEF StoreForm
<1> DEFINE class == get_bits(ins, 27, 25)
<1>3. CASE IsMultiple(ins)
  <2>1. class = {2} /\ {2} # {} /\ {2} # {0} /\ {2} # {1} /\ {2} # {1, 0}
    BY <1>3 DEF IsMultiple
  <2>2. Dispatch(r, m, ins, junk) = arm_load_store_multiple(r, m, ins, junk)
    BY <2>1 DEF Dispatch
  <2>3. arm_load_store_multiple(r, m, ins, junk) = STM(r, m, RegisterList(ins), StartAddress(r, ins))
    BY <1>1 DEF arm_load_store_multiple, StoreForm
  <2> QED BY <1>2, <1>3, <2>2, <2>3 DEF StoreOutcome, AddressOf
<1>4. CASE IsWord(ins)
  <2>1. class = {1} /\ {1} # {} /\ {1} # {0} /\ {1} # {2} /\ {1} # {1, 0} /\ ~get_bit(ins, 22)
    BY <1>4 DEF IsWord
  <2>2. Dispatch(r, m, ins, junk) = arm_load_store(r, m, ins, junk)
    BY <2>1 DEF Dispatch
  <2> DEFINE address == WordAddress(r, ins, get_bits(ins, 11, 0), junk)
  <2>3. arm_load_store(r, m, ins, junk) = executeInstr_word_byte(r, m, ins, address, junk)
    BY <2>1 DEF arm_load_store
  <2>4. address = AddressOf(r, ins)
    BY <1>1, <1>4, FormsDiffer DEF WordAddress, AddressOf, StoreForm
  <2> HIDE DEF address
  <2>5. executeInstr_word_byte(r, m, ins, address, junk)
            = Store(r, m, address, 4, arm_read_register(r, Rd(ins)))
    BY <1>1, <1>2, <2>1 DEF executeInstr_word_byte, StoreForm
  <2> QED BY <1>2, <1>4, <2>2, <2>3, <2>4, <2>5, FormsDiffer DEF StoreOutcome, Width
<1>5. CASE IsHalf(ins)
  <2>1. /\ class = {} /\ {} # {1} /\ {} # {0} /\ {} # {2} /\ {} # {1, 0} /\ ~IsStatusAccess(ins)
        /\ get_bit(ins, 4) /\ get_bit(ins, 7) /\ get_bits(ins, 6, 5) = {0}
    BY <1>1, <1>5, HalfFields DEF IsHalf, StoreForm
  <2>2. Dispatch(r, m, ins, junk) = arm_load_store(r, m, ins, junk)
    BY <2>1 DEF Dispatch, IsExtraLoadStore
  <2> DEFINE address == MiscAddress(r, ins)
  <2>3. arm_load_store(r, m, ins, junk) = executeInstr_miscellaneous(r, m, ins, address)
    BY <2>1 DEF arm_load_store
  <2>4. address = AddressOf(r, ins)
    BY <1>5, FormsDiffer DEF MiscAddress, AddressOf, Rm
  <2> HIDE DEF address
  <2>5. {b \in {2} : get_bit(ins, 20)} \cup get_bits(ins, 6, 5) = {0}
    BY <1>1, <2>1 DEF StoreForm
  <2>6. executeInstr_miscellaneous(r, m, ins, address)
            = Store(r, m, address, 2, arm_read_register(r, Rd(ins)))
    BY <1>2, <2>5 DEF executeInstr_miscellaneous
  <2> QED BY <1>2, <1>5, <2>2, <2>3, <2>4, <2>6, FormsDiffer DEF StoreOutcome, Width
<1> QED BY <1>1, <1>3, <1>4, <1>5 DEF StoreForm

\* A load has the form of its store, and begins at the same address.
LEMMA MirrorForm ==
    ASSUME NEW ins \in Program
    PROVE  /\ Mirror(ins) \in Word /\ get_bits(Mirror(ins), 31, 28) = AL /\ get_bit(Mirror(ins), 20)
           /\ IsMultiple(Mirror(ins)) <=> IsMultiple(ins)
           /\ IsWord(Mirror(ins)) <=> IsWord(ins)
           /\ IsHalf(ins) => IsHalf(Mirror(ins))
           /\ IsWord(ins) => ~IsHalf(Mirror(ins))
           /\ Width(Mirror(ins)) = Width(ins)
           /\ \A r : AddressOf(r, Mirror(ins)) = AddressOf(r, ins)
<1> DEFINE load == Mirror(ins)
<1>0. StoreForm(ins)
  BY ProgramIsStores
<1>1. /\ get_bits(load, 31, 28) = get_bits(ins, 31, 28)
      /\ get_bits(load, 27, 25) = get_bits(ins, 27, 25)
      /\ get_bits(load, 11, 0) = get_bits(ins, 11, 0)
      /\ get_bits(load, 7, 4) = get_bits(ins, 7, 4)
      /\ RegisterList(load) = RegisterList(ins)
      /\ Rn(load) = Rn(ins) /\ Rm(load) = Rm(ins)
      /\ P_bit(load) = P_bit(ins)
      /\ get_bit(load, 22) = get_bit(ins, 22) /\ get_bit(load, 23) = get_bit(ins, 23)
  BY <1>0, MirrorDecodes DEF StoreForm
<1>2. load \in Word /\ get_bit(load, 20)
  BY <1>0, MirrorFields DEF StoreForm
<1> HIDE DEF load
<1>3. /\ IsMultiple(load) <=> IsMultiple(ins)
      /\ IsWord(load) <=> IsWord(ins)
  BY <1>1 DEF IsMultiple, IsWord
<1>4. IsHalf(ins) => IsHalf(load)
  BY <1>1, <1>2 DEF IsHalf, IsStatusAccess
<1>5. IsWord(ins) => ~IsHalf(load)
  BY <1>3, FormsDiffer
<1>6. IsHalf(load) <=> IsHalf(ins)
  BY <1>0, <1>3, <1>4, <1>5, FormsDiffer DEF StoreForm
<1>7. ASSUME NEW r PROVE AddressOf(r, load) = AddressOf(r, ins)
  <2>1. StartAddress(r, load) = StartAddress(r, ins)
    BY <1>1 DEF StartAddress
  <2>2. \A x, y : op(load, x, y) = op(ins, x, y)
    BY <1>1 DEF op
  <2> QED BY <1>1, <1>3, <1>6, <2>1, <2>2 DEF AddressOf
<1> QED BY <1>0, <1>1, <1>2, <1>3, <1>4, <1>5, <1>6, <1>7 DEF Width, load, StoreForm

\* A load goes to the load of its form.
LEMMA LoadExecutes ==
    ASSUME NEW ins \in Program, NEW r, NEW m, NEW junk
    PROVE  Execute(r, m, Mirror(ins), junk) = LoadOutcome(r, m, ins, junk)
<1> DEFINE load == Mirror(ins)
<1>1. StoreForm(ins)
  BY ProgramIsStores
<1>2. /\ load \in Word /\ get_bits(load, 31, 28) = AL /\ get_bit(load, 20)
      /\ AddressOf(r, load) = AddressOf(r, ins)
      /\ IsMultiple(load) <=> IsMultiple(ins)
      /\ IsWord(load) <=> IsWord(ins)
      /\ IsHalf(ins) => IsHalf(load)
  BY MirrorForm
<1>3. /\ Rd(load) = Rd(ins) /\ RegisterList(load) = RegisterList(ins)
      /\ P_bit(load) = P_bit(ins) /\ W_bit(load) = W_bit(ins)
  BY <1>1, MirrorDecodes DEF StoreForm
<1> HIDE DEF load
<1>4. Execute(r, m, load, junk) = Dispatch(r, m, load, junk)
  BY <1>2, AlwaysExecutes
<1> DEFINE class == get_bits(load, 27, 25)
<1>5. CASE IsMultiple(ins)
  <2>1. class = {2} /\ {2} # {} /\ {2} # {0} /\ {2} # {1} /\ {2} # {1, 0}
    BY <1>2, <1>5 DEF IsMultiple
  <2>2. Dispatch(r, m, load, junk) = arm_load_store_multiple(r, m, load, junk)
    BY <2>1 DEF Dispatch
  <2>3. arm_load_store_multiple(r, m, load, junk)
            = LDM(r, m, RegisterList(load), StartAddress(r, load), junk)
    BY <1>2 DEF arm_load_store_multiple
  <2>4. StartAddress(r, load) = AddressOf(r, ins)
    BY <1>2, <1>5 DEF AddressOf
  <2> QED BY <1>3, <1>4, <1>5, <2>2, <2>3, <2>4 DEF LoadOutcome, load
<1>6. CASE IsWord(ins)
  <2>1. class = {1} /\ {1} # {} /\ {1} # {0} /\ {1} # {2} /\ {1} # {1, 0} /\ ~get_bit(load, 22)
    BY <1>2, <1>6 DEF IsWord
  <2>2. Dispatch(r, m, load, junk) = arm_load_store(r, m, load, junk)
    BY <2>1 DEF Dispatch
  <2> DEFINE address == WordAddress(r, load, get_bits(load, 11, 0), junk)
  <2>3. arm_load_store(r, m, load, junk) = executeInstr_word_byte(r, m, load, address, junk)
    BY <2>1 DEF arm_load_store
  <2>4. address = AddressOf(r, load)
    BY <1>1, <1>2, <1>3, <1>6, FormsDiffer DEF WordAddress, AddressOf, StoreForm
  <2> HIDE DEF address
  <2>5. executeInstr_word_byte(r, m, load, address, junk) = LDR(r, m, Rd(load), address, junk)
    BY <1>2, <2>1 DEF executeInstr_word_byte
  <2> QED BY <1>2, <1>3, <1>4, <1>6, <2>2, <2>3, <2>4, <2>5, FormsDiffer DEF LoadOutcome, load
<1>7. CASE IsHalf(ins)
  <2>1. IsHalf(load)
    BY <1>2, <1>7
  <2>2. /\ class = {} /\ {} # {1} /\ {} # {0} /\ {} # {2} /\ {} # {1, 0} /\ ~IsStatusAccess(load)
        /\ get_bit(load, 4) /\ get_bit(load, 7) /\ get_bits(load, 6, 5) = {0}
    BY <1>2, <2>1, HalfFields DEF IsHalf
  <2>3. Dispatch(r, m, load, junk) = arm_load_store(r, m, load, junk)
    BY <2>2 DEF Dispatch, IsExtraLoadStore
  <2> DEFINE address == MiscAddress(r, load)
  <2>4. arm_load_store(r, m, load, junk) = executeInstr_miscellaneous(r, m, load, address)
    BY <2>2 DEF arm_load_store
  <2>5. address = AddressOf(r, load)
    BY <2>1, FormsDiffer DEF MiscAddress, AddressOf, Rm
  <2> HIDE DEF address
  <2>6. {b \in {2} : get_bit(load, 20)} \cup get_bits(load, 6, 5) = {2, 0}
    BY <1>2, <2>2
  <2>7. {2, 0} # {0} /\ {2, 0} # {1} /\ {2, 0} # {1, 0}
    OBVIOUS
  <2>8. executeInstr_miscellaneous(r, m, load, address) = LDRH(r, m, Rd(load), address)
    BY <2>6, <2>7 DEF executeInstr_miscellaneous
  <2> QED BY <1>2, <1>3, <1>4, <1>7, <2>3, <2>4, <2>5, <2>8, FormsDiffer DEF LoadOutcome, load
<1> QED BY <1>1, <1>5, <1>6, <1>7 DEF StoreForm

---------------------------------------------------------------------------
(* Where a store begins.                                                   *)

InRange(n) == n \in Int /\ n >= -Half /\ n < Half

LEMMA SignedInRange ==
    /\ Half \in Nat /\ Half >= 256 /\ Modulus = 2 * Half
    /\ \A x \in Word : InRange(Signed(x))
    /\ \A n : InRange(n) => Wrapped(n) = n
    /\ \A n \in Int : Wrapped(n) = IF n >= Half THEN n - 2 * Half
                                   ELSE IF n < -Half THEN n + 2 * Half ELSE n
<1>1. /\ Half \in Nat /\ Half >= 256 /\ Modulus = 2 * Half
      /\ Lowest = -Half /\ Highest = Half - 1
  BY Numbers, FirstWeights
<1>2. ASSUME NEW x \in Word PROVE InRange(Signed(x))
  <2>1. /\ Unsigned(x) \in 0..(Modulus - 1) /\ (Sign(x) <=> Unsigned(x) >= Half)
        /\ Signed(x) = Unsigned(x) - (IF Sign(x) THEN Modulus ELSE 0)
    BY Numbers
  <2> QED BY <1>1, <2>1 DEF InRange
<1>3. \A n \in Int : Wrapped(n) = IF n >= Half THEN n - 2 * Half
                                  ELSE IF n < -Half THEN n + 2 * Half ELSE n
  BY <1>1 DEF Wrapped
<1>4. \A n : InRange(n) => Wrapped(n) = n
  BY <1>1, <1>3 DEF InRange
<1> QED BY <1>1, <1>2, <1>3, <1>4

\* Sums and differences of words are those of the numbers, wrapped.
LEMMA SumsWrap ==
    ASSUME NEW x \in Word, NEW y \in Word
    PROVE  /\ Signed(Add(x, y)) = Wrapped(Signed(x) + Signed(y))
           /\ Signed(Sub(x, y)) = Wrapped(Signed(x) - Signed(y))
<1> DEFINE a == Add(x, y)
           s == Sub(x, y)
<1>1. /\ a \in Word /\ s \in Word
      /\ Unsigned(x) + Unsigned(y) = Unsigned(a) \/ Unsigned(x) + Unsigned(y) = Unsigned(a) + Modulus
      /\ Unsigned(x) - Unsigned(y) = Unsigned(s) \/ Unsigned(x) - Unsigned(y) = Unsigned(s) - Modulus
  BY SumsOfWords
<1> HIDE DEF a, s
<1>2. \A z \in {x, y, a, s} :
            /\ Unsigned(z) \in 0..(Modulus - 1)
            /\ Signed(z) = Unsigned(z) - (IF Unsigned(z) >= Half THEN Modulus ELSE 0)
  BY <1>1, Numbers
<1>3. /\ Half \in Nat /\ Modulus = 2 * Half
      /\ \A n \in Int : Wrapped(n) = IF n >= Half THEN n - 2 * Half
                                     ELSE IF n < -Half THEN n + 2 * Half ELSE n
  BY SignedInRange
<1>4. \A z \in {x, y, a, s} : Signed(z) \in Int /\ Unsigned(z) \in Int
  BY <1>2, <1>3
<1>5. Signed(a) = Wrapped(Signed(x) + Signed(y))
  <2>1. Wrapped(Signed(x) + Signed(y)) =
            LET n == Signed(x) + Signed(y)
            IN  IF n >= Half THEN n - 2 * Half ELSE IF n < -Half THEN n + 2 * Half ELSE n
    BY <1>3, <1>4
  <2> QED BY <1>1, <1>2, <1>3, <1>4, <2>1
<1>6. Signed(s) = Wrapped(Signed(x) - Signed(y))
  <2>1. Wrapped(Signed(x) - Signed(y)) =
            LET n == Signed(x) - Signed(y)
            IN  IF n >= Half THEN n - 2 * Half ELSE IF n < -Half THEN n + 2 * Half ELSE n
    BY <1>3, <1>4
  <2> QED BY <1>1, <1>2, <1>3, <1>4, <2>1
<1> QED BY <1>5, <1>6 DEF a, s

LEMMA SmallSigned ==
    ASSUME NEW n \in 0..127
    PROVE  FromNat(n) \in Word /\ Signed(FromNat(n)) = n
<1>1. FromNat(n) \in Word /\ Unsigned(FromNat(n)) = n
  BY SmallNumbers
<1>2. n < Half
  BY FirstWeights, Numbers
<1>3. Sign(FromNat(n)) <=> Unsigned(FromNat(n)) >= Half
  BY <1>1, Numbers
<1>4. Signed(FromNat(n)) = Unsigned(FromNat(n)) - (IF Sign(FromNat(n)) THEN Modulus ELSE 0)
  BY <1>1, Numbers
<1>5. ~Sign(FromNat(n))
  BY <1>1, <1>2, <1>3, Numbers
<1> QED BY <1>1, <1>4, <1>5

\* The twelve bits of an offset are not signed.
LEMMA OffsetIsPositive ==
    ASSUME NEW ins \in Word
    PROVE  /\ get_bits(ins, 11, 0) \in Word
           /\ Signed(get_bits(ins, 11, 0)) = Unsigned(get_bits(ins, 11, 0))
<1> DEFINE x == get_bits(ins, 11, 0)
<1>1. x \subseteq 0..11
  <2>1. 11 \in Nat /\ 0 \in Nat /\ 11 >= 0 /\ 11 - 0 = 11
    OBVIOUS
  <2> QED BY <2>1, GetBitsInField
<1>2. x \in Word /\ ~Sign(x)
  BY <1>1, WordWidth DEF Word, Sign, get_bit
<1>3. Signed(x) = Unsigned(x) - (IF Sign(x) THEN Modulus ELSE 0) /\ Unsigned(x) \in Int
  BY <1>2, Numbers
<1> QED BY <1>2, <1>3

\* A store begins at First.
LEMMA BeginsAtFirst ==
    ASSUME store \in Program, before.regs \in RegisterFile
    PROVE  /\ AddressOf(before.regs, store) \in Word
           /\ Signed(AddressOf(before.regs, store)) = First
           /\ InRange(First)
<1> DEFINE r == before.regs
           from == arm_read_register(r, Rn(store))
           base == Signed(from)
           address == AddressOf(r, store)
<1>1. StoreForm(store)
  BY ProgramIsStores
<1>2. /\ from \in Word /\ arm_read_register(r, Rm(store)) \in Word
      /\ base = Number(Rn(store))
      /\ Signed(arm_read_register(r, Rm(store))) = Number(Rm(store))
  BY ReadsAreWords DEF Number, Given
<1>3. base \in Int /\ InRange(base)
  BY <1>2, SignedInRange DEF InRange
<1>4. Up = get_bit(store, 23)
  BY DEF Up
<1>5. CASE IsMultiple(store)
  <2> DEFINE size == 4 * Cardinality(RegisterList(store))
  <2>1. Size = size
    BY <1>5 DEF Size, Operands
  <2>2. size \in 4..64
    <3>1. RegisterList(store) \in SUBSET (0..15) /\ RegisterList(store) # {}
      BY <1>1, <1>5, RegisterListInRange DEF StoreForm, Operands
    <3>2. Cardinality(RegisterList(store)) \in 1..16
      BY <3>1, Places
    <3> QED BY <3>2
  <2> HIDE DEF size
  <2>3. /\ FromNat(size) \in Word /\ Signed(FromNat(size)) = size
        /\ FromNat(4) \in Word /\ Signed(FromNat(4)) = 4
    BY <2>2, SmallSigned
  <2>4. address = IF P_bit(store)
                  THEN IF Up THEN Add(from, FromNat(4)) ELSE Sub(from, FromNat(size))
                  ELSE IF Up THEN from ELSE Add(Sub(from, FromNat(size)), FromNat(4))
    BY <1>4, <1>5 DEF AddressOf, StartAddress, size, P_bit, get_bit
  <2>5. Start = IF Up THEN base + (IF P_bit(store) THEN 4 ELSE 0)
                ELSE (base - size) + (IF P_bit(store) THEN 0 ELSE 4)
    BY <1>2, <1>5, <2>1 DEF Start
  <2> HIDE DEF from, base, address
  <2>6. /\ Signed(Add(from, FromNat(4))) = Wrapped(base + 4)
        /\ Sub(from, FromNat(size)) \in Word
        /\ Signed(Sub(from, FromNat(size))) = Wrapped(base - size)
    BY <1>2, <2>3, SumsWrap, SumsAreWords DEF base
  <2>7. Signed(Add(Sub(from, FromNat(size)), FromNat(4))) = Wrapped(Wrapped(base - size) + 4)
    BY <2>3, <2>6, SumsWrap
  <2>8. Wrapped(Wrapped(base - size) + 4) = Wrapped((base - size) + 4)
    <3>1. /\ Half \in Nat /\ Half >= 256
          /\ \A n \in Int : Wrapped(n) = IF n >= Half THEN n - 2 * Half
                                         ELSE IF n < -Half THEN n + 2 * Half ELSE n
      BY SignedInRange
    <3> DEFINE w == Wrapped(base - size)
    <3>2. base - size \in Int /\ (base - size) + 4 \in Int
      BY <1>3, <2>2
    <3>3. w = IF base - size >= Half THEN (base - size) - 2 * Half
              ELSE IF base - size < -Half THEN (base - size) + 2 * Half ELSE base - size
      BY <3>1, <3>2
    <3>4. w + 4 \in Int
      BY <1>3, <2>2, <3>1, <3>3
    <3> HIDE DEF w
    <3>5. Wrapped(w + 4) = IF w + 4 >= Half THEN (w + 4) - 2 * Half
                           ELSE IF w + 4 < -Half THEN (w + 4) + 2 * Half ELSE w + 4
      BY <3>1, <3>4
    <3>6. Wrapped((base - size) + 4) =
                IF (base - size) + 4 >= Half THEN ((base - size) + 4) - 2 * Half
                ELSE IF (base - size) + 4 < -Half THEN ((base - size) + 4) + 2 * Half
                ELSE (base - size) + 4
      BY <3>1, <3>2
    <3>7. Wrapped(w + 4) = Wrapped((base - size) + 4)
      BY <1>3, <2>2, <3>1, <3>3, <3>5, <3>6 DEF InRange
    <3> QED BY <3>7 DEF w
  <2>9. Wrapped(base) = base /\ base + 0 = base /\ (base - size) + 0 = base - size
    BY <1>3, <2>2, SignedInRange
  <2>10. address \in Word
    BY <1>2, <2>4, SumsAreWords
  <2>11. Signed(address) = Wrapped(Start)
    BY <2>4, <2>5, <2>6, <2>7, <2>8, <2>9 DEF base
  <2> QED BY <2>10, <2>11, SignedInRange DEF First, address
<1>6. CASE ~IsMultiple(store)
  <2> DEFINE by == IF IsHalf(store) THEN arm_read_register(r, Rm(store)) ELSE get_bits(store, 11, 0)
  <2>1. by \in Word /\ Signed(by) = Offset
    BY <1>1, <1>2, OffsetIsPositive DEF Offset, StoreForm
  <2>2. address = IF ~P_bit(store) THEN from ELSE IF Up THEN Add(from, by) ELSE Sub(from, by)
    BY <1>4, <1>6 DEF AddressOf, op
  <2>3. Start = IF ~P_bit(store) THEN base ELSE IF Up THEN base + Offset ELSE base - Offset
    BY <1>2, <1>6 DEF Start
  <2> HIDE DEF by, from, base, address
  <2>4. /\ Signed(Add(from, by)) = Wrapped(base + Offset)
        /\ Signed(Sub(from, by)) = Wrapped(base - Offset)
        /\ Wrapped(base) = base
    BY <1>2, <1>3, <2>1, SumsWrap, SignedInRange DEF base
  <2>5. address \in Word
    BY <1>2, <2>2, SumsAreWords
  <2>6. Signed(address) = Wrapped(Start)
    BY <2>2, <2>3, <2>4 DEF base
  <2> QED BY <2>5, <2>6, SignedInRange DEF First, address
<1> QED BY <1>5, <1>6

---------------------------------------------------------------------------
(* What a store leaves, and what a load brings back.                       *)

\* The store begins here, and puts its registers there.
Begin == AddressOf(before.regs, store)
At(reg) ==
    IF IsMultiple(store) THEN TransferAddress(Begin, RegisterList(store), reg) ELSE Begin
Inside == First >= 0 /\ First + Size <= MemSize

Sound == store \in Program /\ before.regs \in RegisterFile

\* The bytes of a store, by their distance from the beginning.
LEMMA BytesFromFirst ==
    ASSUME Sound, NEW k \in 0..127
    PROVE  /\ ByteAddress(Begin, k) \in MemAddress <=> First + k >= 0 /\ First + k < MemSize
           /\ ByteAddress(Begin, k) \in MemAddress => Unsigned(ByteAddress(Begin, k)) = First + k
           /\ First \in Int /\ MemSize \in Int
<1>1. Begin \in Word /\ Signed(Begin) = First /\ First \in Int
  BY BeginsAtFirst DEF Begin, Sound, InRange
<1> QED BY <1>1, Distance, AddressesAreBelow

LEMMA OperandsOfStore ==
    ASSUME Sound
    PROVE  /\ StoreForm(store) /\ Begin \in Word
           /\ Operands(store) \in SUBSET (0..15) /\ Operands(store) # {}
           /\ IsMultiple(store) => /\ Operands(store) = RegisterList(store)
                                   /\ Size = 4 * Cardinality(Operands(store)) /\ Size \in 4..64
                                   /\ Width(store) = 4
           /\ ~IsMultiple(store) => /\ Operands(store) = {Rd(store)}
                                    /\ Size = Width(store)
           /\ Width(store) \in {2, 4}
<1>1. StoreForm(store) /\ Begin \in Word
  BY ProgramIsStores, BeginsAtFirst DEF Sound, Begin
<1>2. Rd(store) \in 0..15
  <2>1. get_bits(store, 15, 12) \subseteq 0..3
    <3>1. 15 \in Nat /\ 12 \in Nat /\ 15 >= 12 /\ 15 - 12 = 3
      OBVIOUS
    <3> QED BY <1>1, <3>1, GetBitsInField DEF StoreForm
  <2> QED BY <2>1, ToNatIsNat DEF Rd
<1>3. RegisterList(store) \in SUBSET (0..15)
  BY <1>1, RegisterListInRange DEF StoreForm
<1>4. Operands(store) \in SUBSET (0..15) /\ Operands(store) # {}
  BY <1>1, <1>2, <1>3 DEF Operands, StoreForm
<1>5. IsMultiple(store) => /\ Operands(store) = RegisterList(store)
                           /\ Size = 4 * Cardinality(Operands(store)) /\ Size \in 4..64
                           /\ Width(store) = 4
  <2> SUFFICES ASSUME IsMultiple(store)
               PROVE  /\ Operands(store) = RegisterList(store)
                      /\ Size = 4 * Cardinality(Operands(store)) /\ Size \in 4..64
                      /\ Width(store) = 4
    OBVIOUS
  <2>1. Cardinality(Operands(store)) \in 1..16
    BY <1>4, Places
  <2>2. Size = 4 * Cardinality(Operands(store))
    BY DEF Size
  <2>3. 4 * Cardinality(Operands(store)) \in 4..64
    BY <2>1
  <2> QED BY <2>2, <2>3, FormsDiffer DEF Operands, Width
<1>6. ~IsMultiple(store) => Operands(store) = {Rd(store)} /\ Size = Width(store)
  BY DEF Operands, Size, Width
<1> QED BY <1>1, <1>4, <1>5, <1>6 DEF Width

\* A list is inside when each of its words is.
LEMMA ListInside ==
    ASSUME Sound, IsMultiple(store)
    PROVE  Failing(Begin, RegisterList(store)) = {} <=> Inside
<1> DEFINE list == RegisterList(store)
           place(i) == CountBelow(list, i)
           top == Cardinality(list) - 1
<1>1. /\ list \in SUBSET (0..15) /\ list # {} /\ Begin \in Word
      /\ Size = 4 * Cardinality(list) /\ Size \in 4..64
  BY OperandsOfStore
<1>2. /\ Cardinality(list) \in 1..16
      /\ \A i \in list : place(i) \in 0..top
      /\ \E i \in list : place(i) = 0
      /\ \E i \in list : place(i) = top
  BY <1>1, Places
<1>3. ASSUME NEW i \in list, NEW b \in 0..3
      PROVE  /\ 4 * place(i) + b \in 0..127
             /\ ByteAddress(TransferAddress(Begin, list, i), b) \in MemAddress
                    <=> First + (4 * place(i) + b) >= 0 /\ First + (4 * place(i) + b) < MemSize
  <2>1. /\ 4 * place(i) + b \in 0..127
        /\ ByteAddress(TransferAddress(Begin, list, i), b) = ByteAddress(Begin, 4 * place(i) + b)
    BY <1>1, PlaceOfRegister
  <2> QED BY <2>1, BytesFromFirst
<1>4. ASSUME NEW i \in list
      PROVE  Access(TransferAddress(Begin, list, i), 4) = 0
                <=> \A b \in 0..3 : ByteAddress(TransferAddress(Begin, list, i), b) \in MemAddress
  <2>1. 4 \in Nat \ {0} /\ 4 - 1 = 3
    OBVIOUS
  <2> QED BY <2>1, AccessInside
<1>5. First \in Int /\ MemSize \in Int
  BY BytesFromFirst
<1>6. ASSUME Inside, NEW i \in list PROVE Access(TransferAddress(Begin, list, i), 4) = 0
  <2> SUFFICES ASSUME NEW b \in 0..3
               PROVE  ByteAddress(TransferAddress(Begin, list, i), b) \in MemAddress
    BY <1>4
  <2>1. place(i) \in 0..top /\ top \in 0..15 /\ Size = 4 * (top + 1)
    BY <1>1, <1>2
  <2> HIDE DEF place, top
  <2>2. First + (4 * place(i) + b) >= 0 /\ First + (4 * place(i) + b) < MemSize
    BY <1>5, <1>6, <2>1 DEF Inside
  <2> QED BY <1>3, <2>2
<1>7. ASSUME \A i \in list : Access(TransferAddress(Begin, list, i), 4) = 0
      PROVE  Inside
  <2>1. PICK i \in list : place(i) = 0
    BY <1>2
  <2>2. PICK j \in list : place(j) = top
    BY <1>2
  <2>3. First + (4 * place(i) + 0) >= 0
    <3>1. ByteAddress(TransferAddress(Begin, list, i), 0) \in MemAddress
      BY <1>4, <1>7
    <3> QED BY <1>3, <3>1
  <2>4. First + (4 * place(j) + 3) < MemSize
    <3>1. ByteAddress(TransferAddress(Begin, list, j), 3) \in MemAddress
      BY <1>4, <1>7
    <3> QED BY <1>3, <3>1
  <2>5. top \in 0..15 /\ Size = 4 * (top + 1)
    BY <1>1, <1>2
  <2> HIDE DEF place, top
  <2> QED BY <1>5, <2>1, <2>2, <2>3, <2>4, <2>5 DEF Inside
<1>8. Failing(Begin, list) = {} <=> \A i \in list : Access(TransferAddress(Begin, list, i), 4) = 0
  BY DEF Failing
<1> QED BY <1>6, <1>7, <1>8

LEMMA SingleInside ==
    ASSUME Sound, ~IsMultiple(store)
    PROVE  Access(Begin, Width(store)) = 0 <=> Inside
<1>1. Width(store) \in {2, 4} /\ Size = Width(store)
  BY OperandsOfStore
<1>2. Access(Begin, Width(store)) = 0
        <=> \A b \in 0..(Width(store) - 1) : ByteAddress(Begin, b) \in MemAddress
  BY <1>1, AccessInside
<1>3. \A b \in 0..(Width(store) - 1) :
            ByteAddress(Begin, b) \in MemAddress <=> First + b >= 0 /\ First + b < MemSize
  <2>1. \A b \in 0..(Width(store) - 1) : b \in 0..127
    BY <1>1
  <2> QED BY <2>1, BytesFromFirst
<1>4. First \in Int /\ MemSize \in Int
  BY BytesFromFirst
<1>5. (\A b \in 0..(Width(store) - 1) : First + b >= 0 /\ First + b < MemSize) <=> Inside
  <2>1. 0 \in 0..(Width(store) - 1) /\ Width(store) - 1 \in 0..(Width(store) - 1)
    BY <1>1
  <2>2. ASSUME \A b \in 0..(Width(store) - 1) : First + b >= 0 /\ First + b < MemSize
        PROVE  Inside
    <3>1. First + 0 >= 0 /\ First + (Width(store) - 1) < MemSize
      BY <2>1, <2>2
    <3> QED BY <1>1, <1>4, <3>1 DEF Inside
  <2>3. ASSUME Inside, NEW b \in 0..(Width(store) - 1)
        PROVE  First + b >= 0 /\ First + b < MemSize
    BY <1>1, <1>4, <2>3 DEF Inside
  <2> QED BY <2>2, <2>3
<1> QED BY <1>2, <1>3, <1>5

\* A store succeeds when it is inside the memory, and only then.
LEMMA StoreSucceeds ==
    ASSUME Sound, NEW m
    PROVE  StoreOutcome(before.regs, m, store).result = 0 <=> Inside
<1>1. CASE IsMultiple(store)
  <2>1. StoreOutcome(before.regs, m, store).result = MultipleResult(Begin, RegisterList(store))
    BY <1>1 DEF StoreOutcome, Begin, STM, Outcome
  <2>2. MultipleResult(Begin, RegisterList(store)) = 0 <=> Failing(Begin, RegisterList(store)) = {}
    BY <1>1, OperandsOfStore, ListResult
  <2> QED BY <1>1, <2>1, <2>2, ListInside
<1>2. CASE ~IsMultiple(store)
  <2>1. StoreOutcome(before.regs, m, store).result = Access(Begin, Width(store))
    BY <1>2 DEF StoreOutcome, Begin, Store, Outcome
  <2> QED BY <1>2, <2>1, SingleInside
<1> QED BY <1>1, <1>2

\* The memory a list leaves.
ListBytes ==
    UNION {BytesOf(TransferAddress(Begin, RegisterList(store), i), 4,
                   arm_read_register(before.regs, i))
           : i \in Transferred(Begin, RegisterList(store))}

LEMMA ListMemory ==
    ASSUME IsMultiple(store), NEW m
    PROVE  StoreOutcome(before.regs, m, store).mem = StoreBytes(m, ListBytes)
BY DEF StoreOutcome, Begin, STM, Outcome, ListBytes

\* A store changes bytes of its range only.
LEMMA StoreKeepsToRange ==
    ASSUME Sound, NEW m \in MemoryContent, NEW a \in MemAddress,
           StoreOutcome(before.regs, m, store).mem[a] # m[a]
    PROVE  Unsigned(a) \in First..(First + Size - 1)
<1>0. First \in Int /\ MemSize \in Int
  BY BytesFromFirst
<1>1. CASE IsMultiple(store)
  <2> DEFINE list == RegisterList(store)
  <2>1. list \in SUBSET (0..15) /\ list # {} /\ Begin \in Word /\ Size = 4 * Cardinality(list)
    BY <1>1, OperandsOfStore
  <2>2. PICK b \in ListBytes : b[1] = a
    <3>1. StoreBytes(m, ListBytes)[a] # m[a]
      BY <1>1, ListMemory
    <3> QED BY <3>1, StoresOnly
  <2>3. PICK i \in Transferred(Begin, list), k \in 0..3 :
            a = ByteAddress(TransferAddress(Begin, list, i), k)
    BY <2>2 DEF ListBytes, BytesOf
  <2>4. i \in list
    BY DEF Transferred
  <2> DEFINE c == CountBelow(list, i)
  <2>5. 4 * c + k \in 0..127 /\ a = ByteAddress(Begin, 4 * c + k)
    BY <2>1, <2>3, <2>4, PlaceOfRegister
  <2>6. Unsigned(a) = First + (4 * c + k)
    BY <2>5, BytesFromFirst
  <2>7. c \in 0..(Cardinality(list) - 1) /\ Cardinality(list) \in 1..16
    BY <2>1, <2>4, Places
  <2> HIDE DEF c
  <2> QED BY <1>0, <2>1, <2>6, <2>7
<1>2. CASE ~IsMultiple(store)
  <2> DEFINE v == arm_read_register(before.regs, Rd(store))
  <2>1. Width(store) \in {2, 4} /\ Size = Width(store)
    BY <1>2, OperandsOfStore
  <2>2. StoreOutcome(before.regs, m, store).mem = memory_write(m, Begin, Width(store), v)
    BY <1>2 DEF StoreOutcome, Begin, Store, Outcome
  <2> HIDE DEF v
  <2>3. StoreBytes(m, BytesOf(Begin, Width(store), v))[a] # m[a]
    BY <2>2 DEF memory_write
  <2>4. PICK b \in BytesOf(Begin, Width(store), v) : b[1] = a
    BY <2>3, StoresOnly
  <2>5. PICK k \in 0..(Width(store) - 1) : a = ByteAddress(Begin, k)
    BY <2>4 DEF BytesOf
  <2>6. k \in 0..127 /\ k \in 0..(Size - 1) /\ Size \in {2, 4}
    BY <2>1
  <2>7. Unsigned(a) = First + k
    BY <2>5, <2>6, BytesFromFirst
  <2> QED BY <1>0, <2>6, <2>7
<1> QED BY <1>1, <1>2

\* A word of a list that was stored is there.
LEMMA ListWordStored ==
    ASSUME Sound, IsMultiple(store), NEW m,
           NEW reg \in Transferred(Begin, RegisterList(store))
    PROVE  /\ At(reg) \in MemAddress
           /\ Unsigned(At(reg)) = First + 4 * Rank(reg)
           /\ memory_read(StoreOutcome(before.regs, m, store).mem, At(reg), 4) = Given(reg)
<1> DEFINE list == RegisterList(store)
           some == Transferred(Begin, list)
           a == TransferAddress(Begin, list, reg)
           v == Given(reg)
<1>1. /\ list \in SUBSET (0..15) /\ list # {} /\ Begin \in Word /\ Operands(store) = list
  BY OperandsOfStore
<1>2. reg \in list /\ some \in SUBSET list /\ At(reg) = a
  BY DEF Transferred, At
<1>3. \A b \in 0..(4 - 1) : ByteAddress(a, b) \in MemAddress
  <2>1. Access(a, 4) = 0
    BY <1>1, ListResult
  <2> QED BY <2>1, AccessInside
<1>4. OneByteEach(ListBytes)
  <2> DEFINE value == [i \in some |-> arm_read_register(before.regs, i)]
             written == UNION {BytesOf(TransferAddress(Begin, list, i), 4, value[i]) : i \in some}
  <2>1. ListBytes = written
    BY DEF ListBytes
  <2>2. OneByteEach(written)
    <3> HIDE DEF value, list, some
    <3> QED BY <1>1, <1>2, ListApart
  <2> QED BY <2>1, <2>2
<1>5. BytesOf(a, 4, v) \subseteq ListBytes
  BY DEF ListBytes, Given
<1>6. v \in Word
  BY ReadsAreWords DEF Given, Sound
<1> HIDE DEF v, a
<1>7. memory_read(StoreBytes(m, ListBytes), a, 4) = v \cap (0..(8 * 4 - 1))
  BY <1>3, <1>4, <1>5, <1>6, ReadsBack
<1>8. v \cap (0..(8 * 4 - 1)) = v
  <2>1. 0..(8 * 4 - 1) = 0..31
    OBVIOUS
  <2>2. v \subseteq 0..31
    BY <1>6, WordWidth DEF Word
  <2> QED BY <2>1, <2>2
<1> DEFINE c == CountBelow(list, reg)
<1>9. c = Rank(reg)
  BY <1>1 DEF CountBelow, Rank
<1>10. 4 * c \in 0..60 /\ a = ByteAddress(Begin, 4 * c) /\ a \in Word
  BY <1>1, <1>2, PlaceOfRegister DEF a
<1>11. a \in MemAddress
  <2>1. ByteAddress(a, 0) = a
    <3>1. 4 * c \in 0..127 /\ 0 \in 0..127 /\ 4 * c + 0 = 4 * c
      BY <1>10
    <3> HIDE DEF c
    <3> QED BY <1>1, <1>10, <3>1, DistancesAdd
  <2> QED BY <1>3, <2>1
<1>12. Unsigned(a) = First + 4 * c
  <2>1. 4 * c \in 0..127
    BY <1>10
  <2> HIDE DEF c
  <2> QED BY <1>10, <1>11, <2>1, BytesFromFirst
<1> QED BY <1>2, <1>7, <1>8, <1>9, <1>11, <1>12, ListMemory DEF v

\* What a store that succeeds has stored is there.
LEMMA StoredIsThere ==
    ASSUME Sound, Inside, NEW m, NEW reg \in Operands(store)
    PROVE  memory_read(StoreOutcome(before.regs, m, store).mem, At(reg), Width(store))
                = IF IsHalf(store) THEN Given(reg) \cap (0..15) ELSE Given(reg)
<1>1. CASE IsMultiple(store)
  <2>1. Transferred(Begin, RegisterList(store)) = Operands(store)
    BY <1>1, ListInside, ListResult, OperandsOfStore
  <2> QED BY <1>1, <2>1, ListWordStored, FormsDiffer DEF Width
<1>2. CASE ~IsMultiple(store)
  <2> DEFINE n == Width(store)
             v == Given(reg)
  <2>1. /\ reg = Rd(store) /\ At(reg) = Begin /\ n \in {2, 4} /\ Begin \in Word
    BY <1>2, OperandsOfStore DEF At
  <2>2. Access(Begin, n) = 0
    BY <1>2, SingleInside
  <2>3. StoreOutcome(before.regs, m, store).mem = memory_write(m, Begin, n, v)
    BY <1>2, <2>1 DEF StoreOutcome, Begin, Store, Outcome, Given
  <2>4. v \in Word
    BY ReadsAreWords DEF Given, Sound
  <2> HIDE DEF n, v
  <2>5. n \in Nat \ {0} /\ n \in 1..4
    BY <2>1
  <2>6. InBounds(Begin, n) /\ \A i \in 0..(n - 1) : ByteAddress(Begin, i) \in MemAddress
    <3>1. ~(Access(Begin, n) = FAULT)
      BY <2>2 DEF FAULT
    <3> QED BY <2>2, <2>5, <3>1, AccessInside
  <2>7. memory_write(m, Begin, n, v) = StoreBytes(m, BytesOf(Begin, n, v))
    BY <2>6 DEF memory_write
  <2>8. memory_read(StoreBytes(m, BytesOf(Begin, n, v)), Begin, n) = v \cap (0..(8 * n - 1))
    BY <2>1, <2>4, <2>5, <2>6, BytesApart, ReadsBack
  <2>9. v \cap (0..(8 * 4 - 1)) = v /\ 0..(8 * 2 - 1) = 0..15
    <3>1. 0..(8 * 4 - 1) = 0..31 /\ 0..(8 * 2 - 1) = 0..15
      OBVIOUS
    <3>2. v \subseteq 0..31
      BY <2>4, WordWidth DEF Word
    <3> QED BY <3>1, <3>2
  <2> QED BY <2>1, <2>3, <2>7, <2>8, <2>9 DEF n, v, Width
<1> QED BY <1>1, <1>2

\* A single store that fails stores nothing.
LEMMA FailedStoresNothing ==
    ASSUME NEW r, NEW m, ~IsMultiple(store), StoreOutcome(r, m, store).result = FAULT
    PROVE  StoreOutcome(r, m, store).mem = m
<1> DEFINE n == Width(store)
<1>1. n \in Nat \ {0}
  BY DEF Width
<1>2. /\ StoreOutcome(r, m, store).mem = memory_write(m, AddressOf(r, store), n,
                                                     arm_read_register(r, Rd(store)))
      /\ StoreOutcome(r, m, store).result = Access(AddressOf(r, store), n)
  BY DEF StoreOutcome, Store, Outcome
<1> HIDE DEF n
<1>3. ~InBounds(AddressOf(r, store), n)
  BY <1>1, <1>2, AccessInside
<1> QED BY <1>2, <1>3 DEF memory_write


---------------------------------------------------------------------------
(* The load.                                                               *)

\* The load from where the store went reads what is there.
LEMMA LoadReads ==
    ASSUME Sound, Inside, NEW r \in RegisterFile, get_mode(r) \in NamedModes,
           AddressOf(r, store) = Begin, NEW m, NEW junk
    PROVE  /\ LoadOutcome(r, m, store, junk).result = 0
           /\ LoadOutcome(r, m, store, junk).mem = m
           /\ \A reg \in Operands(store) :
                arm_read_register(LoadOutcome(r, m, store, junk).regs, reg)
                    = memory_read(m, At(reg), Width(store))
<1> DEFINE o == LoadOutcome(r, m, store, junk)
<1>0. /\ Operands(store) \in SUBSET (0..15) /\ PC \notin Operands(store)
      /\ \A reg, s : reg \in Operands(store) => arm_read_register(s, reg) = read_register(s, reg)
  <2>1. Operands(store) \in SUBSET (0..15) /\ StoreForm(store)
    BY OperandsOfStore
  <2> QED BY <2>1 DEF StoreForm, arm_read_register
<1>1. CASE IsMultiple(store)
  <2> DEFINE list == RegisterList(store)
             word == [i \in list |-> memory_read(m, TransferAddress(Begin, list, i), 4)]
             loaded == write_registers(r, list, word)
  <2>1. /\ Operands(store) = list /\ Width(store) = 4
        /\ \A i \in list : At(i) = TransferAddress(Begin, list, i)
    BY <1>1, OperandsOfStore DEF At
  <2>2. /\ Failing(Begin, list) = {} /\ FirstFailing(Begin, list) = 16
        /\ Transferred(Begin, list) = list /\ MultipleResult(Begin, list) = 0
    BY <1>0, <1>1, <2>1, ListInside, ListResult
  <2>3. list \ {PC} = list /\ PC \notin list
    BY <1>0, <2>1
  <2>4. o = LDM(r, m, list, Begin, junk)
    BY <1>1 DEF LoadOutcome
  <2>5. o = Outcome(loaded, m, 0)
    BY <2>2, <2>3, <2>4 DEF LDM
  <2>6. \A i \in list : word[i] = memory_read(m, At(i), 4) /\ word[i] \in Word
    BY <2>1, ReadIsWord
  <2>7. list \in SUBSET (0..15)
    BY <1>0, <2>1
  <2> HIDE DEF word, o, list
  <2>8. \A i \in 0..15 : read_register(loaded, i) = IF i \in list THEN word[i] ELSE read_register(r, i)
    BY <2>6, <2>7, WrittenAreRead
  <2> HIDE DEF loaded
  <2>9. o.regs = loaded /\ o.mem = m /\ o.result = 0
    BY <2>5, OutcomeFields
  <2>10. \A reg \in Operands(store) : arm_read_register(o.regs, reg) = memory_read(m, At(reg), Width(store))
    BY <1>0, <2>1, <2>6, <2>7, <2>8, <2>9
  <2> QED BY <2>9, <2>10 DEF o
<1>2. CASE ~IsMultiple(store)
  <2> DEFINE rd == Rd(store)
             n == Width(store)
             word == memory_read(m, Begin, n)
  <2>1. Operands(store) = {rd} /\ n \in {2, 4} /\ At(rd) = Begin
    BY <1>2, OperandsOfStore DEF At
  <2>2. rd \in 0..15 /\ rd # PC
    BY <1>0, <2>1
  <2>3. Access(Begin, n) = 0
    BY <1>2, SingleInside
  <2>4. o = Outcome(write_register(r, rd, word), m, 0)
    <3>1. CASE IsHalf(store)
      <4>1. n = 2
        BY <3>1 DEF Width
      <4>2. o = LDRH(r, m, rd, Begin)
        BY <1>2, <3>1 DEF LoadOutcome
      <4> QED BY <2>3, <4>1, <4>2 DEF LDRH
    <3>2. CASE ~IsHalf(store)
      <4>1. n = 4
        BY <3>2 DEF Width
      <4>2. o = LDR(r, m, rd, Begin, junk)
        BY <1>2, <3>2 DEF LoadOutcome
      <4>3. Access(Begin, 4) # SEGV /\ Access(Begin, 4) # FAULT
        BY <2>3, <4>1 DEF SEGV, FAULT
      <4> QED BY <2>2, <4>1, <4>2, <4>3 DEF LDR
    <3> QED BY <3>1, <3>2
  <2>5. word \in Word
    BY ReadIsWord
  <2> HIDE DEF o, rd, word, n
  <2>6. read_register(write_register(r, rd, word), rd) = word
    BY <2>2, <2>5, WrittenIsRead
  <2>7. o.regs = write_register(r, rd, word) /\ o.mem = m /\ o.result = 0
    BY <2>4, OutcomeFields
  <2>8. \A reg \in Operands(store) : arm_read_register(o.regs, reg) = word /\ At(reg) = Begin
    BY <1>0, <2>1, <2>6, <2>7
  <2> QED BY <2>7, <2>8 DEF o, word, n
<1> QED BY <1>1, <1>2

---------------------------------------------------------------------------
(* The registers between.                                                  *)

\* Two register files that agree on the registers of the address.
AgreeOnAddress(r, s) ==
    \A reg \in Addressing(store) : arm_read_register(r, reg) = arm_read_register(s, reg)

\* They give the same address.
LEMMA SameAddress ==
    ASSUME NEW r, NEW s, AgreeOnAddress(r, s)
    PROVE  AddressOf(r, store) = AddressOf(s, store)
<1>1. /\ arm_read_register(r, Rn(store)) = arm_read_register(s, Rn(store))
      /\ IsHalf(store) => arm_read_register(r, Rm(store)) = arm_read_register(s, Rm(store))
  BY DEF AgreeOnAddress, Addressing
<1>2. StartAddress(r, store) = StartAddress(s, store)
  BY <1>1 DEF StartAddress
<1> QED BY <1>1, <1>2 DEF AddressOf

\* Writing the others keeps the mode and these.
LEMMA OverwriteKeepsAddress ==
    ASSUME Sound, NEW r \in RegisterFile, get_mode(r) \in NamedModes,
           NEW values, \A i \in 0..15 : values[i] \in Word
    PROVE  LET s == write_registers(r, (0..15) \ Addressing(store), values)
           IN  s \in RegisterFile /\ get_mode(s) = get_mode(r) /\ AgreeOnAddress(s, r)
<1> DEFINE others == (0..15) \ Addressing(store)
           s == write_registers(r, others, values)
<1>1. others \in SUBSET (0..15) /\ \A i \in others : values[i] \in Word
  OBVIOUS
<1>2. Addressing(store) \subseteq 0..15
  <2>1. get_bits(store, 19, 16) \subseteq 0..3 /\ get_bits(store, 3, 0) \subseteq 0..3
    <3>1. StoreForm(store)
      BY OperandsOfStore
    <3>2. /\ 19 \in Nat /\ 16 \in Nat /\ 19 >= 16 /\ 19 - 16 = 3
          /\ 3 \in Nat /\ 0 \in Nat /\ 3 >= 0 /\ 3 - 0 = 3
      OBVIOUS
    <3>3. get_bits(store, 19, 16) \subseteq 0..3
      BY <3>1, <3>2, GetBitsInField DEF StoreForm
    <3>4. get_bits(store, 3, 0) \subseteq 0..3
      BY <3>1, <3>2, GetBitsInField DEF StoreForm
    <3> QED BY <3>3, <3>4
  <2> QED BY <2>1, ToNatIsNat DEF Addressing, Rn, Rm
<1> HIDE DEF others
<1>3. s \in RegisterFile /\ read_cpsr(s) = read_cpsr(r)
  BY <1>1, WriteRegistersStays DEF StaysIn
<1>4. \A i \in 0..15 : read_register(s, i) = IF i \in others THEN values[i] ELSE read_register(r, i)
  BY <1>1, WrittenAreRead
<1> HIDE DEF s
<1>5. \A i \in Addressing(store) : read_register(s, i) = read_register(r, i)
  BY <1>2, <1>4 DEF others
<1>6. AgreeOnAddress(s, r)
  BY <1>5 DEF AgreeOnAddress, arm_read_register
<1>7. get_mode(s) = get_mode(r)
  BY <1>3 DEF get_mode, read_cpsr
<1> QED BY <1>3, <1>6, <1>7 DEF s, others

---------------------------------------------------------------------------
(* The invariant.                                                          *)

\* What the store left.
Stored == StoreOutcome(before.regs, before.mem, store)

TransferInv ==
    /\ TransferTypeOK
    /\ Sound /\ before.mem \in MemoryContent /\ get_mode(before.regs) \in NamedModes
    /\ stage = "store" => regs = before.regs /\ mem = before.mem
    /\ stage # "store" => mem = Stored.mem
    /\ stage = "done" => result = Stored.result /\ ~Inside
    /\ stage \in {"overwrite", "load", "loaded"} => Inside
    /\ stage = "overwrite" => regs = before.regs
    /\ stage = "load" => get_mode(regs) \in NamedModes /\ AgreeOnAddress(regs, before.regs)
    /\ stage = "loaded" =>
        /\ result = 0
        /\ \A reg \in Operands(store) :
                arm_read_register(regs, reg) = memory_read(mem, At(reg), Width(store))

LEMMA TransferInit_Inv == TransferInit => TransferInv
<1> SUFFICES ASSUME TransferInit PROVE TransferInv
  OBVIOUS
<1>1. /\ regs \in InitialFiles /\ mem \in InitialMemories /\ store \in Program
      /\ before = [regs |-> regs, mem |-> mem] /\ stage = "store"
  BY DEF TransferInit
<1>2. regs \in RegisterFile /\ mem \in MemoryContent /\ get_mode(regs) \in NamedModes
  BY <1>1, ArmCoreAssumption, TransfersAssumption
<1> QED BY <1>1, <1>2 DEF TransferInv, TransferTypeOK, Sound

\* A store and its load, as steps.
LEMMA StepsExecute ==
    ASSUME Sound
    PROVE  /\ RunStore => LET o == StoreOutcome(regs, mem, store)
                          IN  regs' = o.regs /\ mem' = o.mem /\ result' = o.result
           /\ RunLoad => \E junk \in JunkLocals :
                          LET o == LoadOutcome(regs, mem, store, junk)
                          IN  regs' = o.regs /\ mem' = o.mem /\ result' = o.result
<1>1. store \in Program
  BY DEF Sound
<1>2. \A junk : Execute(regs, mem, store, junk) = StoreOutcome(regs, mem, store)
  BY <1>1, StoreExecutes
<1>3. \A junk : Execute(regs, mem, Mirror(store), junk) = LoadOutcome(regs, mem, store, junk)
  BY <1>1, LoadExecutes
<1>4. ASSUME RunStore
      PROVE  LET o == StoreOutcome(regs, mem, store)
             IN  regs' = o.regs /\ mem' = o.mem /\ result' = o.result
  <2>1. Transfer(store)
    BY <1>4 DEF RunStore
  <2> QED BY <1>2, <2>1 DEF Transfer
<1>5. ASSUME RunLoad
      PROVE  \E junk \in JunkLocals :
                LET o == LoadOutcome(regs, mem, store, junk)
                IN  regs' = o.regs /\ mem' = o.mem /\ result' = o.result
  <2>1. Transfer(Mirror(store))
    BY <1>5 DEF RunLoad
  <2> QED BY <1>3, <2>1 DEF Transfer
<1> QED BY <1>4, <1>5

\* What is about the store alone does not change.
LEMMA StoreStays ==
    ASSUME store' = store, before' = before
    PROVE  /\ Sound' = Sound /\ Inside' = Inside /\ Begin' = Begin /\ Stored' = Stored
           /\ \A reg : At(reg)' = At(reg)
           /\ \A r, s : AgreeOnAddress(r, s)' = AgreeOnAddress(r, s)
<1>1. Sound' = Sound /\ Begin' = Begin /\ Stored' = Stored
  BY DEF Sound, Begin, Stored
<1>2. Inside' = Inside
  <2>1. Size' = Size /\ Offset' = Offset /\ Up' = Up /\ Number(Rn(store))' = Number(Rn(store))
    BY DEF Size, Offset, Up, Number, Given
  <2> QED BY <2>1 DEF Inside, First, Start, MemSize
<1>3. \A reg : At(reg)' = At(reg)
  BY <1>1 DEF At
<1>4. \A r, s : AgreeOnAddress(r, s)' = AgreeOnAddress(r, s)
  BY DEF AgreeOnAddress
<1> QED BY <1>1, <1>2, <1>3, <1>4

\* Every step keeps the types.
LEMMA TransferNext_Typed ==
    ASSUME TransferInv, TransferNext
    PROVE  TransferTypeOK'
<1>1. Sound /\ TransferTypeOK
  BY DEF TransferInv
<1>2. store \in Word /\ Mirror(store) \in Word
  BY <1>1, ArmCoreAssumption, MirrorFields DEF Sound
<1>3. ASSUME NEW ins \in Word, Transfer(ins)
      PROVE  regs' \in RegisterFile /\ mem' \in MemoryContent
  <2>1. PICK junk \in JunkLocals :
            regs' = Execute(regs, mem, ins, junk).regs /\ mem' = Execute(regs, mem, ins, junk).mem
    BY <1>3 DEF Transfer
  <2>2. OutcomeStays(regs, Execute(regs, mem, ins, junk))
    BY <1>1, <1>3, ExecuteStays DEF TransferTypeOK
  <2> QED BY <2>1, <2>2 DEF OutcomeStays, StaysIn
<1>4. CASE RunStore
  <2>1. Transfer(store) /\ stage' \in {"overwrite", "done"}
    BY <1>4 DEF RunStore
  <2> QED BY <1>2, <1>3, <2>1 DEF TransferTypeOK
<1>5. CASE Overwrite
  <2>1. PICK values \in [0..15 -> Junk] :
            regs' = write_registers(regs, (0..15) \ Addressing(store), values)
    BY <1>5 DEF Overwrite
  <2>2. \A i \in (0..15) \ Addressing(store) : values[i] \in Word
    BY ArmCoreAssumption
  <2>3. regs' \in RegisterFile
    BY <1>1, <2>1, <2>2, WriteRegistersStays DEF StaysIn, TransferTypeOK
  <2> QED BY <1>1, <1>5, <2>3 DEF Overwrite, TransferTypeOK
<1>6. CASE RunLoad
  <2>1. Transfer(Mirror(store)) /\ stage' = "loaded"
    BY <1>6 DEF RunLoad
  <2> QED BY <1>2, <1>3, <2>1 DEF TransferTypeOK
<1> QED BY <1>4, <1>5, <1>6 DEF TransferNext

LEMMA TransferNext_Inv == TransferInv /\ [TransferNext]_transferVars => TransferInv'
<1> SUFFICES ASSUME TransferInv, [TransferNext]_transferVars PROVE TransferInv'
  OBVIOUS
<1>0. /\ Sound /\ TransferTypeOK /\ get_mode(before.regs) \in NamedModes
      /\ before.mem \in MemoryContent
  BY DEF TransferInv
<1>1. CASE RunStore
  <2>1. store' = store /\ before' = before /\ stage = "store"
    BY <1>1 DEF RunStore
  <2>2. /\ Sound' = Sound /\ Inside' = Inside /\ Stored' = Stored
    BY <2>1, StoreStays
  <2>3. regs = before.regs /\ mem = before.mem
    BY <2>1 DEF TransferInv
  <2>4. /\ regs' = StoreOutcome(regs, mem, store).regs /\ mem' = Stored.mem /\ result' = Stored.result
    BY <1>0, <1>1, <2>3, StepsExecute DEF Stored
  <2>5. regs' = before.regs
    BY <2>3, <2>4 DEF StoreOutcome, STM, Store, Outcome
  <2>6. result' = 0 <=> Inside
    BY <1>0, <2>4, StoreSucceeds DEF Stored
  <2>7. stage' = IF result' = 0 THEN "overwrite" ELSE "done"
    BY <1>1 DEF RunStore
  <2>8. TransferTypeOK'
    BY <1>1, TransferNext_Typed DEF TransferNext
  <2> QED BY <1>0, <2>1, <2>2, <2>4, <2>5, <2>6, <2>7, <2>8 DEF TransferInv
<1>2. CASE Overwrite
  <2>1. /\ store' = store /\ before' = before /\ mem' = mem
        /\ stage = "overwrite" /\ stage' = "load"
    BY <1>2 DEF Overwrite
  <2>2. Sound' = Sound /\ Inside' = Inside /\ Stored' = Stored
    BY <2>1, StoreStays
  <2>3. AgreeOnAddress(regs, before.regs)' <=> AgreeOnAddress(regs', before.regs)
    BY <2>1 DEF AgreeOnAddress
  <2>4. PICK values \in [0..15 -> Junk] :
            regs' = write_registers(regs, (0..15) \ Addressing(store), values)
    BY <1>2 DEF Overwrite
  <2>5. \A i \in 0..15 : values[i] \in Word
    BY ArmCoreAssumption
  <2>6. regs = before.regs /\ Inside /\ mem = Stored.mem
    BY <2>1 DEF TransferInv
  <2>7. get_mode(regs') = get_mode(regs) /\ AgreeOnAddress(regs', regs)
    BY <1>0, <2>4, <2>5, <2>6, OverwriteKeepsAddress DEF TransferTypeOK
  <2>8. TransferTypeOK'
    BY <1>2, TransferNext_Typed DEF TransferNext
  <2> QED BY <1>0, <2>1, <2>2, <2>3, <2>6, <2>7, <2>8 DEF TransferInv
<1>3. CASE RunLoad
  <2>1. store' = store /\ before' = before /\ stage = "load" /\ stage' = "loaded"
    BY <1>3 DEF RunLoad
  <2>2. /\ Sound' = Sound /\ Inside' = Inside /\ Stored' = Stored
        /\ \A reg : At(reg)' = At(reg)
    BY <2>1, StoreStays
  <2>3. /\ get_mode(regs) \in NamedModes /\ AgreeOnAddress(regs, before.regs)
        /\ Inside /\ mem = Stored.mem
    BY <2>1 DEF TransferInv
  <2>4. AddressOf(regs, store) = Begin
    BY <2>3, SameAddress DEF Begin
  <2>5. PICK junk \in JunkLocals :
            /\ regs' = LoadOutcome(regs, mem, store, junk).regs
            /\ mem' = LoadOutcome(regs, mem, store, junk).mem
            /\ result' = LoadOutcome(regs, mem, store, junk).result
    BY <1>0, <1>3, StepsExecute
  <2>6. /\ result' = 0 /\ mem' = mem
        /\ \A reg \in Operands(store) :
                arm_read_register(regs', reg) = memory_read(mem, At(reg), Width(store))
    BY <1>0, <2>3, <2>4, <2>5, LoadReads DEF TransferTypeOK
  <2>7. TransferTypeOK'
    BY <1>3, TransferNext_Typed DEF TransferNext
  <2> QED BY <1>0, <2>1, <2>2, <2>3, <2>6, <2>7 DEF TransferInv
<1>4. CASE UNCHANGED transferVars
  <2>1. /\ store' = store /\ before' = before /\ regs' = regs /\ mem' = mem
        /\ result' = result /\ stage' = stage
    BY <1>4 DEF transferVars
  <2>2. /\ Sound' = Sound /\ Inside' = Inside /\ Stored' = Stored
        /\ \A reg : At(reg)' = At(reg)
        /\ AgreeOnAddress(regs, before.regs)' = AgreeOnAddress(regs, before.regs)
    BY <2>1, StoreStays DEF AgreeOnAddress
  <2> QED BY <2>1, <2>2 DEF TransferInv, TransferTypeOK
<1> QED BY <1>1, <1>2, <1>3, <1>4 DEF TransferNext

---------------------------------------------------------------------------
(* The theorems.                                                           *)

\* Whatever the transfers do, the registers stay registers and the memory a
\* memory, for every program of stores (arm_load_store.c, memory.c).
THEOREM TransfersTyped == TransferSpec => []TransferTypeOK
<1>1. TransferInv => TransferTypeOK
  BY DEF TransferInv
<1> QED BY <1>1, TransferInit_Inv, TransferNext_Inv, PTL DEF TransferSpec

\* The load that mirrors a store of the three forms brings back what was stored,
\* from every address the store could reach, in both byte orders.
THEOREM LoadsReadBack == TransferSpec => []LoadReadsWhatStoreWrote
<1>1. ASSUME TransferInv PROVE LoadReadsWhatStoreWrote
  <2> SUFFICES ASSUME stage = "loaded"
               PROVE  /\ result = 0
                      /\ \A reg \in Operands(store) :
                            arm_read_register(regs, reg)
                                = IF IsHalf(store) THEN Given(reg) \cap (0..15) ELSE Given(reg)
    BY DEF LoadReadsWhatStoreWrote
  <2>1. /\ Sound /\ Inside /\ mem = StoreOutcome(before.regs, before.mem, store).mem /\ result = 0
        /\ \A reg \in Operands(store) :
                arm_read_register(regs, reg) = memory_read(mem, At(reg), Width(store))
    BY <1>1 DEF TransferInv, Stored
  <2>2. \A reg \in Operands(store) :
            memory_read(mem, At(reg), Width(store))
                = IF IsHalf(store) THEN Given(reg) \cap (0..15) ELSE Given(reg)
    BY <2>1, StoredIsThere
  <2> QED BY <2>1, <2>2
<1> QED BY <1>1, TransferInit_Inv, TransferNext_Inv, PTL DEF TransferSpec

\* A store changes bytes of its own range only, and succeeds exactly when the
\* range lies in the memory.
THEOREM StoresKeepToRange == TransferSpec => []StoreStaysInRange
<1>1. ASSUME TransferInv PROVE StoreStaysInRange
  <2> SUFFICES ASSUME stage # "store"
               PROVE  /\ \A a \in MemAddress :
                            mem[a] # before.mem[a] => Unsigned(a) \in First..(First + Size - 1)
                      /\ First >= 0 /\ First + Size <= MemSize <=> stage # "done"
    BY DEF StoreStaysInRange
  <2>1. /\ Sound /\ before.mem \in MemoryContent
        /\ mem = StoreOutcome(before.regs, before.mem, store).mem
        /\ stage \in {"overwrite", "load", "loaded", "done"}
        /\ stage = "done" => ~Inside
        /\ stage \in {"overwrite", "load", "loaded"} => Inside
    BY <1>1 DEF TransferInv, Stored, TransferTypeOK
  <2>2. \A a \in MemAddress :
            mem[a] # before.mem[a] => Unsigned(a) \in First..(First + Size - 1)
    BY <2>1, StoreKeepsToRange
  <2>3. Inside <=> stage # "done"
    BY <2>1
  <2> QED BY <2>2, <2>3 DEF Inside
<1> QED BY <1>1, TransferInit_Inv, TransferNext_Inv, PTL DEF TransferSpec

\* A single store that fails stores nothing; a multiple one that returns a
\* failure has stored all its registers but the last.
THEOREM FailedStoresKeepWords == TransferSpec => []FailedStoreKeepsWords
<1>1. ASSUME TransferInv PROVE FailedStoreKeepsWords
  <2> SUFFICES ASSUME stage = "done", result = FAULT
               PROVE  IF IsMultiple(store)
                      THEN \A reg \in Operands(store) :
                            (\E later \in Operands(store) : later > reg) =>
                                \E a \in MemAddress :
                                    /\ Unsigned(a) = First + 4 * Rank(reg)
                                    /\ memory_read(mem, a, 4) = Given(reg)
                      ELSE mem = before.mem
    BY DEF FailedStoreKeepsWords
  <2>1. /\ Sound
        /\ mem = StoreOutcome(before.regs, before.mem, store).mem
        /\ StoreOutcome(before.regs, before.mem, store).result = FAULT
    BY <1>1 DEF TransferInv, Stored
  <2>2. ASSUME IsMultiple(store), NEW reg \in Operands(store),
               NEW later \in Operands(store), later > reg
        PROVE  \E a \in MemAddress :
                    /\ Unsigned(a) = First + 4 * Rank(reg)
                    /\ memory_read(mem, a, 4) = Given(reg)
    <3>1. Operands(store) = RegisterList(store) /\ RegisterList(store) \in SUBSET (0..15)
      BY <2>1, <2>2, OperandsOfStore
    <3>2. MultipleResult(Begin, RegisterList(store)) = FAULT
      BY <2>1, <2>2 DEF StoreOutcome, STM, Outcome, Begin
    <3>3. reg \in Transferred(Begin, RegisterList(store))
      BY <2>2, <3>1, <3>2, ListResult
    <3>4. /\ At(reg) \in MemAddress
          /\ Unsigned(At(reg)) = First + 4 * Rank(reg)
          /\ memory_read(mem, At(reg), 4) = Given(reg)
      BY <2>1, <2>2, <3>3, ListWordStored
    <3> QED BY <3>4
  <2>3. ASSUME ~IsMultiple(store) PROVE mem = before.mem
    BY <2>1, <2>3, FailedStoresNothing
  <2> QED BY <2>2, <2>3
<1> QED BY <1>1, TransferInit_Inv, TransferNext_Inv, PTL DEF TransferSpec

=============================================================================
