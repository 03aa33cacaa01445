---------------------------- MODULE WordNumbers ----------------------------
(***************************************************************************)
(* The numbers words stand for: the reference the operations on words are  *)
(* checked against.                                                        *)
(***************************************************************************)
EXTENDS Words

\* A word has a sign and a value.
ASSUME WidthAssumption == WordBits > 1

\* 2^n
Weight[n \in 0..WordBits] == IF n = 0 THEN 1 ELSE 2 * Weight[n - 1]

\* What the lowest bits of a word stand for, by their number.
LowBits(x) ==
    LET Sum[n \in 0..WordBits] ==
            IF n = 0 THEN 0 ELSE Sum[n - 1] + BitValue(x, n - 1, Weight[n - 1])
    IN  Sum

Modulus == Weight[WordBits]
Unsigned(x) == LowBits(x)[WordBits]

\* The smallest and the largest number of two's complement.
Lowest == -Weight[SignBit - 1] - Weight[SignBit - 1]
Highest == -(Lowest + 1)

Signed(x) == LowBits(x)[SignBit] + (IF SignBit \in x THEN Lowest ELSE 0)

\* The number that stands for the sum or the difference n of two of them.
Wrapped(n) ==
    IF n > Highest THEN n - Modulus ELSE IF n < Lowest THEN n + Modulus ELSE n

=============================================================================
