------------------------------- MODULE Words -------------------------------
(***************************************************************************)
(* Machine words and the bit operations of util.h and util.c.              *)
(*                                                                         *)
(* A word is the set of its bits that are 1: bit i of x is "i \in x", the  *)
(* bitwise and, or and not of C are \cap, \cup and complement, and a word  *)
(* never leaves its width.  The code's words have 32 bits; the arithmetic  *)
(* is written for any width so that it can be checked exhaustively on      *)
(* narrow words.                                                           *)
(***************************************************************************)
EXTENDS Integers

CONSTANT WordBits       \* width of a word: 32 in the code (uint32_t)

ASSUME WordBitsAssumption == WordBits \in Nat \ {0}

Bits == 0..(WordBits - 1)
Word == SUBSET Bits
SignBit == WordBits - 1

Complement(x) == Bits \ x                           \* ~x

---------------------------------------------------------------------------
(* The macros of util.h.                                                   *)

get_bit(x, i) == i \in x
set_bit(x, i) == x \cup {i}
clr_bit(x, i) == x \ {i}

get_bits(x, h, l) == {b - l : b \in x \cap (l..h)}

\* As in the macro, the new bits are not masked to the field: what does not
\* fit in h..l is or-ed into the bits above it.
set_bits(x, h, l, bits) ==
    {b \in x : b < l \/ b > h} \cup ({b + l : b \in bits} \cap Bits)

---------------------------------------------------------------------------
(* Shifts by n \in 0..WordBits-1, the counts the shift instructions of the *)
(* host see: it takes them modulo the width of the word.                   *)

lsl(x, n) == {b + n : b \in x} \cap Bits            \* x << n
lsr(x, n) == {b - n : b \in {c \in x : c >= n}}     \* x >> n, x unsigned

\* Copies of the sign bit in the n leftmost bits.
SignFill(x, n) == IF SignBit \in x THEN (WordBits - n)..SignBit ELSE {}

sar(x, n) == lsr(x, n) \cup SignFill(x, n)          \* x >> n, x signed

\* asr ors ~0 << (WordBits - n) into a negative word; for n = 0 the host
\* shifts ~0 by 0 and every bit is set.
asr(value, n) ==
    IF n = 0 THEN (IF SignBit \in value THEN Bits ELSE value)
             ELSE sar(value, n)

ror(value, n) == {(b - n) % WordBits : b \in value}

---------------------------------------------------------------------------
(* Addition and subtraction modulo 2^WordBits.                             *)

\* The positions a carry of x + y + c enters (c is the carry into bit 0): a
\* carry is born where both bits are 1 and travels over bits that differ.
Carries(x, y, c) ==
    LET differ == (x \ y) \cup (y \ x)
    IN  {i \in 0..WordBits :
            \/ \E g \in x \cap y : g < i /\ ((g + 1)..(i - 1)) \subseteq differ
            \/ c /\ (0..(i - 1)) \subseteq differ}

\* Mutant: the carry out of the word is kept.
AddCarryKept(x, y, c) ==
    LET carries == Carries(x, y, c)
    IN  {i \in 0..WordBits : ((i \in x) # (i \in y)) # (i \in carries)}

AddCarry(x, y, c) ==
    LET carries == Carries(x, y, c)
    IN  {i \in Bits : ((i \in x) # (i \in y)) # (i \in carries)}

Add(x, y) == AddCarry(x, y, FALSE)

\* The positions a borrow of x - y enters: born where 0 - 1, it travels over
\* bits that are equal and over every later 0 - 1.
Borrows(x, y) ==
    {i \in 0..WordBits :
        \E g \in y \ x : g < i /\ ((g + 1)..(i - 1)) \cap (x \ y) = {}}

\* Mutant: the borrow out of the word is kept.
SubBorrowKept(x, y) ==
    {i \in 0..WordBits : ((i \in x) # (i \in y)) # (i \in Borrows(x, y))}

Sub(x, y) ==
    LET borrows == Borrows(x, y)
    IN  {i \in Bits : ((i \in x) # (i \in y)) # (i \in borrows)}

---------------------------------------------------------------------------
(* Small words as numbers: register numbers, shift counts, byte values.    *)

BitValue(x, i, weight) == IF i \in x THEN weight ELSE 0

\* The number a word of at most 8 bits stands for.
ToNat(x) == BitValue(x, 0, 1) + BitValue(x, 1, 2) + BitValue(x, 2, 4)
          + BitValue(x, 3, 8) + BitValue(x, 4, 16) + BitValue(x, 5, 32)
          + BitValue(x, 6, 64) + BitValue(x, 7, 128)

\* The word of a number of at most 11 bits (the size of a debugger's packet).
FromNat(n) == {i \in (0..10) \cap Bits : (n \div 2^i) % 2 = 1}

=============================================================================
