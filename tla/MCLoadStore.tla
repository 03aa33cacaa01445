----------------------------- MODULE MCLoadStore -----------------------------
(***************************************************************************)
(* A small instance of Transfers for TLC: every addressing mode, alignment *)
(* and list of a small set, around both ends of the memory.                *)
(***************************************************************************)
EXTENDS Transfers, Encodings

Base == 12          \* the base register; r11 is the index of the halfwords
Index == 11

Lists == {{0}, {1, 3}, {0, 2, 14}, {1, 2, 3, 14}}
MultipleStores ==
    {Multiple(FALSE, Base, p, u, list) : p \in BOOLEAN, u \in BOOLEAN, list \in Lists}
WordStores == {WordTransfer(FALSE, FALSE, 1, Base, i) : i \in {0, 1, 4}}
HalfStores == {HalfTransfer(FALSE, 1, Base, Index)}
MCStores == MultipleStores \cup WordStores \cup HalfStores

\* Distinct values with different bytes in the registers that are stored.
Value(slot) == Word32(16 + slot, 64 + slot, 128 + slot, 192 + slot)
Plain(mode) == [slot \in Slots |-> IF slot = CPSR THEN mode ELSE Value(slot)]

Bases == {FromNat(n) : n \in 0..40} \cup {Sub({}, FromNat(n)) : n \in 1..6}
MCBaseFiles ==
    {write_register(write_register(Plain(mode), Base, base), Index, {1}) :
        mode \in {USR, FIQ}, base \in Bases}

MCContents == {[a \in MemAddress |-> a \cap (0..7)]}
MCFill == {{}}

=============================================================================
