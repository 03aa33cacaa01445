----------------------------- MODULE MCScanner -----------------------------
(***************************************************************************)
(* Small instances of Scanner for TLC: every stream of up to four bytes,  *)
(* and packets with what can stand before, inside and after them.          *)
(***************************************************************************)
EXTENDS Scanner

Z == 122        \* a byte that no rule but "." knows
D == 53         \* a hexadecimal digit

Letters == {0, NL, HASH, DOLLAR, PLUS, MINUS, Z, D}
Bodies == {<<>>, <<0>>, <<Z>>, <<0, PLUS>>, <<D, 0>>, <<NL, MINUS, 0>>}
Ends == {<<HASH, D, D>>, <<HASH, D>>, <<HASH, D, 0>>, <<HASH, HASH, D>>}

MCStreams ==
    UNION {[1..n -> Letters] : n \in 0..4}
    \cup {before \o <<DOLLAR>> \o body \o end \o after :
            before \in {<<>>, <<0>>, <<DOLLAR, Z>>},
            body \in Bodies, end \in Ends,
            after \in {<<>>, <<PLUS>>, <<DOLLAR, HASH, D, D>>}}

=============================================================================
