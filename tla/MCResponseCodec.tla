----------------------------- MODULE MCResponseCodec ----------------------------
(* Small instances of ResponseCodec for TLC: a byte has four values, one letter *)
(* looks like an extension byte that goes on, and grams share slots.            *)
EXTENDS ResponseCodec

TwoLetters  == {1, 3}
FirstThree  == [g \in [1..4 -> TwoLetters] |-> <<g[1], g[2], g[3]>>]
ShortOrNot  == {6, 64}
GoesOrStays == {0, 1, 64}
================================================================================
