--------------------------- MODULE MCEmailOutbox ---------------------------
(* Values of EmailOutbox's constants for TLC.                              *)
EXTENDS EmailOutbox, TLC

CONSTANTS m1, m2, c1, c2

\* Two messages of different conversations, that one batch can hold.
TwoConvs == (m1 :> c1) @@ (m2 :> c2)

Symmetry == Permutations(Workers) \union Permutations(Batches)
=============================================================================
