------------------------------- MODULE MCLog -------------------------------
(* Log with small sets; the contents of a block are interchangeable.       *)
EXTENDS Log, TLC

Symmetry == Permutations(Vals)
=============================================================================
