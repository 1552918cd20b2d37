----------------------------- MODULE MCZeroPG -----------------------------
(* Small instances of ZeroPG for TLC.                                      *)
EXTENDS ZeroPG, TLC

\* Writers are interchangeable, and rows of a kind are.
Symmetry == Permutations(Writer) \cup Permutations(Row \ Idle) \cup Permutations(Idle)
=============================================================================
