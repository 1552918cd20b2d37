------------------------------ MODULE MCLease ------------------------------
(* Small instances of Lease for TLC.                                       *)
EXTENDS Lease, TLC

\* The writers are interchangeable; so are the concurrent calls of one.
Symmetry == Permutations(Writer) \cup Permutations(Call)
=============================================================================
