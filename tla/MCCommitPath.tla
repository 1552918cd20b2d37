--------------------------- MODULE MCCommitPath ---------------------------
(* Small instances of CommitPath for TLC.                                  *)
EXTENDS CommitPath, TLC

\* Requests that write are interchangeable, and so are those that do not.
Symmetry == Permutations(Req \ Idle) \cup Permutations(Idle)
=============================================================================
