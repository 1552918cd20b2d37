--------------------------- MODULE MCColdArchive ---------------------------
(* Small instances of ColdArchive for TLC.                                 *)
EXTENDS ColdArchive, TLC

Rule(n, days, buckets) == [keepLast |-> n, maxAge |-> days, gfs |-> buckets]

MCPolicy == {Rule(0, 1, 0), Rule(2, 0, 1)}

Symmetry == Permutations(Archiver) \cup Permutations(Sweeper)
=============================================================================
