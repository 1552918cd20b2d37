-------------------------- MODULE MCBucketReaders --------------------------
(* Small instances of BucketReaders for TLC.                               *)
EXTENDS BucketReaders, TLC

\* Writers are interchangeable, and so are those who refresh.
Symmetry == Permutations(Writer) \cup Permutations(Refresher)
=============================================================================
