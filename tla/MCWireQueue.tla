--------------------------- MODULE MCWireQueue ---------------------------
(* Small instances of WireQueue for TLC.                                  *)
EXTENDS WireQueue, TLC

\* Connections are interchangeable.
Symmetry == Permutations(Handler)
=============================================================================
