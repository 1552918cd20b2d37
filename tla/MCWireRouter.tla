--------------------------- MODULE MCWireRouter ---------------------------
(* Small instances of WireRouter for TLC.                                  *)
EXTENDS WireRouter, TLC

\* Connections and databases are interchangeable.
Symmetry == Permutations(Conn) \cup Permutations(Db)
=============================================================================
