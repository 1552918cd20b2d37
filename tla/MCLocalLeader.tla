--------------------------- MODULE MCLocalLeader ---------------------------
(* Three calls in two processes: the first two share one.                  *)
EXTENDS LocalLeader, TLC

CONSTANTS a, b, c, p, q

MCHome == (a :> p) @@ (b :> p) @@ (c :> q)
=============================================================================
