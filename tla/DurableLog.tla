----------------------------- MODULE DurableLog -----------------------------
(***************************************************************************)
(* What a ZeroPG bucket promises, whoever writes to it: the rows that the  *)
(* current manifest holds only grow, they are rows somebody wrote, and a   *)
(* row is acknowledged only once it is among them.  A commit may take      *)
(* effect without being acknowledged (its process dies, or the reply is    *)
(* lost); it may never be acknowledged and not take effect, and no writer, *)
(* fenced or not, takes a row away.                                        *)
(***************************************************************************)
CONSTANT Row

VARIABLES
    issued,    \* the rows clients have written to some writer
    contents,  \* the rows of the database in the bucket
    acked      \* the rows whose commit has returned

logVars == <<issued, contents, acked>>

Init == issued = {} /\ contents = {} /\ acked = {}

Issue(r) ==
    /\ r \notin issued
    /\ issued' = issued \cup {r}
    /\ UNCHANGED <<contents, acked>>

Commit(S, A) ==
    /\ contents' = contents \cup S
    /\ acked' = acked \cup A
    /\ acked' \subseteq contents'
    /\ UNCHANGED issued

Next ==
    \/ \E r \in Row : Issue(r)
    \/ \E S, A \in SUBSET issued : Commit(S, A)

Spec == Init /\ [][Next]_logVars
=============================================================================
