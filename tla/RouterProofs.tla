---------------------------- MODULE RouterProofs ----------------------------
(***************************************************************************)
(* Theorems about the warm set of the wire router, for any number of       *)
(* connections and of databases: what an eviction may lose, and, as long   *)
(* as nobody opens a database that another connection has opened while he  *)
(* waited for room (OpensCold), that a database has one writer, that the   *)
(* writers fit into the warm set and that the flush timer finds them all.  *)
(* A warm set of one database needs no such proviso.                       *)
(***************************************************************************)
EXTENDS WireRouter, FiniteSetTheorems, TLAPS

(* acquire() does not look at the maps again once makeRoom() has made room.*)
(* The proviso: had it looked, it had found nothing.                       *)
OpensCold ==
    \A c \in Conn : inst[c] = "none" /\ inst'[c] = "opening" =>
        warm[want[c]] = None /\ opening[want[c]] = None

(* What is resident is live, under its own name.                           *)
WarmIsLive ==
    \A d \in Db : warm[d] # None => want[warm[d]] = d /\ inst[warm[d]] = "live"

(* Where a connection stands that may yet open an instance.                *)
Early == {"new", "lookup", "room", "freed", "refused", "again"}

(* A connection that has still to open an instance has none.               *)
OpensOnce ==
    \A c \in Conn :
        pc[c] \in Early => inst[c] = "none"

(* makeRoom() evicts what was resident when it began, and no more may be.  *)
CandidatesOpened ==
    \A c \in Conn : \A v \in cands[c] : inst[v] \in {"live", "closing", "closed"}

(* An eviction under way is the one the map names, and it goes through its *)
(* phases while the instance is live.  A second one of a closed instance   *)
(* does not get beyond the flush.                                          *)
EvictionsNamed ==
    \A i \in Conn :
        /\ phase[i] \in {"drain", "flush"} => inst[i] \in {"live", "closed"}
        /\ phase[i] = "commit" => inst[i] = "live"
        /\ phase[i] = "close" => inst[i] \in {"closing", "closed"}
        /\ inst[i] = "closing" => phase[i] = "close"
        /\ phase[i] \in {"drain", "flush", "commit"} \/ inst[i] = "closing" => evictions[DbOf(i)] = i

(* After the drain no message is in the engine.  The commit an eviction    *)
(* waits for has what was written before the eviction, unless it had begun *)
(* before (joined).                                                        *)
FlushCoversWrites ==
    \A i \in Conn :
        /\ phase[i] \in {"flush", "commit"} => ~busy[i]
        /\ phase[i] = "commit" => commit[i] # "none" /\ (dirty[i] => joined[i])
        /\ inst[i] \in {"closing", "closed"} =>
              ~busy[i] /\ commit[i] = "none" /\ (dirty[i] => joined[i])

RouterInv ==
    TypeOK /\ WarmIsLive /\ OpensOnce /\ CandidatesOpened /\ EvictionsNamed /\ FlushCoversWrites

(* The maps name every writer, and an instance is opened only when nothing *)
(* is resident.                                                            *)
WritersNamed ==
    /\ \A i \in Conn :
          /\ inst[i] = "live" => warm[want[i]] = i
          /\ inst[i] = "opening" => opening[want[i]] = i /\ warm[want[i]] = None
    /\ \A d \in Db : opening[d] # None => want[opening[d]] = d /\ inst[opening[d]] = "opening"

Fits == Cardinality(Resident) + Cardinality(Opening) <= MaxWarm

----------------------------------------------------------------------------
(* What acquire() and makeRoom() do to the maps: open an instance, begin   *)
(* an eviction, or nothing.                                                *)
EvictionBegins(v) ==
    /\ evictions[DbOf(v)] = None
    /\ inst[v] \in {"live", "closing", "closed"}
    /\ evictions' = [evictions EXCEPT ![DbOf(v)] = v]
    /\ phase' = [phase EXCEPT ![v] = "drain"]
    /\ UNCHANGED <<warm, opening, inst>>

MapsKept == UNCHANGED <<warm, opening, evictions, inst, phase>>

(* Nobody who is past opening may open again, and candidates are what was  *)
(* a candidate or is resident.                                             *)
PathsKept ==
    /\ \A c \in Conn : pc'[c] \in Early => pc[c] \in Early
    /\ \A c \in Conn : \A v \in cands'[c] : v \in cands[c] \/ inst[v] = "live"

PathTypes ==
    /\ pc \in [Conn -> Early \cup {"opening", "join", "acquired", "attached", "failed", "gone"}]
    /\ on \in [Conn -> Conn \cup {None}]
    /\ cands \in [Conn -> SUBSET Conn]
    /\ awaits \in [Conn -> SUBSET Conn]

LEMMA EvictDoes ==
    ASSUME TypeOK, NEW v \in Conn, inst[v] \in {"live", "closing", "closed"},
           NEW then \in [Conn -> Early \cup {"opening", "join", "acquired", "attached", "failed", "gone"}],
           \A c \in Conn : then[c] \in Early => pc[c] \in Early,
           Evict(v, then), UNCHANGED <<warm, opening, inst>>
    PROVE  /\ EvictionBegins(v) \/ MapsKept
           /\ pc' \in [Conn -> Early \cup {"opening", "join", "acquired", "attached", "failed", "gone"}]
           /\ on' \in [Conn -> Conn \cup {None}]
           /\ \A c \in Conn : pc'[c] \in Early => pc[c] \in Early
  BY DEF TypeOK, Evict, EvictionBegins, MapsKept, Early

LEMMA TryNextDoes ==
    ASSUME TypeOK, WarmIsLive, NEW c \in Conn, pc[c] \in Early, NEW left \in SUBSET Conn,
           \A v \in left : inst[v] \in {"live", "closing", "closed"},
           \A v \in left : v \in cands[c] \/ inst[v] = "live",
           TryNext(c, left)
    PROVE  /\ MapsKept \/ \E v \in Conn : EvictionBegins(v)
           /\ PathTypes' /\ PathsKept
<1>1. ASSUME NEW v \in left, Evict(v, [pc EXCEPT ![c] = "room"]),
             cands' = [cands EXCEPT ![c] = left \ {v}],
             awaits' = [awaits EXCEPT ![c] = {RunOf(v)}],
             UNCHANGED <<warm, opening, inst>>
      PROVE  /\ MapsKept \/ \E u \in Conn : EvictionBegins(u)
             /\ PathTypes' /\ PathsKept
  <2> DEFINE then == [pc EXCEPT ![c] = "room"]
  <2>1. /\ then \in [Conn -> Early \cup {"opening", "join", "acquired", "attached", "failed", "gone"}]
        /\ \A d \in Conn : then[d] \in Early => pc[d] \in Early
    BY DEF TypeOK, Early
  <2>2. /\ EvictionBegins(v) \/ MapsKept
        /\ pc' \in [Conn -> Early \cup {"opening", "join", "acquired", "attached", "failed", "gone"}]
        /\ on' \in [Conn -> Conn \cup {None}]
        /\ \A d \in Conn : pc'[d] \in Early => pc[d] \in Early
    <3> HIDE DEF then
    <3> QED
      BY <1>1, <2>1, EvictDoes DEF then
  <2>3. RunOf(v) \in Conn
    BY DEF RunOf, TypeOK, DbOf
  <2> QED
    BY <1>1, <2>2, <2>3 DEF PathTypes, PathsKept, TypeOK
<1>2. CASE FailsAs(c) /\ UNCHANGED <<maps, on, cands, awaits, inst, phase>>
  BY <1>2 DEF FailsAs, MapsKept, maps, PathTypes, PathsKept, TypeOK, Early
<1> QED
  BY <1>1, <1>2 DEF TryNext

LEMMA AdmitDoes ==
    ASSUME TypeOK, WarmIsLive, NEW c \in Conn, pc[c] \in Early, Admit(c)
    PROVE  /\ MapsKept \/ (\E v \in Conn : EvictionBegins(v)) \/ (StartOpen(c) /\ ~Full)
           /\ PathTypes' /\ PathsKept
<1>1. CASE Full
  <2> DEFINE left == {warm[d] : d \in {e \in Resident : ~Evicting(warm[e])}}
  <2>1. left \in SUBSET Conn /\ \A v \in left : inst[v] = "live"
    BY DEF Resident, TypeOK, WarmIsLive
  <2>2. CASE TryNext(c, left)
    <3> HIDE DEF left
    <3> QED
      BY <2>1, <2>2, TryNextDoes
  <2>3. CASE /\ awaits' = [awaits EXCEPT ![c] = Runs]
             /\ pc' = [pc EXCEPT ![c] = "again"]
             /\ UNCHANGED <<maps, on, cands, inst, phase>>
    BY <2>3 DEF MapsKept, maps, PathTypes, PathsKept, TypeOK, Early, Runs
  <2> QED
    BY <1>1, <2>2, <2>3 DEF Admit, MakeRoom
<1>2. CASE ~Full
  BY <1>2 DEF Admit, StartOpen, PathTypes, PathsKept, TypeOK, Early
<1> QED
  BY <1>1, <1>2

LEMMA AcquireDoes ==
    ASSUME TypeOK, WarmIsLive, NEW c \in Conn, pc[c] \in Early, NEW found \in {"attached", "acquired"},
           Acquire(c, found), warm[want[c]] = None \/ ~Evicting(warm[want[c]]) \/ evictions[want[c]] # None
    PROVE  /\ MapsKept \/ (\E v \in Conn : EvictionBegins(v)) \/ (StartOpen(c) /\ ~Full)
           /\ PathTypes' /\ PathsKept
<1>1. CASE Admit(c)
  BY <1>1, AdmitDoes
<1>2. CASE ~Admit(c)
  BY <1>2 DEF Acquire, MapsKept, maps, PathTypes, PathsKept, TypeOK, Early
<1> QED
  BY <1>1, <1>2

(* route(), and acquire() when what it awaited has settled.                *)
LEMMA CallerDoes ==
    ASSUME RouterInv, NEW c \in Conn, Route(c) \/ Continue(c) \/ LookAgain(c)
    PROVE  /\ MapsKept \/ (\E v \in Conn : EvictionBegins(v)) \/ (StartOpen(c) /\ ~Full)
           /\ pc[c] \in Early
           /\ PathTypes' /\ PathsKept
           /\ UNCHANGED <<want, busy, dirty, commit, joined>>
<1>1. pc[c] \in Early
  BY DEF Route, Continue, LookAgain, Early
<1>2. UNCHANGED <<want, busy, dirty, commit, joined>>
  BY DEF Route, Continue, LookAgain, Rest, data
<1>3. warm[want[c]] = None \/ ~Evicting(warm[want[c]]) \/ evictions[want[c]] # None
  BY WireRouterAssumption DEF RouterInv, TypeOK, WarmIsLive, EvictionsNamed, Evicting, DbOf
<1>4. cands[c] \in SUBSET Conn /\ \A v \in cands[c] : inst[v] \in {"live", "closing", "closed"}
  BY DEF RouterInv, TypeOK, CandidatesOpened
<1>5. CASE Acquire(c, "attached") \/ Acquire(c, "acquired")
  BY <1>1, <1>2, <1>3, <1>5, AcquireDoes DEF RouterInv
<1>6. CASE Admit(c)
  BY <1>1, <1>2, <1>6, AdmitDoes DEF RouterInv
<1>7. CASE TryNext(c, cands[c])
  BY <1>1, <1>2, <1>4, <1>7, TryNextDoes DEF RouterInv
<1> QED
  BY <1>5, <1>6, <1>7 DEF Route, Continue, LookAgain

----------------------------------------------------------------------------
(* The steps of the inductive invariant.  What the callers do touches the  *)
(* maps, the phases and the instances in the three ways above only.        *)
LEMMA CallerStep ==
    ASSUME RouterInv, NEW c \in Conn, Route(c) \/ Continue(c) \/ LookAgain(c)
    PROVE  RouterInv'
<1> USE DEF RouterInv
<1>1. /\ MapsKept \/ (\E v \in Conn : EvictionBegins(v)) \/ (StartOpen(c) /\ ~Full)
      /\ pc[c] \in Early
      /\ PathTypes' /\ PathsKept
      /\ UNCHANGED <<want, busy, dirty, commit, joined>>
  BY CallerDoes
<1>2. CASE MapsKept
  BY <1>1, <1>2 DEF MapsKept, TypeOK, PathTypes, PathsKept, WarmIsLive, OpensOnce, CandidatesOpened, EvictionsNamed,
     FlushCoversWrites, Early, DbOf
<1>3. ASSUME NEW v \in Conn, EvictionBegins(v)
      PROVE  RouterInv'
  <2>1. TypeOK' /\ WarmIsLive' /\ OpensOnce' /\ CandidatesOpened'
    BY <1>1, <1>3 DEF EvictionBegins, TypeOK, PathTypes, PathsKept, WarmIsLive, OpensOnce, CandidatesOpened, Early, DbOf
  <2>2. \A i \in Conn : /\ phase'[i] = (IF i = v THEN "drain" ELSE phase[i])
                        /\ evictions'[DbOf(i)] = (IF DbOf(i) = DbOf(v) THEN v ELSE evictions[DbOf(i)])
    BY <1>3 DEF EvictionBegins, TypeOK, DbOf
  <2>3. EvictionsNamed'
    BY <1>1, <1>3, <2>2, WireRouterAssumption DEF EvictionBegins, EvictionsNamed, DbOf
  <2>4. FlushCoversWrites'
    BY <1>1, <1>3, <2>2 DEF EvictionBegins, FlushCoversWrites
  <2> QED
    BY <2>1, <2>3, <2>4
<1>4. CASE StartOpen(c)
  <2>1. inst[c] = "none" /\ phase[c] = "no"
    BY <1>1 DEF OpensOnce, EvictionsNamed, TypeOK
  <2>2. \A i \in Conn : /\ inst'[i] = (IF i = c THEN "opening" ELSE inst[i])
                        /\ pc'[i] = (IF i = c THEN "opening" ELSE pc[i])
    BY <1>4 DEF StartOpen, TypeOK
  <2>3. TypeOK'
    BY <1>1, <1>4 DEF StartOpen, TypeOK, PathTypes, Early
  <2>4. WarmIsLive' /\ OpensOnce' /\ CandidatesOpened'
    BY <1>1, <1>4, <2>1, <2>2 DEF StartOpen, TypeOK, WarmIsLive, OpensOnce, CandidatesOpened, Early
  <2>5. EvictionsNamed' /\ FlushCoversWrites'
    BY <1>1, <1>4, <2>1, <2>2 DEF StartOpen, EvictionsNamed, FlushCoversWrites, DbOf
  <2> QED
    BY <2>3, <2>4, <2>5
<1> QED
  BY <1>1, <1>2, <1>3, <1>4

LEMMA WakeDoes ==
    ASSUME TypeOK, NEW i \in Conn, NEW outcome \in {"freed", "refused"}, Wake(i, outcome)
    PROVE  /\ awaits' \in [Conn -> SUBSET Conn]
           /\ pc' \in [Conn -> {"new", "lookup", "room", "freed", "refused", "again", "opening", "join", "acquired",
                        "attached", "failed", "gone"}]
           /\ \A c \in Conn : pc'[c] \in Early => pc[c] \in Early
  BY DEF TypeOK, Wake, Early

(* An eviction that is called off leaves the instance as it was.           *)
LEMMA RefuseStep ==
    ASSUME RouterInv, NEW i \in Conn, phase[i] \in {"drain", "flush", "commit"}, Refuse(i),
           commit' \in [Conn -> {"none", "empty", "writes"}], dirty' \in [Conn -> BOOLEAN],
           \A j \in Conn : j # i => commit'[j] = commit[j] /\ dirty'[j] = dirty[j],
           inst[i] = "closed" => commit' = commit /\ dirty' = dirty
    PROVE  RouterInv'
<1> USE DEF RouterInv
<1>1. /\ UNCHANGED <<warm, opening, want, on, cands, inst, busy>>
      /\ phase' = [phase EXCEPT ![i] = "no"]
      /\ joined' = [joined EXCEPT ![i] = @ /\ inst[i] = "closed"]
      /\ evictions' = [evictions EXCEPT ![DbOf(i)] = None]
      /\ Wake(i, "refused")
  BY DEF Refuse
<1>2. /\ awaits' \in [Conn -> SUBSET Conn]
      /\ pc' \in [Conn -> {"new", "lookup", "room", "freed", "refused", "again", "opening", "join", "acquired",
                        "attached", "failed", "gone"}]
      /\ \A c \in Conn : pc'[c] \in Early => pc[c] \in Early
  BY <1>1, WakeDoes
<1>3. TypeOK'
  BY <1>1, <1>2 DEF TypeOK, DbOf
<1>4. WarmIsLive' /\ OpensOnce' /\ CandidatesOpened'
  BY <1>1, <1>2 DEF WarmIsLive, OpensOnce, CandidatesOpened
<1>5. \A j \in Conn : /\ phase'[j] = (IF j = i THEN "no" ELSE phase[j])
                      /\ evictions'[DbOf(j)] = (IF DbOf(j) = DbOf(i) THEN None ELSE evictions[DbOf(j)])
                      /\ j # i => joined'[j] = joined[j]
                      /\ inst[j] = "closed" => joined'[j] = joined[j]
  BY <1>1 DEF TypeOK, DbOf
<1>6. \A j \in Conn : j # i /\ evictions[DbOf(j)] = j => DbOf(j) # DbOf(i)
  BY DEF EvictionsNamed
<1>7. EvictionsNamed'
  BY <1>1, <1>5, <1>6 DEF EvictionsNamed, DbOf
<1>8. FlushCoversWrites'
  BY <1>1, <1>5 DEF FlushCoversWrites, EvictionsNamed
<1> QED
  BY <1>3, <1>4, <1>7, <1>8

LEMMA OpenDoneStep ==
    ASSUME RouterInv, NEW c \in Conn, OpenDone(c)
    PROVE  RouterInv'
<1> USE DEF RouterInv
<1>1. /\ inst[c] = "opening" /\ phase[c] = "no"
      /\ UNCHANGED <<evictions, want, cands, awaits, phase, busy, dirty, commit, joined>>
      /\ opening' = [opening EXCEPT ![want[c]] = None]
  BY DEF OpenDone, EvictionsNamed, TypeOK, data
<1>2. \/ /\ inst' = [inst EXCEPT ![c] = "live"]
         /\ warm' = [warm EXCEPT ![want[c]] = c]
      \/ /\ inst' = [inst EXCEPT ![c] = "failed"]
         /\ warm' = warm
  BY DEF OpenDone
<1> DEFINE Stages == {"new", "lookup", "room", "freed", "refused", "again", "opening", "join", "acquired",
                      "attached", "failed", "gone"}
<1>3. /\ pc' \in [Conn -> Stages]
      /\ on' \in [Conn -> Conn \cup {None}]
      /\ \A j \in Conn : pc'[j] \in Early => pc[j] \in Early /\ j # c
  <2>1. pc \in [Conn -> Stages] /\ on \in [Conn -> Conn \cup {None}]
    BY DEF TypeOK
  <2>2. "attached" \in Stages \ Early /\ "gone" \in Stages \ Early /\ "failed" \in Stages \ Early
    BY DEF Early
  <2> HIDE DEF Stages
  <2>3. PICK here \in SUBSET Conn :
          /\ c \in here
          /\ \/ \E stay \in SUBSET here :
                    /\ pc' = [j \in Conn |-> IF j \in stay THEN "attached"
                                             ELSE IF j \in here THEN "gone" ELSE pc[j]]
                    /\ on' = [j \in Conn |-> IF j \in stay THEN c
                                             ELSE IF j \in here THEN None ELSE on[j]]
             \/ /\ pc' = [j \in Conn |-> IF j \in here THEN "failed" ELSE pc[j]]
                /\ on' = [j \in Conn |-> IF j \in here THEN None ELSE on[j]]
    <3> DEFINE here == {j \in Conn : j = c \/ (pc[j] = "join" /\ on[j] = c)}
    <3>1. here \in SUBSET Conn /\ c \in here
      OBVIOUS
    <3> QED BY <3>1 DEF OpenDone
  <2>4. pc' \in [Conn -> Stages]
    BY <2>1, <2>2, <2>3
  <2>5. on' \in [Conn -> Conn \cup {None}]
    BY <2>1, <2>3
  <2>6. \A j \in Conn : pc'[j] \in Early => pc[j] \in Early /\ j # c
    BY <2>2, <2>3
  <2> QED BY <2>4, <2>5, <2>6
<1>4. TypeOK'
  <2>1. warm' \in [Db -> Conn \cup {None}]
    <3>1. warm \in [Db -> Conn \cup {None}]
      BY DEF TypeOK
    <3> QED BY <1>2, <3>1
  <2>2. opening' \in [Db -> Conn \cup {None}]
    <3>1. opening \in [Db -> Conn \cup {None}]
      BY DEF TypeOK
    <3> QED BY <1>1, <3>1
  <2>3. inst' \in [Conn -> {"none", "opening", "live", "closing", "closed", "failed"}]
    <3>1. inst \in [Conn -> {"none", "opening", "live", "closing", "closed", "failed"}]
      BY DEF TypeOK
    <3> QED BY <1>2, <3>1
  <2> QED BY <1>1, <1>3, <2>1, <2>2, <2>3 DEF TypeOK
<1>5. WarmIsLive' /\ OpensOnce' /\ CandidatesOpened'
  <2>1. \A j \in Conn : /\ want'[j] = want[j] /\ cands'[j] = cands[j]
                         /\ inst'[j] = IF j = c THEN inst'[c] ELSE inst[j]
    BY <1>1, <1>2 DEF TypeOK
  <2>2. \A d \in Db : warm'[d] # warm[d] => warm'[d] = c /\ want[c] = d /\ inst'[c] = "live"
    BY <1>1, <1>2 DEF TypeOK
  <2>3. WarmIsLive'
    <3>1. \A d \in Db : warm[d] \in Conn \cup {None}
      BY DEF TypeOK
    <3>2. \A d \in Db : warm[d] # None => warm[d] # c
      BY <1>1 DEF WarmIsLive
    <3> QED BY <2>1, <2>2, <3>1, <3>2 DEF WarmIsLive
  <2>4. OpensOnce'
    BY <1>3, <2>1 DEF OpensOnce
  <2>5. \A j \in Conn : cands[j] \subseteq Conn
    BY DEF TypeOK
  <2>6. CandidatesOpened'
    BY <1>1, <2>1, <2>5 DEF CandidatesOpened
  <2> QED BY <2>3, <2>4, <2>6
<1>6. EvictionsNamed' /\ FlushCoversWrites'
  BY <1>1, <1>2 DEF TypeOK, EvictionsNamed, FlushCoversWrites, DbOf
<1> QED
  BY <1>4, <1>5, <1>6

(* Clients come and go, and their messages run; the timer commits.         *)
LEMMA ClientStep ==
    ASSUME RouterInv,
           \/ \E c \in Conn : Attach(c) \/ Hangup(c) \/ MessageStart(c) \/ MessageEnd(c)
           \/ \E d \in Db : TimerFlush(d)
    PROVE  RouterInv'
<1> USE DEF RouterInv
<1>1. UNCHANGED <<maps, inst, phase, want, cands, awaits, joined>>
  BY DEF Attach, Hangup, MessageStart, MessageEnd, TimerFlush, insts, conns, data
<1>2. /\ TypeOK'
      /\ \A c \in Conn : pc'[c] \in Early => pc[c] \in Early
  <2>1. ASSUME NEW c \in Conn, Attach(c) \/ Hangup(c)
        PROVE  /\ TypeOK'
               /\ \A j \in Conn : pc'[j] \in Early => pc[j] \in Early
    <3>1. PICK x \in {"attached", "gone"} : pc' = [pc EXCEPT ![c] = x]
      BY <2>1 DEF Attach, Hangup, Leave
    <3>2. /\ on' = on \/ on' = [on EXCEPT ![c] = None]
          /\ UNCHANGED <<warm, opening, evictions, want, cands, awaits, inst, phase, busy, dirty, commit, joined>>
      BY <2>1 DEF Attach, Hangup, Leave, maps, insts, data
    <3>3. /\ pc' \in [Conn -> {"new", "lookup", "room", "freed", "refused", "again", "opening", "join", "acquired",
                        "attached", "failed", "gone"}]
          /\ \A j \in Conn : pc'[j] \in Early => pc[j] \in Early
      BY <3>1 DEF TypeOK, Early
    <3>4. on' \in [Conn -> Conn \cup {None}]
      BY <3>2 DEF TypeOK
    <3> QED
      BY <3>2, <3>3, <3>4 DEF TypeOK
  <2>2. ASSUME NEW c \in Conn, MessageStart(c) \/ MessageEnd(c)
        PROVE  TypeOK' /\ pc' = pc
    <3>1. /\ UNCHANGED <<warm, opening, evictions, pc, want, on, cands, awaits, inst, phase, commit, joined>>
          /\ \/ busy' = [busy EXCEPT ![on[c]] = TRUE] /\ dirty' = dirty
             \/ /\ busy' = [busy EXCEPT ![c] = FALSE]
                /\ dirty' = dirty \/ dirty' = [dirty EXCEPT ![c] = TRUE]
      BY <2>2 DEF MessageStart, MessageEnd, maps, conns, data
    <3>2. busy' \in [Conn -> BOOLEAN] /\ dirty' \in [Conn -> BOOLEAN]
      BY <3>1 DEF TypeOK
    <3> QED BY <3>1, <3>2 DEF TypeOK
  <2>3. ASSUME NEW d \in Db, TimerFlush(d)
        PROVE  TypeOK' /\ pc' = pc
    BY <2>3 DEF TypeOK, TimerFlush, CommitBegins, maps, conns
  <2> QED
    BY <2>1, <2>2, <2>3
<1>3. WarmIsLive' /\ OpensOnce' /\ CandidatesOpened' /\ EvictionsNamed'
  BY <1>1, <1>2 DEF maps, WarmIsLive, OpensOnce, CandidatesOpened, EvictionsNamed, DbOf
<1>4. FlushCoversWrites'
  <2>1. ASSUME NEW c \in Conn, Attach(c) \/ Hangup(c)
        PROVE  FlushCoversWrites'
    BY <1>1, <2>1 DEF Attach, Hangup, insts, data, FlushCoversWrites
  <2>2. ASSUME NEW c \in Conn, MessageStart(c) \/ MessageEnd(c)
        PROVE  FlushCoversWrites'
    BY <1>1, <2>2 DEF MessageStart, MessageEnd, data, FlushCoversWrites, TypeOK, Evicting, EvictionsNamed
  <2>3. ASSUME NEW d \in Db, TimerFlush(d)
        PROVE  FlushCoversWrites'
    BY <1>1, <2>3, WireRouterAssumption DEF TimerFlush, CommitBegins, FlushCoversWrites, TypeOK, Evicting, WarmIsLive
  <2> QED
    BY <2>1, <2>2, <2>3
<1> QED
  BY <1>2, <1>3, <1>4

(* An eviction goes on: the drain, the flush, the close.                   *)
LEMMA EvictionStep ==
    ASSUME RouterInv, NEW i \in Conn, EvictDrain(i) \/ EvictFlush(i) \/ EvictClose(i)
    PROVE  RouterInv'
<1> USE DEF RouterInv
<1>1. CASE EvictDrain(i)
  <2>1. CASE busy[i] /\ Refuse(i) /\ UNCHANGED <<dirty, commit>>
    BY <1>1, <2>1, RefuseStep DEF EvictDrain, TypeOK
  <2>2. CASE /\ Drained(i)
             /\ phase' = [phase EXCEPT ![i] = "flush"]
             /\ UNCHANGED <<maps, conns, inst, busy, data>>
    BY <1>1, <2>2 DEF EvictDrain, Drained, maps, conns, data, TypeOK, WarmIsLive, OpensOnce, CandidatesOpened,
       EvictionsNamed, FlushCoversWrites, DbOf
  <2> QED
    BY <1>1, <2>1, <2>2 DEF EvictDrain
<1>2. CASE EvictFlush(i)
  <2>1. CASE Refuse(i) /\ UNCHANGED <<dirty, commit>>
    BY <1>2, <2>1, RefuseStep DEF EvictFlush, TypeOK
  <2>2. CASE inst[i] # "closed" /\ FlushBegins(i)
    <3>1. TypeOK'
      <4>1. /\ commit' \in [Conn -> {"none", "empty", "writes"}]
            /\ dirty' \in [Conn -> BOOLEAN] /\ joined' \in [Conn -> BOOLEAN]
        <5>1. CASE CommitBegins(i) /\ UNCHANGED joined
          BY <5>1 DEF CommitBegins, TypeOK
        <5>2. CASE joined' = [joined EXCEPT ![i] = TRUE] /\ UNCHANGED <<dirty, commit>>
          BY <5>2 DEF TypeOK
        <5> QED
          BY <2>2, <5>1, <5>2 DEF FlushBegins
      <4>2. /\ phase' = [phase EXCEPT ![i] = "commit"]
            /\ UNCHANGED <<warm, opening, evictions, pc, want, on, cands, awaits, inst, busy>>
        BY <2>2 DEF FlushBegins, maps, conns
      <4> QED
        BY <4>1, <4>2 DEF TypeOK
    <3>2. WarmIsLive' /\ OpensOnce' /\ CandidatesOpened'
      BY <2>2 DEF FlushBegins, maps, conns, WarmIsLive, OpensOnce, CandidatesOpened
    <3>3. EvictionsNamed' /\ FlushCoversWrites'
      BY <1>2, <2>2 DEF EvictFlush, FlushBegins, CommitBegins, maps, conns, TypeOK, EvictionsNamed, FlushCoversWrites, DbOf
    <3> QED
      BY <3>1, <3>2, <3>3
  <2> QED
    BY <1>2, <2>1, <2>2 DEF EvictFlush
<1>3. CASE EvictClose(i)
  <2>1. /\ inst[i] = "closing" /\ phase[i] = "close"
        /\ inst' = [inst EXCEPT ![i] = "closed"]
        /\ evictions' = [evictions EXCEPT ![DbOf(i)] = None]
        /\ UNCHANGED <<warm, opening, want, on, cands, phase, busy, dirty, commit, joined>>
        /\ Wake(i, "freed")
    BY <1>3 DEF EvictClose, data
  <2>2. /\ awaits' \in [Conn -> SUBSET Conn]
        /\ pc' \in [Conn -> {"new", "lookup", "room", "freed", "refused", "again", "opening", "join", "acquired",
                        "attached", "failed", "gone"}]
        /\ \A c \in Conn : pc'[c] \in Early => pc[c] \in Early
    BY <2>1, WakeDoes
  <2>3. TypeOK'
    BY <2>1, <2>2 DEF TypeOK, DbOf
  <2>4. WarmIsLive' /\ OpensOnce' /\ CandidatesOpened' /\ FlushCoversWrites'
    BY <2>1, <2>2 DEF TypeOK, WarmIsLive, OpensOnce, CandidatesOpened, FlushCoversWrites
  <2>5. EvictionsNamed'
    BY <2>1, WireRouterAssumption DEF TypeOK, EvictionsNamed, DbOf
  <2> QED
    BY <2>3, <2>4, <2>5
<1> QED
  BY <1>1, <1>2, <1>3

LEMMA CommitStep ==
    ASSUME RouterInv, NEW i \in Conn, CommitEnds(i)
    PROVE  RouterInv'
<1> USE DEF RouterInv
<1>1. commit[i] # "none" /\ commit' = [commit EXCEPT ![i] = "none"]
  BY DEF CommitEnds
<1>2. CASE /\ phase[i] = "commit"
           /\ phase' = [phase EXCEPT ![i] = "close"]
           /\ inst' = [inst EXCEPT ![i] = "closing"]
           /\ warm' = [warm EXCEPT ![DbOf(i)] = None]
           /\ UNCHANGED <<opening, evictions, conns, busy, dirty, joined>>
  <2>1. inst[i] = "live" /\ evictions[DbOf(i)] = i /\ (dirty[i] => joined[i]) /\ ~busy[i]
    BY <1>2 DEF EvictionsNamed, FlushCoversWrites
  <2>2. TypeOK'
    BY <1>1, <1>2 DEF conns, TypeOK, DbOf
  <2>3. WarmIsLive' /\ OpensOnce' /\ CandidatesOpened'
    BY <1>1, <1>2, <2>1 DEF conns, TypeOK, WarmIsLive, OpensOnce, CandidatesOpened, DbOf
  <2>4. EvictionsNamed' /\ FlushCoversWrites'
    BY <1>1, <1>2, <2>1 DEF conns, TypeOK, EvictionsNamed, FlushCoversWrites, DbOf
  <2> QED
    BY <2>2, <2>3, <2>4
<1>3. CASE /\ phase[i] # "commit"
           /\ UNCHANGED <<maps, conns, inst, phase, busy, dirty, joined>>
  BY <1>1, <1>3 DEF maps, conns, TypeOK, WarmIsLive, OpensOnce, CandidatesOpened, EvictionsNamed, FlushCoversWrites, DbOf
<1>4. CASE /\ dirty' = [dirty EXCEPT ![i] = @ \/ commit[i] = "writes"]
           /\ phase[i] = "commit" /\ Refuse(i)
  <2>1. inst[i] = "live"
    BY <1>4 DEF EvictionsNamed
  <2>2. commit' \in [Conn -> {"none", "empty", "writes"}] /\ dirty' \in [Conn -> BOOLEAN]
    BY <1>1, <1>4 DEF TypeOK
  <2>3. \A j \in Conn : j # i => commit'[j] = commit[j] /\ dirty'[j] = dirty[j]
    BY <1>1, <1>4 DEF TypeOK
  <2> QED
    BY <1>4, <2>1, <2>2, <2>3, RefuseStep
<1>5. CASE /\ dirty' = [dirty EXCEPT ![i] = @ \/ commit[i] = "writes"]
           /\ phase[i] # "commit"
           /\ UNCHANGED <<maps, conns, inst, phase, busy, joined>>
  <2>1. inst[i] \notin {"closing", "closed"}
    BY <1>1 DEF FlushCoversWrites
  <2>2. TypeOK'
    BY <1>1, <1>5 DEF maps, conns, TypeOK
  <2>3. WarmIsLive' /\ OpensOnce' /\ CandidatesOpened' /\ EvictionsNamed'
    BY <1>5 DEF maps, conns, WarmIsLive, OpensOnce, CandidatesOpened, EvictionsNamed, DbOf
  <2>4. FlushCoversWrites'
    BY <1>1, <1>5, <2>1 DEF TypeOK, FlushCoversWrites
  <2> QED
    BY <2>2, <2>3, <2>4
<1> QED
  BY <1>2, <1>3, <1>4, <1>5 DEF CommitEnds

LEMMA RouterStep ==
    ASSUME RouterInv, [Next]_vars
    PROVE  RouterInv'
<1>1. ASSUME NEW d \in Db, EvictDatabase(d)
      PROVE  RouterInv'
  <2>1. /\ warm[d] \in Conn /\ inst[warm[d]] = "live"
        /\ UNCHANGED <<warm, opening, want, cands, awaits, inst, busy, dirty, commit, joined>>
        /\ Evict(warm[d], pc)
    BY <1>1 DEF EvictDatabase, RouterInv, TypeOK, WarmIsLive, data
  <2>2. pc \in [Conn -> Early \cup {"opening", "join", "acquired", "attached", "failed", "gone"}]
    BY DEF RouterInv, TypeOK, Early
  <2> DEFINE v == warm[d]
  <2>3. /\ EvictionBegins(v) \/ MapsKept
        /\ pc' \in [Conn -> Early \cup {"opening", "join", "acquired", "attached", "failed", "gone"}]
        /\ on' \in [Conn -> Conn \cup {None}]
        /\ \A c \in Conn : pc'[c] \in Early => pc[c] \in Early
    <3>1. v \in Conn /\ inst[v] = "live" /\ Evict(v, pc) /\ UNCHANGED <<warm, opening, inst>>
      BY <2>1
    <3> HIDE DEF v
    <3> QED
      BY <2>2, <3>1, EvictDoes DEF RouterInv
  <2>4. EvictionBegins(v)
    BY <1>1, <2>1, <2>3, WireRouterAssumption DEF EvictDatabase, Evict, MapsKept, RouterInv, TypeOK, DbOf, WarmIsLive
  <2>5. v \in Conn
    BY <2>1
  <2> HIDE DEF v
  <2>6. TypeOK' /\ WarmIsLive' /\ OpensOnce' /\ CandidatesOpened'
    BY <2>1, <2>3, <2>4, <2>5 DEF EvictionBegins, RouterInv, TypeOK, WarmIsLive, OpensOnce, CandidatesOpened, Early, DbOf
  <2>7. \A i \in Conn : /\ phase'[i] = (IF i = v THEN "drain" ELSE phase[i])
                        /\ evictions'[DbOf(i)] = (IF DbOf(i) = DbOf(v) THEN v ELSE evictions[DbOf(i)])
    BY <2>1, <2>4, <2>5 DEF EvictionBegins, RouterInv, TypeOK, DbOf
  <2>8. EvictionsNamed'
    BY <2>1, <2>4, <2>5, <2>7, WireRouterAssumption DEF EvictionBegins, RouterInv, EvictionsNamed, DbOf
  <2>9. FlushCoversWrites'
    BY <2>1, <2>4, <2>5, <2>7 DEF EvictionBegins, RouterInv, FlushCoversWrites
  <2> QED
    BY <2>6, <2>8, <2>9 DEF RouterInv
<1>2. CASE UNCHANGED vars
  <2>1. UNCHANGED <<warm, opening, evictions, pc, want, on, cands, awaits, inst, phase, busy, dirty, commit, joined>>
    BY <1>2 DEF vars, maps, conns, insts, data
  <2> QED
    BY <2>1 DEF RouterInv, TypeOK, WarmIsLive, OpensOnce, CandidatesOpened, EvictionsNamed, FlushCoversWrites, DbOf
<1> QED
  BY <1>1, <1>2, CallerStep, OpenDoneStep, ClientStep, EvictionStep, CommitStep DEF Next, Progress

LEMMA RouterInit ==
    ASSUME Init
    PROVE  RouterInv
  BY WireRouterAssumption DEF Init, RouterInv, TypeOK, WarmIsLive, OpensOnce, CandidatesOpened, EvictionsNamed,
     FlushCoversWrites, Early

(* The inductive invariant: evictions, instances and maps agree, whatever  *)
(* connections, operators and timers do, and with stale candidates.        *)
THEOREM RouterInvariance == Spec => []RouterInv
<1>1. RouterInv /\ [Next]_vars => RouterInv'
  BY RouterStep
<1> QED
  BY RouterInit, <1>1, PTL DEF Spec

(* The type invariant of the warm set.                                     *)
THEOREM RouterTypeCorrect == Spec => []TypeOK
<1>1. RouterInv => TypeOK
  BY DEF RouterInv
<1> QED
  BY <1>1, RouterInvariance, PTL

(* An eviction drops no write but those a joined commit had begun before,  *)
(* and none of a message that was executing, however large the warm set    *)
(* and even if a database is opened twice (evict(), flush()).              *)
THEOREM EvictionLosesOnlyJoined == Spec => []LossExplained
<1>1. RouterInv => LossExplained
  BY DEF RouterInv, FlushCoversWrites, LossExplained
<1> QED
  BY <1>1, RouterInvariance, PTL

----------------------------------------------------------------------------
(* An instance that stays what it is to the maps.                          *)
Kept(i) == inst'[i] = inst[i] \/ (inst[i] = "closing" /\ inst'[i] = "closed")

(* What each step does to the maps of the writers.                         *)
LEMMA WriterMoves ==
    ASSUME RouterInv, Next
    PROVE  /\ want' = want
           /\ \/ UNCHANGED <<warm, opening>> /\ \A i \in Conn : Kept(i)
              \/ \E c \in Conn : StartOpen(c) /\ ~Full /\ inst[c] = "none"
              \/ \E c \in Conn : /\ inst[c] = "opening"
                               /\ opening' = [opening EXCEPT ![want[c]] = None]
                               /\ \/ inst' = [inst EXCEPT ![c] = "live"] /\ warm' = [warm EXCEPT ![want[c]] = c]
                                  \/ inst' = [inst EXCEPT ![c] = "failed"] /\ warm' = warm
              \/ \E c \in Conn : /\ inst[c] = "live"
                               /\ inst' = [inst EXCEPT ![c] = "closing"]
                               /\ warm' = [warm EXCEPT ![want[c]] = None]
                               /\ opening' = opening
<1>1. ASSUME NEW c \in Conn, Route(c) \/ Continue(c) \/ LookAgain(c)
      PROVE  /\ want' = want
             /\ UNCHANGED <<warm, opening, inst>> \/ (StartOpen(c) /\ ~Full /\ inst[c] = "none")
  BY <1>1, CallerDoes DEF RouterInv, OpensOnce, MapsKept, EvictionBegins
<1>2. ASSUME NEW c \in Conn, OpenDone(c)
      PROVE  /\ want' = want /\ inst[c] = "opening"
             /\ opening' = [opening EXCEPT ![want[c]] = None]
             /\ \/ inst' = [inst EXCEPT ![c] = "live"] /\ warm' = [warm EXCEPT ![want[c]] = c]
                \/ inst' = [inst EXCEPT ![c] = "failed"] /\ warm' = warm
  BY <1>2 DEF OpenDone
<1>3. ASSUME NEW c \in Conn, Attach(c) \/ Hangup(c) \/ MessageStart(c) \/ MessageEnd(c) \/ EvictDrain(c) \/ EvictFlush(c)
      PROVE  UNCHANGED <<want, warm, opening, inst>>
  BY <1>3 DEF Attach, Hangup, MessageStart, MessageEnd, EvictDrain, EvictFlush, FlushBegins, Refuse, Leave, maps,
     conns, insts, data
<1>4. ASSUME NEW d \in Db, TimerFlush(d) \/ EvictDatabase(d)
      PROVE  UNCHANGED <<want, warm, opening, inst>>
  BY <1>4 DEF TimerFlush, EvictDatabase, maps, conns
<1>5. ASSUME NEW c \in Conn, EvictClose(c)
      PROVE  /\ UNCHANGED <<want, warm, opening>>
             /\ \A i \in Conn : Kept(i)
  <2>1. inst[c] = "closing" /\ inst' = [inst EXCEPT ![c] = "closed"] /\ UNCHANGED <<want, warm, opening>>
    BY <1>5 DEF EvictClose
  <2> QED
    BY <2>1 DEF Kept, RouterInv, TypeOK
<1>6. ASSUME NEW c \in Conn, CommitEnds(c)
      PROVE  /\ want' = want
             /\ \/ UNCHANGED <<warm, opening, inst>>
                \/ /\ inst[c] = "live"
                   /\ inst' = [inst EXCEPT ![c] = "closing"]
                   /\ warm' = [warm EXCEPT ![want[c]] = None]
                   /\ opening' = opening
  BY <1>6 DEF CommitEnds, RouterInv, EvictionsNamed, Refuse, maps, conns, DbOf
<1>7. PICK c \in Conn, d \in Db :
          \/ Route(c) \/ Continue(c) \/ LookAgain(c)
          \/ OpenDone(c) \/ EvictClose(c) \/ CommitEnds(c)
          \/ Attach(c) \/ Hangup(c) \/ MessageStart(c) \/ MessageEnd(c) \/ EvictDrain(c) \/ EvictFlush(c)
          \/ TimerFlush(d) \/ EvictDatabase(d)
  <2>1. ASSUME NEW c \in Conn PROVE want[c] \in Db
    BY DEF RouterInv, TypeOK
  <2>2. ASSUME NEW d \in Db, TimerFlush(d) \/ EvictDatabase(d) PROVE warm[d] \in Conn
    BY <2>2 DEF TimerFlush, EvictDatabase, RouterInv, TypeOK
  <2> QED
    BY <2>1, <2>2 DEF Next, Progress
<1>8. CASE UNCHANGED <<want, warm, opening, inst>>
  BY <1>8 DEF Kept
<1>9. CASE Route(c) \/ Continue(c) \/ LookAgain(c)
  BY <1>1, <1>8, <1>9
<1>10. CASE OpenDone(c)
  BY <1>2, <1>10
<1>11. CASE EvictClose(c)
  BY <1>5, <1>11
<1>12. CASE CommitEnds(c)
  BY <1>6, <1>8, <1>12
<1> QED
  BY <1>3, <1>4, <1>7, <1>8, <1>9, <1>10, <1>11, <1>12

(* If a database is opened only when none of its instances is resident or  *)
(* being opened, the maps name every writer.                               *)
LEMMA WritersNamedStep ==
    ASSUME RouterInv, WritersNamed, Next, OpensCold
    PROVE  WritersNamed'
<1>1. want' = want /\ TypeOK
  BY WriterMoves DEF RouterInv
<1>2. ASSUME UNCHANGED <<warm, opening>>,
             \A i \in Conn : Kept(i)
      PROVE  WritersNamed'
  BY <1>1, <1>2 DEF Kept, WritersNamed, TypeOK
<1>3. ASSUME NEW c \in Conn, StartOpen(c), inst[c] = "none"
      PROVE  WritersNamed'
  <2>1. inst'[c] = "opening" /\ warm[want[c]] = None /\ opening[want[c]] = None
    BY <1>1, <1>3 DEF StartOpen, OpensCold, TypeOK
  <2> QED
    BY <1>1, <1>3, <2>1, WireRouterAssumption DEF StartOpen, WritersNamed, TypeOK
<1>4. ASSUME NEW c \in Conn, inst[c] = "opening", opening' = [opening EXCEPT ![want[c]] = None],
             \/ inst' = [inst EXCEPT ![c] = "live"] /\ warm' = [warm EXCEPT ![want[c]] = c]
             \/ inst' = [inst EXCEPT ![c] = "failed"] /\ warm' = warm
      PROVE  WritersNamed'
  BY <1>1, <1>4, WireRouterAssumption DEF WritersNamed, TypeOK
<1>5. ASSUME NEW c \in Conn, inst[c] = "live", inst' = [inst EXCEPT ![c] = "closing"],
             warm' = [warm EXCEPT ![want[c]] = None], opening' = opening
      PROVE  WritersNamed'
  BY <1>1, <1>5, WireRouterAssumption DEF WritersNamed, TypeOK
<1> QED
  BY <1>2, <1>3, <1>4, <1>5, WriterMoves

(* The instances that are resident or being opened do not exceed maxWarm.  *)
LEMMA FitsStep ==
    ASSUME IsFiniteSet(Db), RouterInv, WritersNamed, Fits, Next, OpensCold
    PROVE  Fits'
<1>1. /\ want' = want /\ TypeOK /\ MaxWarm \in Nat
      /\ None \notin Conn
  BY WriterMoves, WireRouterAssumption DEF RouterInv
<1>2. /\ IsFiniteSet(Resident) /\ IsFiniteSet(Opening)
      /\ Cardinality(Resident) \in Nat /\ Cardinality(Opening) \in Nat
  <2>1. Resident \in SUBSET Db /\ Opening \in SUBSET Db
    BY DEF Resident, Opening
  <2> QED
    BY <2>1, FS_Subset, FS_CardinalityType
<1>3. CASE UNCHANGED <<warm, opening>>
  BY <1>3 DEF Fits, Resident, Opening
<1>4. ASSUME NEW c \in Conn, StartOpen(c), ~Full
      PROVE  Fits'
  <2>1. Resident' = Resident /\ Opening' = Opening \cup {want[c]}
    BY <1>1, <1>4 DEF StartOpen, Resident, Opening, TypeOK
  <2>a. Cardinality(Opening \cup {want[c]}) =
            IF want[c] \in Opening THEN Cardinality(Opening) ELSE Cardinality(Opening) + 1
    BY <1>2, FS_AddElement
  <2>2. Cardinality(Opening \cup {want[c]}) <= Cardinality(Opening) + 1
    BY <1>2, <2>a
  <2>3. Cardinality(Opening \cup {want[c]}) \in Nat
    BY <1>2, FS_AddElement, FS_CardinalityType
  <2> QED
    BY <1>1, <1>2, <1>4, <2>1, <2>2, <2>3 DEF Full, Fits
<1>5. ASSUME NEW c \in Conn, inst[c] = "opening", opening' = [opening EXCEPT ![want[c]] = None],
             \/ warm' = [warm EXCEPT ![want[c]] = c]
             \/ warm' = warm
      PROVE  Fits'
  <2>1. want[c] \in Opening /\ Opening' = Opening \ {want[c]}
    BY <1>1, <1>5 DEF Opening, TypeOK, WritersNamed
  <2>2. Resident' = Resident \cup {want[c]} \/ Resident' = Resident
    BY <1>1, <1>5 DEF Resident, TypeOK
  <2>b. Cardinality(Opening \ {want[c]}) =
            IF want[c] \in Opening THEN Cardinality(Opening) - 1 ELSE Cardinality(Opening)
    BY <1>2, FS_RemoveElement
  <2>3. Cardinality(Opening') = Cardinality(Opening) - 1
    BY <2>1, <2>b
  <2>a. Cardinality(Resident \cup {want[c]}) =
            IF want[c] \in Resident THEN Cardinality(Resident) ELSE Cardinality(Resident) + 1
    BY <1>2, FS_AddElement
  <2>4. Cardinality(Resident') <= Cardinality(Resident) + 1 /\ Cardinality(Resident') \in Nat
    BY <1>2, <2>2, <2>a
  <2> QED
    BY <1>1, <1>2, <2>3, <2>4 DEF Fits
<1>6. ASSUME NEW c \in Conn, warm' = [warm EXCEPT ![want[c]] = None], opening' = opening
      PROVE  Fits'
  <2>1. Opening' = Opening /\ Resident' = Resident \ {want[c]}
    BY <1>1, <1>6 DEF Opening, Resident, TypeOK
  <2>a. Cardinality(Resident \ {want[c]}) =
            IF want[c] \in Resident THEN Cardinality(Resident) - 1 ELSE Cardinality(Resident)
    BY <1>2, FS_RemoveElement
  <2>b. Cardinality(Resident \ {want[c]}) \in Nat
    BY <1>2, FS_RemoveElement, FS_CardinalityType
  <2>2. Cardinality(Resident') <= Cardinality(Resident) /\ Cardinality(Resident') \in Nat
    BY <1>2, <2>1, <2>a, <2>b
  <2> QED
    BY <1>1, <1>2, <2>1, <2>2 DEF Fits
<1> QED
  BY <1>3, <1>4, <1>5, <1>6, WriterMoves

(* What the maps name: one writer of a database, and as many as fit.       *)
LEMMA WritersFit ==
    ASSUME RouterInv, WritersNamed
    PROVE  /\ OneWriter /\ NothingStranded
           /\ IsFiniteSet(Db) /\ Fits => WithinCapacity
<1>1. TypeOK /\ WarmIsLive /\ None \notin Conn /\ MaxWarm \in Nat
  BY WireRouterAssumption DEF RouterInv
<1>2. OneWriter
  <2>1. SUFFICES ASSUME NEW d \in Db PROVE Cardinality(Writers(d)) <= 1
    BY DEF OneWriter
  <2>2. \A i, j \in Writers(d) : i = j
    BY <1>1 DEF Writers, WritersNamed, TypeOK
  <2>3. CASE Writers(d) = {}
    BY <2>3, FS_EmptySet
  <2>4. ASSUME NEW i \in Writers(d) PROVE Cardinality(Writers(d)) <= 1
    <3>1. Writers(d) = {i}
      BY <2>2
    <3>2. Cardinality({i}) = 1
      BY FS_Singleton
    <3> QED
      BY <3>1, <3>2
  <2> QED
    BY <2>3, <2>4
<1>3. NothingStranded
  BY DEF NothingStranded, WritersNamed, DbOf
<1>4. ASSUME IsFiniteSet(Db), Fits PROVE WithinCapacity
  <2> DEFINE W == UNION {Writers(d) : d \in Db}
             N == Resident \cup Opening
             f == [i \in W |-> want[i]]
  <2>1. /\ IsFiniteSet(Resident) /\ IsFiniteSet(Opening)
        /\ Cardinality(Resident) \in Nat /\ Cardinality(Opening) \in Nat
    <3>1. Resident \in SUBSET Db /\ Opening \in SUBSET Db
      BY DEF Resident, Opening
    <3> QED
      BY <1>4, <3>1, FS_Subset, FS_CardinalityType
  <2>2. IsFiniteSet(N) /\ Cardinality(N) <= Cardinality(Resident) + Cardinality(Opening)
        /\ Cardinality(N) \in Nat
    <3>1. /\ IsFiniteSet(N)
          /\ Cardinality(N) = Cardinality(Resident) + Cardinality(Opening) - Cardinality(Resident \cap Opening)
      BY <2>1, FS_Union
    <3>2. IsFiniteSet(Resident \cap Opening)
      BY <2>1, FS_Intersection
    <3>3. Cardinality(Resident \cap Opening) \in Nat /\ Cardinality(N) \in Nat
      BY <3>1, <3>2, FS_CardinalityType
    <3> QED
      BY <2>1, <3>1, <3>3
  <2>3. \A i \in W : i \in Conn /\ inst[i] \in {"opening", "live"}
    BY DEF Writers
  <2>4. f \in [W -> N]
    BY <1>1, <2>3 DEF WritersNamed, Resident, Opening, TypeOK
  <2>5. \A i, j \in W : f[i] = f[j] => i = j
    BY <1>1, <2>3 DEF WritersNamed, TypeOK
  <2>6. f \in Injection(W, N)
    BY <2>4, <2>5 DEF Injection, IsInjective
  <2>7. IsFiniteSet(W) /\ Cardinality(W) <= Cardinality(N)
    <3> HIDE DEF W, N, f
    <3> QED
      BY <2>2, <2>6, FS_Injection
  <2>8. Cardinality(W) \in Nat
    BY <2>7, FS_CardinalityType
  <2> QED
    BY <1>1, <1>4, <2>1, <2>2, <2>7, <2>8 DEF WithinCapacity, Fits
<1> QED
  BY <1>2, <1>3, <1>4

LEMMA WritersNamedInit ==
    ASSUME Init
    PROVE  WritersNamed /\ (IsFiniteSet(Db) => Fits)
<1>1. WritersNamed
  BY DEF Init, WritersNamed
<1>2. Resident = {} /\ Opening = {}
  BY DEF Init, Resident, Opening
<1> QED
  BY <1>1, <1>2, FS_EmptySet, WireRouterAssumption DEF Fits

(* As long as nobody opens a database that another connection has opened   *)
(* while he waited for room, a database has one writer at a time and the   *)
(* flush timer finds every instance with writes pending (`opening`,        *)
(* flushAll()).                                                            *)
THEOREM OneWriterIfCold == Spec /\ [][OpensCold]_vars => [](OneWriter /\ NothingStranded)
<1>1. RouterInv /\ WritersNamed /\ [Next]_vars /\ [OpensCold]_vars => WritersNamed'
  <2>1. CASE UNCHANGED vars
    BY <2>1 DEF vars, maps, conns, insts, WritersNamed
  <2> QED
    BY <2>1, WritersNamedStep
<1>2. Init => WritersNamed
  BY WritersNamedInit
<1>3. RouterInv /\ WritersNamed => OneWriter /\ NothingStranded
  BY WritersFit
<1> QED
  BY <1>1, <1>2, <1>3, RouterInvariance, PTL DEF Spec

(* Then they never exceed maxWarm, either, if the catalog is finite.       *)
THEOREM CapacityIfCold ==
    ASSUME IsFiniteSet(Db)
    PROVE  Spec /\ [][OpensCold]_vars => []WithinCapacity
<1>1. RouterInv /\ WritersNamed /\ Fits /\ [Next]_vars /\ [OpensCold]_vars => (WritersNamed /\ Fits)'
  <2>1. CASE UNCHANGED vars
    BY <2>1 DEF vars, maps, conns, insts, WritersNamed, Fits, Resident, Opening
  <2> QED
    BY <2>1, WritersNamedStep, FitsStep
<1>2. Init => WritersNamed /\ Fits
  BY WritersNamedInit
<1>3. RouterInv /\ WritersNamed /\ Fits => WithinCapacity
  BY WritersFit
<1> QED
  BY <1>1, <1>2, <1>3, RouterInvariance, PTL DEF Spec

(* A warm set of one is free of the race: whoever opens a database finds   *)
(* nothing resident and nothing being opened.                              *)
LEMMA OneWarmOpensCold ==
    ASSUME IsFiniteSet(Db), MaxWarm = 1, RouterInv, [Next]_vars
    PROVE  [OpensCold]_vars
<1>1. SUFFICES ASSUME Next, NEW c \in Conn, inst[c] = "none", inst'[c] = "opening"
               PROVE  warm[want[c]] = None /\ opening[want[c]] = None
  BY DEF OpensCold
<1>2. TypeOK /\ None \notin Conn
  BY WireRouterAssumption DEF RouterInv
<1>3. ~Full
  BY <1>1, <1>2, WriterMoves DEF TypeOK, Kept
<1>4. /\ IsFiniteSet(Resident) /\ IsFiniteSet(Opening)
      /\ Cardinality(Resident) \in Nat /\ Cardinality(Opening) \in Nat
  <2>1. Resident \in SUBSET Db /\ Opening \in SUBSET Db
    BY DEF Resident, Opening
  <2> QED
    BY <2>1, FS_Subset, FS_CardinalityType
<1>5. Cardinality(Resident) = 0 /\ Cardinality(Opening) = 0
  BY <1>3, <1>4 DEF Full
<1>6. Resident = {} /\ Opening = {}
  BY <1>4, <1>5, FS_EmptySet
<1> QED
  BY <1>2, <1>6 DEF Resident, Opening, TypeOK

(* A router that keeps one database resident has one writer at all, which  *)
(* the flush timer finds, however many connections race for room.          *)
THEOREM OneWarmIsSafe ==
    ASSUME IsFiniteSet(Db), MaxWarm = 1
    PROVE  Spec => [](OneWriter /\ WithinCapacity /\ NothingStranded)
<1>1. RouterInv /\ [Next]_vars => [OpensCold]_vars
  BY OneWarmOpensCold
<1> QED
  BY <1>1, RouterInvariance, OneWriterIfCold, CapacityIfCold, PTL DEF Spec
=============================================================================
