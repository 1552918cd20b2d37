----------------------------- MODULE WireRouter -----------------------------
(***************************************************************************)
(* The warm set of the wire router (acquire(), makeRoom(), evict(),        *)
(* route() and flushAll() of src/packages/server/src/wire-router.ts, and   *)
(* the source of router-sources.ts): connections name a database, which is *)
(* resident, being opened, being evicted, or must be opened after another  *)
(* one has been evicted.                                                   *)
(*                                                                         *)
(* An action is what runs between two awaits that wait for the outside     *)
(* (the object store, a client, a timer).  Continuations of a promise that *)
(* has settled run before any of those (see Quiet), in an order that       *)
(* depends on how many promises lie in between, and is left open here.     *)
(*                                                                         *)
(* A connection opens at most one instance, which is named after it.  What *)
(* an instance does with the lease and the bucket is the subject of module *)
(* ZeroPG, and how connections share one of module WireQueue.  LRU order   *)
(* is left open: a victim is any candidate.                                *)
(***************************************************************************)
EXTENDS Naturals, FiniteSets

CONSTANTS
    Conn,     \* connections, and the instances they open
    Db,       \* the databases of the catalog
    None,     \* no instance
    MaxWarm   \* maxWarm

ASSUME WireRouterAssumption ==
    /\ None \notin Conn
    /\ MaxWarm \in Nat \ {0}

VARIABLES
    warm,       \* warm: the resident instance of each database
    opening,    \* opening: the instance being opened
    evictions,  \* evictions: the instance whose eviction is under way
    pc,         \* where each connection's route() stands
    want,       \* the database it names
    on,         \* the instance it is attached to, or waits for
    cands,      \* what is left of makeRoom()'s candidates
    awaits,     \* the eviction runs it waits for
    inst,       \* each instance: "none", "opening", "live", "closing", "closed" or "failed"
    phase,      \* its eviction: "no", "drain", "flush", "commit" or "close"
    busy,       \* is a message executing in it?
    dirty,      \* has it writes that no commit has taken up?
    commit,     \* its commit under way: "none", "empty", or of "writes"
    joined      \* history: its eviction joined a commit under way

maps  == <<warm, opening, evictions>>
conns == <<pc, want, on, cands, awaits>>
data  == <<dirty, commit, joined>>
insts == <<inst, phase, busy, data>>
vars  == <<maps, conns, insts>>

Init ==
    /\ warm = [d \in Db |-> None]
    /\ opening = [d \in Db |-> None]
    /\ evictions = [d \in Db |-> None]
    /\ pc = [c \in Conn |-> "new"]
    /\ want \in [Conn -> Db]
    /\ on = [c \in Conn |-> None]
    /\ cands = [c \in Conn |-> {}]
    /\ awaits = [c \in Conn |-> {}]
    /\ inst = [i \in Conn |-> "none"]
    /\ phase = [i \in Conn |-> "no"]
    /\ busy = [i \in Conn |-> FALSE]
    /\ dirty = [i \in Conn |-> FALSE]
    /\ commit = [i \in Conn |-> "none"]
    /\ joined = [i \in Conn |-> FALSE]

----------------------------------------------------------------------------
DbOf(i) == want[i]
Evicting(i) == phase[i] # "no"      \* entry.evicting

Resident == {d \in Db : warm[d] # None}
Opening  == {d \in Db : opening[d] # None}
Runs     == {evictions[d] : d \in Db} \ {None}

(* Connections whose promise has settled continue before anything else     *)
(* from outside is handled.                                                *)
Quiet ==
    \A c \in Conn :
       /\ pc[c] \notin {"freed", "refused", "acquired"}
       /\ pc[c] \in {"again", "lookup"} => awaits[c] # {}

(* Wrong: one too many.                                                    *)
FullAfterOne == Cardinality(Resident) + Cardinality(Opening) > MaxWarm

(* Wrong: databases being opened take no room yet.                         *)
FullOfResident == Cardinality(Resident) >= MaxWarm

Full == Cardinality(Resident) + Cardinality(Opening) >= MaxWarm

(* The connection fails, with an error message in protocol.                *)
FailsAs(c) == pc' = [pc EXCEPT ![c] = "failed"]

(* source.open() is called, and the promise noted in `opening`.            *)
StartOpen(c) ==
    /\ opening' = [opening EXCEPT ![want[c]] = c]
    /\ inst' = [inst EXCEPT ![c] = "opening"]
    /\ pc' = [pc EXCEPT ![c] = "opening"]
    /\ UNCHANGED <<warm, evictions, on, cands, awaits, phase>>

(* evict(), to its first await: the run of that name which is under way,   *)
(* or a new one, which fails the connections attached to the victim.       *)
Evict(v, then) ==
    IF evictions[DbOf(v)] # None
    THEN pc' = then /\ UNCHANGED <<evictions, phase, on>>
    ELSE /\ evictions' = [evictions EXCEPT ![DbOf(v)] = v]
         /\ phase' = [phase EXCEPT ![v] = "drain"]
         /\ pc' = [c \in Conn |-> IF pc[c] = "attached" /\ on[c] = v THEN "failed" ELSE then[c]]
         /\ on' = [c \in Conn |-> IF pc[c] = "attached" /\ on[c] = v THEN None ELSE on[c]]

(* Wrong: the map is read before the run is in it.                         *)
RunInMap(v) == evictions[DbOf(v)]

RunOf(v) == IF evictions[DbOf(v)] # None THEN evictions[DbOf(v)] ELSE v

(* makeRoom()'s loop: try a candidate, or give up.                         *)
TryNext(c, left) ==
    \/ \E v \in left :
          /\ Evict(v, [pc EXCEPT ![c] = "room"])
          /\ cands' = [cands EXCEPT ![c] = left \ {v}]
          /\ awaits' = [awaits EXCEPT ![c] = {RunOf(v)}]
          /\ UNCHANGED <<warm, opening, inst>>
    \/ /\ left = {}
       /\ FailsAs(c)                            \* WarmSetFullError
       /\ UNCHANGED <<maps, on, cands, awaits, inst, phase>>

(* makeRoom(): the candidates are those of now.  Without any, wait for the *)
(* evictions under way, if there are some.                                 *)
MakeRoom(c) ==
    LET left == {warm[d] : d \in {e \in Resident : ~Evicting(warm[e])}}
    IN  \/ /\ left # {} \/ Runs = {}
           /\ TryNext(c, left)
        \/ /\ left = {} /\ Runs # {}
           /\ awaits' = [awaits EXCEPT ![c] = Runs]
           /\ pc' = [pc EXCEPT ![c] = "again"]
           /\ UNCHANGED <<maps, on, cands, inst, phase>>

(* acquire() from its loop on.  It does not look at the maps again.        *)
Admit(c) == IF Full THEN MakeRoom(c) ELSE StartOpen(c)

(* conn.entry = null.                                                      *)
Leave(c) ==
    /\ pc' = [pc EXCEPT ![c] = "gone"]
    /\ on' = [on EXCEPT ![c] = None]

(* acquire() from its start; `found` is where a resident database leads.   *)
Acquire(c, found) ==
    LET d == want[c]
    IN  \/ /\ warm[d] # None /\ ~Evicting(warm[d])
           /\ on' = [on EXCEPT ![c] = warm[d]]
           /\ pc' = [pc EXCEPT ![c] = found]
           /\ UNCHANGED <<maps, cands, awaits, inst, phase>>
        \/ /\ warm[d] # None /\ Evicting(warm[d])
           /\ awaits' = [awaits EXCEPT ![c] = {evictions[d]}]
           /\ pc' = [pc EXCEPT ![c] = "lookup"]
           /\ UNCHANGED <<maps, on, cands, inst, phase>>
        \/ /\ warm[d] = None /\ opening[d] # None
           /\ on' = [on EXCEPT ![c] = opening[d]]
           /\ pc' = [pc EXCEPT ![c] = "join"]
           /\ UNCHANGED <<maps, cands, awaits, inst, phase>>
        \/ /\ warm[d] = None /\ opening[d] = None
           /\ Admit(c)

Rest == UNCHANGED <<want, busy, data>>

(* route(), once the startup packet is there.                              *)
Route(c) == Quiet /\ pc[c] = "new" /\ Acquire(c, "attached") /\ Rest

(* What acquire() and makeRoom() do when what they awaited has settled.    *)
Continue(c) ==
    /\ \/ pc[c] = "freed" /\ Admit(c)
       \/ pc[c] = "refused" /\ TryNext(c, cands[c])
       \/ pc[c] = "again" /\ awaits[c] = {} /\ Admit(c)
    /\ Rest

(* The eviction acquire() waited for has settled, one way or the other.    *)
LookAgain(c) == pc[c] = "lookup" /\ awaits[c] = {} /\ Acquire(c, "acquired") /\ Rest

(* acquire() has returned; coldStart() and route() have still to hear of   *)
(* it, and they do not look at entry.evicting.  By then the client may     *)
(* have hung up, or its hold expired.                                      *)
Attach(c) ==
    /\ pc[c] = "acquired"
    /\ \/ /\ pc' = [pc EXCEPT ![c] = "attached"]
          /\ UNCHANGED on
       \/ Leave(c)
    /\ UNCHANGED <<maps, insts, want, cands, awaits>>

(* open() returns: the instance is resident, and those who waited attach;  *)
(* or it throws, and they fail.                                            *)
OpenDone(c) ==
    /\ Quiet
    /\ inst[c] = "opening"
    /\ opening' = [opening EXCEPT ![want[c]] = None]
    /\ LET here == {j \in Conn : j = c \/ (pc[j] = "join" /\ on[j] = c)}
       IN  \/ /\ inst' = [inst EXCEPT ![c] = "live"]
              /\ warm' = [warm EXCEPT ![want[c]] = c]
              /\ \E stay \in SUBSET here :
                    /\ pc' = [j \in Conn |-> IF j \in stay THEN "attached"
                                             ELSE IF j \in here THEN "gone" ELSE pc[j]]
                    /\ on' = [j \in Conn |-> IF j \in stay THEN c
                                             ELSE IF j \in here THEN None ELSE on[j]]
           \/ /\ inst' = [inst EXCEPT ![c] = "failed"]
              /\ pc' = [j \in Conn |-> IF j \in here THEN "failed" ELSE pc[j]]
              /\ on' = [j \in Conn |-> IF j \in here THEN None ELSE on[j]]
              /\ UNCHANGED warm
    /\ UNCHANGED <<evictions, want, cands, awaits, phase, busy, data>>

----------------------------------------------------------------------------
(* A message of an attached connection runs; it may write.                 *)
MessageStart(c) ==
    /\ Quiet
    /\ pc[c] = "attached"
    /\ inst[on[c]] = "live"
    /\ ~Evicting(on[c])
    /\ ~busy[on[c]]
    /\ busy' = [busy EXCEPT ![on[c]] = TRUE]
    /\ UNCHANGED <<maps, conns, inst, phase, data>>

MessageEnd(i) ==
    /\ Quiet
    /\ busy[i]
    /\ busy' = [busy EXCEPT ![i] = FALSE]
    /\ \/ dirty' = [dirty EXCEPT ![i] = TRUE]
       \/ UNCHANGED dirty
    /\ UNCHANGED <<maps, conns, inst, phase, commit, joined>>

Hangup(c) ==
    /\ Quiet
    /\ pc[c] = "attached"
    /\ Leave(c)
    /\ UNCHANGED <<maps, insts, want, cands, awaits>>

(* ZeroPG.commit() reads its LSN: what has been written by now is in it.   *)
CommitBegins(i) ==
    /\ commit' = [commit EXCEPT ![i] = IF dirty[i] THEN "writes" ELSE "empty"]
    /\ dirty' = [dirty EXCEPT ![i] = FALSE]

(* flushAll(), every flushIntervalMs, finds writes pending.  One that finds *)
(* a commit under way joins it.                                            *)
TimerFlush(d) ==
    /\ Quiet
    /\ warm[d] # None
    /\ ~Evicting(warm[d])
    /\ dirty[warm[d]]
    /\ commit[warm[d]] = "none"
    /\ CommitBegins(warm[d])
    /\ UNCHANGED <<maps, conns, inst, phase, busy, joined>>

(* evictDatabase(), by an operator.                                        *)
EvictDatabase(d) ==
    /\ Quiet
    /\ warm[d] # None
    /\ evictions[d] = None
    /\ Evict(warm[d], pc)
    /\ UNCHANGED <<warm, opening, want, cands, awaits, inst, busy, data>>

(* Wrong: a run that is called off wakes nobody.                           *)
WakeOnSuccess(i, outcome) ==
    IF outcome = "freed"
    THEN /\ awaits' = [c \in Conn |-> awaits[c] \ {i}]
         /\ pc' = [c \in Conn |-> IF pc[c] = "room" /\ i \in awaits[c] THEN outcome ELSE pc[c]]
    ELSE UNCHANGED <<awaits, pc>>

(* The promise of run i settles.                                           *)
Wake(i, outcome) ==
    /\ awaits' = [c \in Conn |-> awaits[c] \ {i}]
    /\ pc' = [c \in Conn |-> IF pc[c] = "room" /\ i \in awaits[c] THEN outcome ELSE pc[c]]

(* Wrong: the entry leaves the map all the same.                           *)
RefuseAndForget(i) ==
    /\ phase' = [phase EXCEPT ![i] = "no"]
    /\ joined' = [joined EXCEPT ![i] = @ /\ inst[i] = "closed"]
    /\ evictions' = [evictions EXCEPT ![DbOf(i)] = None]
    /\ Wake(i, "refused")
    /\ warm' = [warm EXCEPT ![DbOf(i)] = None]
    /\ UNCHANGED <<opening, want, on, cands, inst, busy>>

(* The eviction is called off; the database stays in service, if it was.   *)
Refuse(i) ==
    /\ phase' = [phase EXCEPT ![i] = "no"]
    /\ joined' = [joined EXCEPT ![i] = @ /\ inst[i] = "closed"]
    /\ evictions' = [evictions EXCEPT ![DbOf(i)] = None]
    /\ Wake(i, "refused")
    /\ UNCHANGED <<warm, opening, want, on, cands, inst, busy>>

(* Wrong: the flush does not wait for the message in the engine.           *)
DrainedAlways(i) == TRUE

Drained(i) == ~busy[i]

(* whenIdle() returns, or times out.                                       *)
EvictDrain(i) ==
    /\ Quiet
    /\ phase[i] = "drain"
    /\ \/ /\ Drained(i)
          /\ phase' = [phase EXCEPT ![i] = "flush"]
          /\ UNCHANGED <<maps, conns, inst, busy, data>>
       \/ busy[i] /\ Refuse(i) /\ UNCHANGED <<dirty, commit>>

(* flush() of router-sources.ts: commit() hands out the commit under way.  *)
FlushBegins(i) ==
    /\ phase' = [phase EXCEPT ![i] = "commit"]
    /\ \/ /\ commit[i] = "none"
          /\ CommitBegins(i)
          /\ UNCHANGED joined
       \/ /\ commit[i] # "none"
          /\ joined' = [joined EXCEPT ![i] = TRUE]
          /\ UNCHANGED <<dirty, commit>>
    /\ UNCHANGED <<maps, conns, inst, busy>>

(* The candidates of makeRoom() may have been evicted meanwhile: commit()  *)
(* of a closed database throws.                                            *)
EvictFlush(i) ==
    /\ Quiet
    /\ phase[i] = "flush"
    /\ IF inst[i] = "closed" THEN Refuse(i) /\ UNCHANGED <<dirty, commit>>
                             ELSE FlushBegins(i)

(* The commit is in the bucket, or fails.  An eviction that waits for it   *)
(* drops the entry, or is called off.                                      *)
CommitEnds(i) ==
    /\ Quiet
    /\ commit[i] # "none"
    /\ commit' = [commit EXCEPT ![i] = "none"]
    /\ \/ /\ phase[i] = "commit"
          /\ phase' = [phase EXCEPT ![i] = "close"]
          /\ inst' = [inst EXCEPT ![i] = "closing"]
          /\ warm' = [warm EXCEPT ![DbOf(i)] = None]
          /\ UNCHANGED <<opening, evictions, conns, busy, dirty, joined>>
       \/ /\ phase[i] # "commit"
          /\ UNCHANGED <<maps, conns, inst, phase, busy, dirty, joined>>
       \/ /\ dirty' = [dirty EXCEPT ![i] = @ \/ commit[i] = "writes"]
          /\ IF phase[i] = "commit" THEN Refuse(i)
             ELSE UNCHANGED <<maps, conns, inst, phase, busy, joined>>

(* close() has released the lease, or has failed.                          *)
EvictClose(i) ==
    /\ Quiet
    /\ phase[i] = "close"
    /\ inst[i] = "closing"
    /\ inst' = [inst EXCEPT ![i] = "closed"]
    /\ evictions' = [evictions EXCEPT ![DbOf(i)] = None]
    /\ Wake(i, "freed")
    /\ UNCHANGED <<warm, opening, want, on, cands, phase, busy, data>>

----------------------------------------------------------------------------
Progress(c) ==
    \/ Continue(c) \/ LookAgain(c) \/ Attach(c) \/ OpenDone(c)
    \/ EvictDrain(c) \/ EvictFlush(c) \/ CommitEnds(c) \/ EvictClose(c)

Next ==
    \/ \E c \in Conn :
          \/ Progress(c) \/ Route(c) \/ Hangup(c)
          \/ MessageStart(c) \/ MessageEnd(c)
    \/ \E d \in Db : TimerFlush(d) \/ EvictDatabase(d)

Spec == Init /\ [][Next]_vars

(* Opens, flushes and closes end with the object store's answer, drains    *)
(* with a timeout.  Nothing is assumed of clients and of their messages.   *)
FairSpec == Spec /\ \A c \in Conn : WF_vars(Progress(c))

----------------------------------------------------------------------------
TypeOK ==
    /\ warm \in [Db -> Conn \cup {None}]
    /\ opening \in [Db -> Conn \cup {None}]
    /\ evictions \in [Db -> Conn \cup {None}]
    /\ pc \in [Conn -> {"new", "lookup", "room", "freed", "refused", "again", "opening", "join", "acquired",
                        "attached", "failed", "gone"}]
    /\ want \in [Conn -> Db]
    /\ on \in [Conn -> Conn \cup {None}]
    /\ cands \in [Conn -> SUBSET Conn]
    /\ awaits \in [Conn -> SUBSET Conn]
    /\ inst \in [Conn -> {"none", "opening", "live", "closing", "closed", "failed"}]
    /\ phase \in [Conn -> {"no", "drain", "flush", "commit", "close"}]
    /\ busy \in [Conn -> BOOLEAN]
    /\ dirty \in [Conn -> BOOLEAN]
    /\ commit \in [Conn -> {"none", "empty", "writes"}]
    /\ joined \in [Conn -> BOOLEAN]

Writers(d) == {i \in Conn : want[i] = d /\ inst[i] \in {"opening", "live"}}

(* "two connections racing for the same cold database produce one instance *)
(* rather than two writers fighting over one lease" (`opening`).           *)
OneWriter == \A d \in Db : Cardinality(Writers(d)) <= 1

(* Never more than maxWarm databases take memory: an instance counts until *)
(* it is flushed and on its way out.                                       *)
WithinCapacity == Cardinality(UNION {Writers(d) : d \in Db}) <= MaxWarm

(* "Flush every pending write and CONFIRM it committed" (flush() of        *)
(* warm-set.ts): an instance is closed only when the bucket has everything *)
(* written to it.                                                          *)
FlushedBeforeClose ==
    \A i \in Conn : inst[i] \in {"closing", "closed"} => ~dirty[i] /\ ~busy[i]

(* An eviction loses writes in one way only: its flush was answered with a *)
(* commit that had begun before them.  The message that was executing when *)
(* the eviction began is not lost.                                         *)
LossExplained ==
    \A i \in Conn : inst[i] \in {"closing", "closed"} => ~busy[i] /\ (dirty[i] => joined[i])

(* The timer that "is the ONLY thing that makes a wire write durable"      *)
(* still finds every instance with writes pending.                         *)
NothingStranded ==
    \A i \in Conn :
       inst[i] = "live" /\ (dirty[i] \/ busy[i] \/ commit[i] = "writes") => warm[DbOf(i)] = i

(* "so a connection arriving mid-eviction waits for a fresh instance       *)
(* instead of attaching to a doomed lease" (evict): the instance of an     *)
(* attached connection is not on its way out.                              *)
NeverDoomed ==
    \A c \in Conn : pc[c] = "attached" => inst[on[c]] = "live"

(* "Wait for the eviction to finish, then loop and start a fresh instance" *)
(* (acquire): no instance is opened while the last one still has the lease.*)
FreshAfterEviction ==
    \A d \in Db : opening[d] # None => evictions[d] = None

(* Every connection that names a database is attached to it or told why    *)
(* not.                                                                    *)
EveryConnectionSettles ==
    \A c \in Conn : pc[c] # "new" ~> pc[c] \in {"attached", "failed", "gone"}
=============================================================================
