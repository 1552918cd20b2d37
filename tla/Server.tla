------------------------------- MODULE Server -------------------------------
(***************************************************************************)
(* The single-database server (src/packages/server/src/server.ts) around   *)
(* one ZeroPG engine in 'sleep' durability, with the listener of its wire  *)
(* protocol (wire-frontend.ts) and its PostgREST child (postgrest.ts):     *)
(* boot, writes over HTTP and over the wire, the poll that finds the       *)
(* writes the engine did not see, POST /flush, and shutdown on signals.    *)
(*                                                                         *)
(* An action is what runs between two waits for I/O.  Writes are numbered  *)
(* in the order of the WAL, so a commit makes a prefix of them durable;    *)
(* how it does is the subject of CommitPath.  Tuple counters of Postgres   *)
(* count every write once.  What another process may do to the lease and   *)
(* the manifest is one action here, TakenOver, and the subject of ZeroPG.  *)
(***************************************************************************)
EXTENDS Naturals, FiniteSets, FiniteSetsExt

CONSTANTS
    Conn,        \* wire clients
    Slots,       \* maxConnections, the callers' budget
    Tick,        \* wire-flush polls that may be under way at the same time
    Call,        \* callers of POST /flush
    MaxSig,      \* bound: signals that arrive, SIGTERM or SIGINT
    WithRest,    \* opts.postgrest
    MaxWrites,   \* bound: writes
    MaxFaults    \* bound: failed statements and failed commits

ASSUME ServerAssumption ==
    /\ Slots \in Nat
    /\ Tick \cap Call = {} /\ Tick \cap 1..MaxSig = {} /\ Call \cap 1..MaxSig = {}
    /\ WithRest \in BOOLEAN
    /\ MaxSig \in Nat /\ MaxWrites \in Nat /\ MaxFaults \in Nat

VARIABLES
    phase,    \* this.phase
    bootAt,   \* what boot() awaits: "lease", "restore", "wire", "rest" or nothing, "end"
    rest,     \* is there a PostgREST child?  It holds a connection of its own
    timer,    \* is the wire-flush timer set?
    front,    \* the wire listener: "none", "up" or "closing"
    stopped,  \* WireFrontend.stopped
    conns,    \* clients whose connections were handed on
    http,     \* the HTTP listener: "up", "closing" or "down"
    last,     \* this.lastWireWrites
    db,       \* this.db: "none", "up", "closing" or "closed"
    lease,    \* does the lease name this process?
    dirty,    \* the engine's dirty flag
    commit,   \* the commit under way: "none", "pacing" or "uploading"; the writes it has
    applied,  \* writes Postgres has applied, each answered at once
    durable,  \* those in the bucket
    fenced,   \* has another writer swapped the manifest?
    at,       \* where each poll, flush request and shutdown stands
    asked,    \* what had been applied when a flush was asked for
    faults,   \* faults so far
    excused,  \* ghost: writes a named window may lose
    early     \* ghost: what a shutdown came too early to stop: "engine", "wire"

bootVars   == <<phase, bootAt, rest, timer>>
wireVars   == <<front, stopped, conns>>
engineVars == <<db, lease, dirty, commit, durable, fenced>>
book       == <<applied, asked, faults, excused, early>>
vars == <<bootVars, wireVars, http, last, engineVars, at, book>>

Sig    == 1..MaxSig        \* shutdown() calls, by the number of the signal
Caller == Tick \cup Call \cup Sig

NoCommit == [phase |-> "none", upto |-> 0]
Pacing   == [phase |-> "pacing", upto |-> 0]

At(pc)      == [pc |-> pc, w |-> 0]
Pc(f)       == at[f].pc
Go(f, pc)   == at' = [at EXCEPT ![f] = At(pc)]

Signalled == {s \in Sig : Pc(s) # "idle"}
Unsaved   == (durable + 1)..applied
Fault     == faults < MaxFaults /\ faults' = faults + 1

(* A continuation that waits for no I/O runs before the next I/O event.    *)
Calm      == \A f \in Call \cup Sig : Pc(f) \notin {"front", "counting", "flushed", "closed", "flush"}

Exited    == \E s \in Sig : Pc(s) = "exit"

Init ==
    /\ phase = "restoring"
    /\ bootAt = "lease"
    /\ rest = FALSE
    /\ timer = FALSE
    /\ front = "none"
    /\ stopped = FALSE
    /\ conns = {}
    /\ http = "up"
    /\ last = 0
    /\ db = "none"
    /\ lease = FALSE
    /\ dirty = FALSE
    /\ commit = NoCommit
    /\ applied = 0
    /\ durable = 0
    /\ fenced = FALSE
    /\ at = [f \in Caller |-> At("idle")]
    /\ asked = [f \in Call |-> 0]
    /\ faults = 0
    /\ excused = {}
    /\ early = {}

----------------------------------------------------------------------------
(* boot().                                                                 *)

(* ZeroPG.open() acquires the lease, then restores.                        *)
BootLease ==
    /\ Calm
    /\ bootAt = "lease"
    /\ lease' = TRUE
    /\ bootAt' = "restore"
    /\ UNCHANGED <<phase, rest, timer, wireVars, http, last, db, dirty, commit, durable, fenced,
                   at, book>>

(* this.db is set; the listener is on its way.                             *)
BootOpen ==
    /\ Calm
    /\ bootAt = "restore"
    /\ db' = "up"
    /\ phase' = "wire"
    /\ bootAt' = "wire"
    /\ UNCHANGED <<rest, timer, wireVars, http, last, lease, dirty, commit, durable, fenced,
                   at, book>>

(* The listener is up, the counter is read, the timer set, PostgREST       *)
(* started: no I/O event falls in between.  A stop() that came before the  *)
(* listener has not stopped it.                                            *)
BootWire ==
    /\ Calm
    /\ bootAt = "wire"
    /\ front' = "up"
    /\ last' = IF db = "closed" THEN last ELSE applied
    /\ timer' = TRUE
    /\ rest' = WithRest
    /\ IF WithRest THEN phase' = "postgrest" /\ bootAt' = "rest"
                   ELSE phase' = "ready" /\ bootAt' = "end"
    /\ UNCHANGED <<stopped, conns, http, engineVars, at, book>>

BootReady ==
    /\ Calm
    /\ bootAt = "rest"
    /\ rest
    /\ phase' = "ready"
    /\ bootAt' = "end"
    /\ UNCHANGED <<rest, timer, wireVars, http, last, engineVars, at, book>>

(* pgrest.stop() has disowned the child, which has not ended yet.          *)
Stopping == \E s \in Sig : Pc(s) = "rest"

(* open() throws (and keeps the lease), the port is taken, PostgREST does  *)
(* not come up or was stopped: phase 'error', and what was set up stays.   *)
BootFails ==
    /\ Calm
    /\ bootAt # "end"
    /\ IF bootAt = "rest" /\ (Stopping \/ ~rest) THEN UNCHANGED faults ELSE Fault
    /\ phase' = "error"
    /\ bootAt' = "end"
    /\ UNCHANGED <<rest, timer, wireVars, http, last, engineVars, applied, at, asked,
                   excused, early>>

Boot == BootLease \/ BootOpen \/ BootWire \/ BootReady \/ BootFails

----------------------------------------------------------------------------
(* Connections and writes.                                                 *)

Live   == Cardinality(conns) + IF rest THEN 1 ELSE 0
Budget == Slots + IF WithRest THEN 1 ELSE 0

(* handoff(): over the cap the client is told 53300 and keeps no slot.     *)
Connect(c) ==
    /\ Calm
    /\ front = "up"
    /\ c \notin conns
    /\ Live < Budget
    /\ conns' = conns \cup {c}
    /\ UNCHANGED <<bootVars, front, stopped, http, last, engineVars, at, book>>

Disconnect(c) ==
    /\ Calm
    /\ c \in conns
    /\ conns' = conns \ {c}
    /\ UNCHANGED <<bootVars, front, stopped, http, last, engineVars, at, book>>

(* Postgres applies a statement and its client has the answer.  `exposed`: *)
(* the write falls in a window that may lose it.  One is common to all: a  *)
(* commit that has read the WAL will clear the dirty flag.                 *)
Apply(exposed) ==
    /\ Calm
    /\ db \in {"up", "closing"}
    /\ applied < MaxWrites
    /\ applied' = applied + 1
    /\ excused' = IF exposed \/ commit.phase = "uploading" THEN excused \cup {applied + 1}
                                                          ELSE excused
    /\ UNCHANGED <<bootVars, wireVars, http, last, db, lease, commit, durable, fenced, at, asked,
                   faults, early>>

(* POST /sql: afterWrite() marks dirty.  Any phase will do, and the        *)
(* listener is there until close() is through.                             *)
SqlWrite ==
    /\ http = "up"
    /\ Apply(db = "closing")
    /\ dirty' = TRUE

(* The socket server writes to PGlite directly.  Nobody is left to do so   *)
(* when close() begins, unless the listener came up after the shutdown.    *)
WireWrite ==
    /\ Live > 0
    /\ Apply("wire" \in early)
    /\ UNCHANGED dirty

----------------------------------------------------------------------------
(* commit(): callers join the commit under way.                            *)
JoinCommit == commit' = IF commit = NoCommit THEN Pacing ELSE commit

(* What wireWriteCount() may return: a failed query means "no change".     *)
Count(w) ==
    \/ db # "closed" /\ w = applied /\ UNCHANGED faults
    \/ db # "closed" /\ w = last /\ applied > last /\ Fault
    \/ db = "closed" /\ w = last /\ UNCHANGED faults

(* What a flush gives up without a commit to come stays behind.            *)
GiveUp(f) == excused' = IF f \in Tick \/ dirty THEN excused ELSE excused \cup Unsaved

(* flushWireWrites(), called by f, which goes to `after` when it returns   *)
(* and to "waiting" while it awaits the commit.                            *)
FlushWireWrites(f, after) ==
    \/ /\ phase # "ready" \/ db = "none"
       /\ Go(f, after)
       /\ GiveUp(f)
       /\ UNCHANGED <<dirty, commit, faults>>
    \/ /\ phase = "ready" /\ db # "none"
       /\ \E w \in {last, applied} :
             /\ Count(w)
             /\ \/ /\ w <= last
                   /\ Go(f, after)
                   /\ IF applied > last THEN GiveUp(f) ELSE UNCHANGED excused
                   /\ UNCHANGED <<dirty, commit>>
                \/ /\ w > last
                   /\ dirty' = TRUE
                   /\ IF db = "up" THEN JoinCommit /\ at' = [at EXCEPT ![f] = [pc |-> "waiting", w |-> w]]
                                   ELSE UNCHANGED commit /\ Go(f, after)   \* commit() throws
                   /\ UNCHANGED excused

FlushFrame == UNCHANGED <<bootVars, stopped, conns, http, db, lease, durable, fenced, applied,
                          early>>

(* The interval does not wait for the poll before it.                      *)
Poll(t) ==
    /\ Calm
    /\ timer
    /\ Pc(t) = "idle"
    /\ FlushWireWrites(t, "idle")
    /\ FlushFrame /\ UNCHANGED <<front, last, asked>>

(* Wrong: leaves the wire's writes to the next poll.                       *)
FlushEngineOnly(f) ==
    /\ Calm
    /\ http = "up"
    /\ phase = "ready" /\ db # "none"
    /\ Pc(f) = "idle"
    /\ asked' = [asked EXCEPT ![f] = applied]
    /\ Go(f, "flush")
    /\ FlushFrame /\ UNCHANGED <<front, last, dirty, commit, faults, excused>>

(* POST /flush; 503 unless ready.                                          *)
FlushNow(f) ==
    /\ Calm
    /\ http = "up"
    /\ phase = "ready" /\ db # "none"
    /\ Pc(f) = "idle"
    /\ asked' = [asked EXCEPT ![f] = applied]
    /\ FlushWireWrites(f, "flush")
    /\ FlushFrame /\ UNCHANGED <<front, last>>

(* Its second half, db.flush().                                            *)
FlushEngine(f) ==
    /\ Pc(f) = "flush"
    /\ \/ /\ db # "up"
          /\ Go(f, "idle")          \* an error, and the caller may retry
          /\ UNCHANGED commit
       \/ /\ db = "up" /\ ~dirty
          /\ Go(f, "ok")
          /\ UNCHANGED commit
       \/ /\ db = "up" /\ dirty
          /\ JoinCommit
          /\ Go(f, "flushing")
    /\ FlushFrame /\ UNCHANGED <<front, last, dirty, asked, faults, excused>>

----------------------------------------------------------------------------
(* The engine.                                                             *)

CommitRead ==
    /\ Calm
    /\ commit.phase = "pacing"
    /\ commit' = [phase |-> "uploading", upto |-> applied]
    /\ UNCHANGED <<bootVars, wireVars, http, last, db, lease, dirty, durable, fenced, at, book>>

(* Where a caller goes when the commit it awaits settles.                  *)
Woken(f, ok) ==
    CASE Pc(f) = "waiting" /\ f \in Tick -> At("idle")
      [] Pc(f) = "waiting" /\ f \in Call -> At("flush")
      [] Pc(f) = "waiting" /\ f \in Sig  -> At("flushed")
      [] Pc(f) = "flushing"              -> At(IF ok THEN "ok" ELSE "idle")
      [] OTHER                           -> at[f]

Waiting == {f \in Caller : Pc(f) = "waiting"}

(* The counts of those who await it, in order.                             *)
Baseline == IF Waiting = {} THEN last ELSE Max({at[f].w : f \in Waiting})

(* Done: dirty is cleared, whatever came meanwhile, and every poll that    *)
(* awaited it takes its count for the new baseline.                        *)
CommitDone ==
    /\ Calm
    /\ commit.phase = "uploading"
    /\ ~fenced
    /\ durable' = Max({commit.upto, durable})
    /\ dirty' = FALSE
    /\ commit' = NoCommit
    /\ at' = [f \in Caller |-> Woken(f, TRUE)]
    /\ last' = Baseline
    /\ UNCHANGED <<bootVars, wireVars, http, db, lease, fenced, book>>

(* The upload or the CAS fails; a fenced writer's always does.  When       *)
(* close() awaited it there is no other.                                   *)
Failure ==
    /\ Calm
    /\ commit.phase = "uploading"
    /\ IF fenced THEN UNCHANGED faults ELSE Fault
    /\ commit' = NoCommit
    /\ excused' = IF db = "closing" THEN excused \cup Unsaved ELSE excused
    /\ UNCHANGED <<bootVars, wireVars, http, db, lease, dirty, durable, fenced, applied, asked,
                   early>>

(* Wrong: a failed poll takes its count for the baseline all the same.     *)
FailAndForget ==
    /\ Failure
    /\ at' = [f \in Caller |-> Woken(f, FALSE)]
    /\ last' = Baseline

(* Wrong: who awaits a commit that fails is left waiting.                  *)
FailAlone == Failure /\ UNCHANGED <<at, last>>

CommitFails ==
    /\ Failure
    /\ at' = [f \in Caller |-> Woken(f, FALSE)]
    /\ UNCHANGED last

(* The lease lapses while the instance is idle, and a successor stamps the *)
(* manifest.                                                               *)
TakenOver ==
    /\ Calm
    /\ lease
    /\ lease' = FALSE
    /\ fenced' = TRUE
    /\ UNCHANGED <<bootVars, wireVars, http, last, db, dirty, commit, durable, at, book>>

----------------------------------------------------------------------------
(* shutdown(), once for each signal.                                       *)

Signal(s) ==
    /\ Calm
    /\ Pc(s) = "idle"
    /\ Signalled = 1..(s - 1)
    /\ ~Exited
    /\ timer' = FALSE
    /\ Go(s, IF rest /\ ~Stopping THEN "rest" ELSE "front")
    /\ UNCHANGED <<phase, bootAt, rest, wireVars, http, last, engineVars, book>>

(* pgrest.stop(): the child ends, and its connection with it.              *)
StopRest(s) ==
    /\ Calm
    /\ Pc(s) = "rest"
    /\ rest' = FALSE
    /\ Go(s, "front")
    /\ UNCHANGED <<phase, bootAt, timer, wireVars, http, last, engineVars, book>>

StopFrom(s, wait) ==
    /\ Pc(s) = "front"
    /\ stopped' = (stopped \/ phase # "restoring")
    /\ front' = IF front = "up" THEN "closing" ELSE front
    /\ early' = IF front = "none" THEN early \cup {"wire"} ELSE early
    /\ Go(s, IF wait THEN "ending" ELSE "counting")
    /\ UNCHANGED <<bootVars, conns, http, last, engineVars, applied, asked, faults, excused>>

(* Wrong: does not wait for the connections.                               *)
CutOff(s) == StopFrom(s, FALSE)

(* wire.stop(): a second call, or one before the listener is up, returns   *)
(* at once; else the listener accepts no more and its close() resolves     *)
(* when the last connection has ended.                                     *)
StopWire(s) == StopFrom(s, front = "up" /\ ~stopped)

WireEnded(s) ==
    /\ Calm
    /\ Pc(s) = "ending"
    /\ Live = 0
    /\ front' = "none"
    /\ Go(s, "counting")
    /\ UNCHANGED <<bootVars, stopped, conns, http, last, engineVars, book>>

FinalFlush(s) ==
    /\ Pc(s) = "counting"
    /\ FlushWireWrites(s, "flushed")
    /\ FlushFrame /\ UNCHANGED <<front, last, asked>>

(* db.close(): returns at once on a closed engine, even while the call     *)
(* that closed it is still at work.                                        *)
CloseDb(s) ==
    /\ Pc(s) = "flushed"
    /\ IF db = "up"
       THEN /\ db' = "closing"
            /\ commit' = IF dirty /\ commit = NoCommit THEN Pacing ELSE commit
            /\ Go(s, "closing")
       ELSE /\ Go(s, "closed")
            /\ UNCHANGED <<db, commit>>
    /\ early' = IF db = "none" THEN early \cup {"engine"} ELSE early
    /\ UNCHANGED <<bootVars, wireVars, http, last, lease, dirty, durable, fenced, applied, asked,
                   faults, excused>>

(* The commit it awaited has settled: release the lease, end Postgres.     *)
Closed(s) ==
    /\ Calm
    /\ Pc(s) = "closing"
    /\ commit = NoCommit
    /\ db' = "closed"
    /\ lease' = FALSE
    /\ Go(s, "closed")
    /\ UNCHANGED <<bootVars, wireVars, http, last, dirty, commit, durable, fenced, book>>

(* http.close() waits for open requests, but a second shutdown finds       *)
(* nothing left to close.                                                  *)
CloseHttp(s) ==
    /\ Pc(s) = "closed"
    /\ http' = "closing"
    /\ Go(s, IF http = "up" THEN "http" ELSE "leaving")
    /\ UNCHANGED <<bootVars, wireVars, last, engineVars, book>>

(* process.exit(0) takes everything with it.                               *)
Exit(s) ==
    /\ Calm
    /\ Pc(s) \in {"http", "leaving"}
    /\ Pc(s) = "http" => \A f \in Call : Pc(f) \in {"idle", "ok"}
    /\ at' = [f \in Caller |-> IF f = s THEN At("exit")
                               ELSE IF Pc(f) \in {"idle", "ok"} THEN at[f]
                               ELSE At("gone")]
    /\ bootAt' = "end"
    /\ timer' = FALSE /\ rest' = FALSE
    /\ front' = "none" /\ conns' = {}
    /\ http' = "down"
    /\ db' = "closed"
    /\ commit' = NoCommit
    /\ UNCHANGED <<phase, stopped, last, lease, dirty, durable, fenced, book>>

ShutdownStep(s) ==
    \/ StopRest(s) \/ StopWire(s) \/ WireEnded(s) \/ FinalFlush(s) \/ CloseDb(s) \/ Closed(s)
    \/ CloseHttp(s) \/ Exit(s)

Next ==
    \/ Boot
    \/ \E c \in Conn : Connect(c) \/ Disconnect(c)
    \/ SqlWrite \/ WireWrite
    \/ \E t \in Tick : Poll(t)
    \/ \E f \in Call : FlushNow(f) \/ FlushEngine(f)
    \/ CommitRead \/ CommitDone \/ CommitFails
    \/ TakenOver
    \/ \E s \in Sig : Signal(s) \/ ShutdownStep(s)

Spec == Init /\ [][Next]_vars

(* The event loop runs every continuation and every I/O event that is      *)
(* ready, however many others there are (hence SF), the timer fires, the   *)
(* bucket answers; and clients that are connected leave some day, without  *)
(* which ShutdownEnds fails.                                               *)
LoopFair ==
    /\ SF_vars(Boot)
    /\ SF_vars(CommitRead) /\ SF_vars(CommitDone \/ CommitFails)
    /\ \A t \in Tick : SF_vars(Poll(t))
    /\ \A f \in Call : WF_vars(FlushEngine(f))
    /\ \A s \in Sig : SF_vars(ShutdownStep(s))

ClientsLeave == SF_vars(\E c \in Conn : Disconnect(c))

LoopSpec == Spec /\ LoopFair
FairSpec == LoopSpec /\ ClientsLeave

----------------------------------------------------------------------------
TypeOK ==
    /\ phase \in {"restoring", "wire", "postgrest", "ready", "error"}
    /\ bootAt \in {"lease", "restore", "wire", "rest", "end"}
    /\ front \in {"none", "up", "closing"}
    /\ conns \subseteq Conn /\ Live <= Budget
    /\ http \in {"up", "closing", "down"}
    /\ db \in {"none", "up", "closing", "closed"}
    /\ durable <= applied /\ commit.upto <= applied /\ last <= applied
    /\ commit # NoCommit => dirty
    /\ excused \subseteq 1..applied

Kept(n) == \A i \in 1..n : i <= durable \/ i \in excused

(* A shutdown that ran to its end, on one signal, has made every answered  *)
(* write durable, the wire's that never marked the engine dirty included,  *)
(* except those that fell in a window listed with Exposed and GiveUp.      *)
ShutdownKeeps ==
    Exited /\ Cardinality(Signalled) = 1 => Kept(applied)

(* {"flushed": true} covers every write answered before the request.       *)
FlushCovers == \A f \in Call : Pc(f) = "ok" => Kept(asked[f])

(* In a ready server every write beyond the baseline reaches the bucket by *)
(* itself, without a request, unless the server is shut down or has lost   *)
(* the database.                                                           *)
PollPersists ==
    \A n \in 1..MaxWrites :
        phase = "ready" /\ last < n /\ n <= applied
            ~> durable >= n \/ n \in excused \/ fenced \/ Signalled # {}

(* Every shutdown ends.                                                    *)
ShutdownEnds == Signalled # {} ~> Exited

(* What the README lists as scenarios: they fail.                          *)

(* /flush "lets an admin tool quiesce the instance": {"flushed": true}     *)
(* means that what was answered before is in the bucket.                   *)
FlushedIsDurable == \A f \in Call : Pc(f) = "ok" => asked[f] <= durable

(* shutdown(): "Flush + release lease".                                    *)
ExitFreesLease == Exited => ~lease

(* A shutdown without a fault saves everything it has answered.            *)
ExitSaves == Exited /\ early = {} /\ faults = 0 /\ ~fenced => durable = applied

(* ShutdownKeeps, however many signals came.                               *)
ExitKeeps == Exited => Kept(applied)
=============================================================================
