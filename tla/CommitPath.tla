----------------------------- MODULE CommitPath -----------------------------
(***************************************************************************)
(* The write and commit path inside one process                            *)
(* (src/packages/objectstore-fs/src/zeropg.ts): requests that write, the   *)
(* dirty flag, commits that requests share, the choice between incremental,*)
(* rebaselining and snapshot commits, and the WAL ranges they ship; with   *)
(* crashes, graceful closes and reboots from the bucket (restore.ts).      *)
(*                                                                         *)
(* JavaScript runs one callback at a time: an action is what runs between  *)
(* two awaits.  There is one writer at a time here; several are the        *)
(* subject of module ZeroPG.                                               *)
(*                                                                         *)
(* The WAL is a sequence of records and an LSN a position in it.  A record *)
(* knows the life that wrote it.  Each life starts with the end-of-        *)
(* recovery checkpoint; a page header ("pad") may follow the last record   *)
(* of a commit, counted by the flush LSN and not replayable by itself (the *)
(* 24-byte overshoot measured as E4 in adoptManifest).                     *)
(***************************************************************************)
EXTENDS Naturals, SequencesExt

CONSTANTS
    Req,          \* write requests, one row each
    Idle,         \* those that log nothing (CREATE TABLE IF NOT EXISTS)
    MaxOpen,      \* requests clients keep open at the same time
    Durability,   \* "strict" or "sleep"; "interval" is "sleep" with a timer
    CompactAt,    \* COMPACT_AT_SEGMENTS
    RebaseLimit,  \* COMPACT_AT_WAL_BYTES, in records
    LostReplies,  \* may a PUT land and its reply be lost?
    MaxLives,     \* bound: process lives
    MaxPads       \* bound: page headers per behaviour

ASSUME CommitPathAssumption ==
    /\ Idle \subseteq Req
    /\ MaxOpen \in Nat \ {0}
    /\ Durability \in {"strict", "sleep"}
    /\ CompactAt \in Nat
    /\ RebaseLimit \in Nat
    /\ LostReplies \in BOOLEAN
    /\ MaxLives \in Nat \ {0}
    /\ MaxPads \in Nat

VARIABLES
    manifest,   \* manifest.json: etag, commitSeq, snapshot, walFlushLsn, walSegments
    objs,       \* the data objects: key -> records
    state,      \* the process: "down", "up", "closing" or "bricked" (restore throws)
    life,       \* which life of the process this is
    pads,       \* page headers so far
    wal,        \* the local WAL
    man,        \* this.manifest and this.manifestEtag
    shipped,    \* this.lastShippedLsn
    lifeBase,   \* this.lifeBaseLsn
    dirty,      \* this.dirty
    force,      \* this.forceCompactNext
    commit,     \* this.commitInFlight: its phase, WAL range, object and new manifest
    waiters,    \* the requests awaiting it
    status      \* each request: "new", "applied", "waiting", "acked" or "failed"

bucket == <<manifest, objs>>
fields == <<man, shipped, lifeBase, dirty, force>>
vars == <<bucket, state, life, pads, wal, fields, commit, waiters, status>>

----------------------------------------------------------------------------
NoReq == "none"
Row(r)  == [what |-> "row", req |-> r, life |-> life]
Pad     == [what |-> "pad", req |-> NoReq, life |-> life]
Ckpt(n) == [what |-> "checkpoint", req |-> NoReq, life |-> n]

Rows(s) == {s[i].req : i \in {j \in DOMAIN s : s[j].what = "row"}}

ObjKey(kind, seq, token) == [kind |-> kind, seq |-> seq, token |-> token]

NoCommit == [phase |-> "none"]

(* Bodies of the segments of m, in order.                                  *)
Shipped(m) == FlattenSeq([i \in DOMAIN m.segs |-> objs[m.segs[i].key]])

(* What restoreSnapshotInto and applyWalSegments check: every object is    *)
(* there, the ranges join without a gap, sizes and CRCs agree.             *)
RestoreOk(m) ==
    /\ m.snap \in DOMAIN objs
    /\ \A i \in DOMAIN m.segs :
          /\ m.segs[i].start = IF i = 1 THEN m.base ELSE m.segs[i - 1].end
          /\ m.segs[i].key \in DOMAIN objs
          /\ objs[m.segs[i].key] = m.segs[i].body

(* The WAL stream a restore leaves in pg_wal: the snapshot's own, with the *)
(* segments laid over it from walFlushLsn on.                              *)
Restored(m) ==
    IF m.segs = <<>> THEN objs[m.snap]
                     ELSE SubSeq(objs[m.snap], 1, m.base) \o Shipped(m)

(* A record follows on from the one before it if the same life wrote both, *)
(* or if it is the checkpoint that opens a life.                           *)
Follows(s, i) == i = 1 \/ s[i].life = s[i - 1].life \/ s[i].what = "checkpoint"

(* Postgres replays up to the first record that does not follow on, and a  *)
(* page header at the end is no record.                                    *)
Replayed(s) ==
    LET torn == {i \in DOMAIN s : ~Follows(s, i)}
        n    == IF torn = {} THEN Len(s) ELSE Min(torn) - 1
    IN  SubSeq(s, 1, Max({k \in 0..n : k = 0 \/ s[k].what # "pad"}))

(* adoptManifest() by life n: the WAL after recovery.                      *)
Recovered(m, n) == Append(Replayed(Restored(m)), Ckpt(n))

----------------------------------------------------------------------------
(* The database as commitInitial() left it.                                *)
Init ==
    /\ manifest = [etag |-> 1, seq |-> 0, snap |-> ObjKey("snap", 0, 0), base |-> 0,
                   segs |-> <<>>]
    /\ objs = [k \in {ObjKey("snap", 0, 0)} |-> <<>>]
    /\ state = "down"
    /\ life = 0
    /\ pads = 0
    /\ wal = <<>>
    /\ man = manifest
    /\ shipped = 0
    /\ lifeBase = 0
    /\ dirty = FALSE
    /\ force = FALSE
    /\ commit = NoCommit
    /\ waiters = {}
    /\ status = [r \in Req |-> "new"]

(* boot() on an existing database.                                         *)
Boot ==
    /\ state = "down"
    /\ life < MaxLives
    /\ life' = life + 1
    /\ \/ /\ RestoreOk(manifest)
          /\ state' = "up"
          /\ man' = manifest
          /\ wal' = Recovered(manifest, life + 1)
          /\ shipped' = IF manifest.segs = <<>> THEN manifest.base ELSE Last(manifest.segs).end
          /\ lifeBase' = Len(wal')
          /\ force' = TRUE
       \/ /\ ~RestoreOk(manifest)
          /\ state' = "bricked"
          /\ UNCHANGED <<man, wal, shipped, lifeBase, force>>
    /\ dirty' = FALSE
    /\ UNCHANGED <<bucket, pads, commit, waiters, status>>

----------------------------------------------------------------------------
Opened == {r \in Req : status[r] \in {"applied", "waiting"}}

(* The status of a request whose process has ended under it.               *)
Cut(r) == IF r \in Opened THEN "failed" ELSE status[r]

(* pg.exec() returns: what the statement wrote is in the local WAL.        *)
Exec(r) ==
    /\ state \in {"up", "closing"}
    /\ status[r] = "new"
    /\ Cardinality(Opened) < MaxOpen
    /\ status' = [status EXCEPT ![r] = "applied"]
    /\ wal' = IF r \in Idle THEN wal ELSE Append(wal, Row(r))
    /\ UNCHANGED <<bucket, state, life, pads, fields, commit, waiters>>

(* afterWrite(): mark dirty; in strict mode call commit(), which throws on *)
(* a closed database, joins a commit under way or starts one.              *)
AfterWrite(r) ==
    /\ state \in {"up", "closing"}
    /\ status[r] = "applied"
    /\ dirty' = TRUE
    /\ \/ /\ Durability = "strict" /\ state = "up"
          /\ status' = [status EXCEPT ![r] = "waiting"]
          /\ waiters' = waiters \cup {r}
          /\ commit' = IF commit = NoCommit THEN [phase |-> "pacing"] ELSE commit
       \/ /\ Durability = "strict" /\ state = "closing"
          /\ status' = [status EXCEPT ![r] = "failed"]
          /\ UNCHANGED <<waiters, commit>>
       \/ /\ Durability = "sleep"
          /\ status' = [status EXCEPT ![r] = "acked"]
          /\ UNCHANGED <<waiters, commit>>
    /\ UNCHANGED <<bucket, state, life, pads, wal, man, shipped, lifeBase, force>>

(* flush(), from the interval timer or a caller.                           *)
Flush ==
    /\ state = "up"
    /\ dirty
    /\ commit = NoCommit
    /\ commit' = [phase |-> "pacing"]
    /\ UNCHANGED <<bucket, state, life, pads, wal, fields, waiters, status>>

----------------------------------------------------------------------------
(* Wrong: the waiters are never resumed.                                   *)
SettleNobody(outcome) ==
    /\ commit' = NoCommit
    /\ state' = IF state = "closing" THEN "down" ELSE state
    /\ UNCHANGED <<waiters, status>>

(* The commit's promise settles: commitInFlight is cleared and everybody   *)
(* who awaits it resumes.  A close() that waited for it ends the process,  *)
(* and a request that had not come to its commit() gets "closed" there.    *)
Settle(outcome) ==
    /\ commit' = NoCommit
    /\ waiters' = {}
    /\ status' = [r \in Req |-> IF r \in waiters THEN outcome
                               ELSE IF state = "closing" THEN Cut(r) ELSE status[r]]
    /\ state' = IF state = "closing" THEN "down" ELSE state

(* pg_current_wal_flush_lsn() may count a page header after the last       *)
(* record.  `end` below is the length of the result.                       *)
FlushedWal == {wal} \cup (IF pads < MaxPads THEN {Append(wal, Pad)} ELSE {})

(* The range [start, end) goes into one segment object.                    *)
ShipRange(start, flushed, keep) ==
    LET key  == ObjKey("wal", man.seq + 1, life)
        body == SubSeq(flushed, start + 1, Len(flushed))
        seg  == [key |-> key, start |-> start, end |-> Len(flushed), body |-> body]
    IN  /\ commit' = [phase |-> "uploading", key |-> key,
                      m |-> [man EXCEPT !.seq = @ + 1, !.segs = Append(keep, seg)]]
        /\ wal' = flushed
        /\ pads' = pads + (Len(flushed) - Len(wal))

(* A full snapshot, after a CHECKPOINT, whose record is a clean boundary;  *)
(* a second one in a row would make no difference.                         *)
Checkpointed == IF Last(wal).what = "checkpoint" THEN wal ELSE Append(wal, Ckpt(life))

Snapshot ==
    LET key == ObjKey("snap", man.seq + 1, life)
    IN  /\ wal' = Checkpointed
        /\ commit' = [phase |-> "uploading", key |-> key,
                      m |-> [man EXCEPT !.seq = @ + 1, !.snap = key,
                                        !.base = Len(Checkpointed), !.segs = <<>>]]
        /\ UNCHANGED pads

Nothing == /\ dirty' = FALSE
           /\ Settle("acked")
           /\ UNCHANGED <<bucket, life, pads, wal, man, shipped, lifeBase, force>>

(* Wrong by one record.                                                    *)
HardlyAnyGrowth == Len(wal) <= lifeBase + 1

NoGrowth == Len(wal) <= lifeBase

(* doCommit(): no WAL growth in this life.                                 *)
CommitNothing ==
    /\ commit.phase = "pacing"
    /\ NoGrowth
    /\ Nothing

(* Wrong: the first commit of a life appends to the inherited segments.    *)
AppendToInherited ==
    /\ commit.phase = "pacing"
    /\ ~NoGrowth
    /\ force
    /\ \E flushed \in FlushedWal :
          /\ Len(flushed) > shipped
          /\ ShipRange(shipped, flushed, man.segs)
    /\ UNCHANGED <<bucket, state, life, fields, waiters, status>>

(* Wrong: ships from where the last life stopped.                          *)
RebaselineFromShipped ==
    /\ commit.phase = "pacing"
    /\ ~NoGrowth
    /\ force
    /\ \E flushed \in FlushedWal :
          /\ Len(flushed) > shipped
          /\ Len(flushed) - man.base <= RebaseLimit
          /\ ShipRange(shipped, flushed, <<>>)
    /\ UNCHANGED <<bucket, state, life, fields, waiters, status>>

(* commitRebaseline(), for the first commit of a life.                     *)
CommitRebaseline ==
    /\ commit.phase = "pacing"
    /\ ~NoGrowth
    /\ force
    /\ \E flushed \in FlushedWal :
          /\ Len(flushed) > man.base
          /\ Len(flushed) - man.base <= RebaseLimit
          /\ ShipRange(man.base, flushed, <<>>)
    /\ UNCHANGED <<bucket, state, life, fields, waiters, status>>

(* commitIncremental(), with its 'empty' result.                           *)
CommitIncremental ==
    /\ commit.phase = "pacing"
    /\ ~NoGrowth
    /\ ~force
    /\ Len(man.segs) < CompactAt
    /\ \/ /\ Len(wal) = shipped
          /\ Nothing
       \/ /\ \E flushed \in FlushedWal :
                /\ Len(flushed) > shipped
                /\ ShipRange(shipped, flushed, man.segs)
          /\ UNCHANGED <<bucket, state, life, fields, waiters, status>>

(* commitSnapshot(): beyond the thresholds, and whenever the bytes to ship *)
(* never validate or have left the disk (readShippableWal gives null).     *)
CommitSnapshot ==
    /\ commit.phase = "pacing"
    /\ ~NoGrowth
    /\ Snapshot
    /\ UNCHANGED <<bucket, state, life, fields, waiters, status>>

----------------------------------------------------------------------------
(* The bytes of the object: a segment's were read before; the tar of a     *)
(* snapshot is read while it streams, and may catch later records.         *)
Bodies ==
    IF commit.key.kind = "wal" THEN {Last(commit.m.segs).body}
                               ELSE {SubSeq(wal, 1, n) : n \in commit.m.base..Len(wal)}

Upload ==
    /\ commit.phase = "uploading"
    /\ \E b \in Bodies :
          objs' = [k \in DOMAIN objs \cup {commit.key} |-> IF k = commit.key THEN b ELSE objs[k]]
    /\ \/ /\ commit' = [commit EXCEPT !.phase = "swapping"]
          /\ UNCHANGED <<state, waiters, status>>
       \/ /\ LostReplies
          /\ Settle("failed")
    /\ UNCHANGED <<manifest, life, pads, wal, fields>>

(* The fields advance only after the CAS.                                  *)
Advance ==
    /\ man' = manifest'
    /\ dirty' = FALSE
    /\ force' = FALSE
    /\ shipped' = IF manifest'.segs = <<>> THEN manifest'.base ELSE Last(manifest'.segs).end

(* Wrong: deletes segments the new manifest keeps.                         *)
EverySegment(old, new) == {s.key : s \in ToSet(old.segs)}

Superseded(old, new) ==
    {s.key : s \in ToSet(old.segs)} \ {s.key : s \in ToSet(new.segs)}

(* casManifest() and what follows it, the deletes of superseded segments   *)
(* included.                                                               *)
Swap ==
    /\ commit.phase = "swapping"
    /\ \/ /\ man.etag = manifest.etag
          /\ manifest' = [commit.m EXCEPT !.etag = manifest.etag + 1]
          /\ \/ /\ Advance
                /\ objs' = [k \in DOMAIN objs \ Superseded(man, manifest') |-> objs[k]]
                /\ Settle("acked")
             \/ /\ LostReplies
                /\ Settle("failed")
                /\ UNCHANGED <<objs, man, dirty, force, shipped>>
       \/ /\ man.etag # manifest.etag           \* 412: FencedError
          /\ Settle("failed")
          /\ UNCHANGED <<bucket, man, dirty, force, shipped>>
    /\ UNCHANGED <<life, pads, wal, lifeBase>>

----------------------------------------------------------------------------
(* close(): if dirty, the commit under way or else one more, then release. *)
Close ==
    /\ state = "up"
    /\ \/ /\ dirty
          /\ state' = "closing"
          /\ commit' = IF commit = NoCommit THEN [phase |-> "pacing"] ELSE commit
          /\ UNCHANGED status
       \/ /\ ~dirty /\ commit = NoCommit
          /\ state' = "down"
          /\ status' = [r \in Req |-> Cut(r)]
          /\ UNCHANGED commit
    /\ UNCHANGED <<bucket, life, pads, wal, fields, waiters>>

(* The process dies; open requests get no answer.                          *)
Crash ==
    /\ state \in {"up", "closing"}
    /\ state' = "down"
    /\ commit' = NoCommit
    /\ waiters' = {}
    /\ status' = [r \in Req |-> Cut(r)]
    /\ UNCHANGED <<bucket, life, pads, wal, fields>>

CommitStep ==
    \/ CommitNothing \/ CommitRebaseline \/ CommitIncremental \/ CommitSnapshot
    \/ Upload \/ Swap

Next ==
    \/ Boot \/ Flush \/ CommitStep \/ Close \/ Crash
    \/ \E r \in Req : Exec(r) \/ AfterWrite(r)

Spec == Init /\ [][Next]_vars

(* A running process resumes after every await: the event loop is fair.    *)
FairSpec ==
    /\ Spec
    /\ WF_vars(CommitStep)
    /\ \A r \in Req : WF_vars(AfterWrite(r))

----------------------------------------------------------------------------
Phases == {"none", "pacing", "uploading", "swapping"}

TypeOK ==
    /\ state \in {"down", "up", "closing", "bricked"}
    /\ life \in 0..MaxLives
    /\ pads \in 0..MaxPads
    /\ dirty \in BOOLEAN /\ force \in BOOLEAN
    /\ commit.phase \in Phases
    /\ waiters = {r \in Req : status[r] = "waiting"}
    /\ waiters # {} => commit # NoCommit
    /\ man.seq <= manifest.seq /\ man.etag <= manifest.etag
    /\ status \in [Req -> {"new", "applied", "waiting", "acked", "failed"}]

Durable == Rows(Replayed(Restored(manifest)))

(* Strict mode: a write that has returned is in the bucket, and replays.   *)
StrictAck ==
    Durability = "strict" => \A r \in Req \ Idle : status[r] = "acked" => r \in Durable

(* The bucket can be restored, between any two steps of any commit.        *)
Restorable == RestoreOk(manifest)

(* A database that is not dirty and not committing has nothing to lose:    *)
(* close(), an eviction or an idle stop may drop it.                       *)
CleanMeansDurable ==
    state = "up" /\ ~dirty /\ commit = NoCommit
        => \A r \in Req : status[r] = "acked" /\ r \in Rows(wal) => r \in Durable

(* What a restore replays is what some life wrote, in its order: the       *)
(* shipped ranges, from whatever lives, join into a prefix of the WAL of   *)
(* the life that is running, and nothing committed is cut off by a ragged  *)
(* end.                                                                    *)
BucketIsPrefix ==
    state \in {"up", "closing"} => IsPrefix(Replayed(Restored(manifest)), wal)

(* Every row the bucket has ever replayed it replays for good.             *)
NoRowIsLost == Durable \subseteq Durable'

ReplayGrows == [][NoRowIsLost]_vars

(* No caller waits forever on a commit.                                    *)
EveryWaiterAnswered == \A r \in Req : status[r] = "waiting" ~> status[r] # "waiting"
=============================================================================
