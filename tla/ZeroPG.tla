------------------------------- MODULE ZeroPG -------------------------------
(***************************************************************************)
(* Any number of ZeroPG writers on one bucket                              *)
(* (src/packages/objectstore-fs/src/zeropg.ts, restore.ts), over the lease *)
(* of module Lease.  A writer boots (reads the manifest, takes the lease,  *)
(* re-reads the manifest, restores, raises its token), serves writes,      *)
(* commits them (uploads a data object, then swaps manifest.json by CAS)   *)
(* and closes, or crashes anywhere.  A writer whose lease has been taken   *)
(* over goes on: only the conditional writes stop it.                      *)
(*                                                                         *)
(* The contents of a database are the set of rows written to it.  A WAL    *)
(* segment carries the rows of its LSN range, a snapshot all rows so far.  *)
(* An LSN is thus a set of rows, and "the rows since x" a difference.      *)
(***************************************************************************)
EXTENDS Lease, FiniteSets

CONSTANTS
    Row,         \* the writes clients may make, each made once
    Idle,        \* those of statements that change nothing (idempotent DDL)
    Mortal,      \* the writers that may crash
    CompactAt,   \* COMPACT_AT_SEGMENTS (64 in the code)
    MaxStamps,   \* attempts of fenceStamp() (3 in the code)
    EarlyClose,  \* may close() come while a clean database is being compacted?
    Seeded,      \* does the bucket already hold a (cleanly closed) database?
    MaxVersions  \* bound: number of PUTs of manifest.json

ASSUME ZeroPGAssumption ==
    /\ Idle \subseteq Row
    /\ Mortal \subseteq Writer
    /\ CompactAt \in Nat
    /\ MaxStamps \in Nat \ {0}
    /\ EarlyClose \in BOOLEAN
    /\ Seeded \in BOOLEAN
    /\ MaxVersions \in Nat

VARIABLES
    manifest,    \* manifest.json in the bucket, with its etag
    objs,        \* the data objects in the bucket: key -> rows
    trash,       \* keys of deletes sent and not awaited (void store.delete)
    pc,          \* where each writer's process stands
    existing,    \* did the first manifest read of boot() find one?
    next,        \* what boot() does after the restore under way
    stamps,      \* attempt, the loop counter of fenceStamp()
    man,         \* this.manifest and this.manifestEtag
    db,          \* the rows in the local Postgres
    shipped,     \* this.lastShippedLsn
    dirty,       \* this.dirty
    force,       \* this.forceCompactNext
    pend,        \* the commit under way: key, body, new manifest, flush LSN
    closing,     \* this.closed
    issued,      \* rows already written by some client (for freshness)
    acked        \* rows whose commit() has returned

storeVars  == <<manifest, objs, trash>>
localVars  == <<existing, next, stamps, man, db, shipped, dirty, force, pend, closing>>
clientVars == <<issued, acked>>
vars == <<leaseVars, storeVars, pc, localVars, clientVars>>

----------------------------------------------------------------------------
Key(g, k, s, t) == [gen |-> g, kind |-> k, seq |-> s, token |-> t]

NoKey == Key(NoOne, "none", 0, 0)

(* A manifest.  `base` and the bodies of `segs` are what the named objects *)
(* held when the manifest was written: the CRC and the LSN range of a      *)
(* segment pin its body, nothing pins a snapshot's.                        *)
NoManifest ==
    [etag |-> 0, token |-> 0, gen |-> NoOne, seq |-> 0, snap |-> NoKey,
     base |-> {}, segs |-> {}, prev |-> NoKey]

SegKeys(m) == {e.key : e \in m.segs}

Content(m) == m.base \cup UNION {e.body : e \in m.segs}

NoCommit == [key |-> NoKey, body |-> {}, m |-> NoManifest, upto |-> {}]

(* What a first writer, no longer running, left: its empty snapshot.       *)
FirstKey == Key(NoOne, "snap", 0, 1)

FirstManifest == [NoManifest EXCEPT !.etag = 1, !.token = 1, !.snap = FirstKey]

Init ==
    /\ LeaseInit
    /\ manifest = IF Seeded THEN FirstManifest ELSE NoManifest
    /\ objs = [k \in IF Seeded THEN {FirstKey} ELSE {} |-> {}]
    /\ trash = {}
    /\ pc = [w \in Writer |-> "off"]
    /\ existing = [w \in Writer |-> FALSE]
    /\ next = [w \in Writer |-> "serving"]
    /\ stamps = [w \in Writer |-> 0]
    /\ man = [w \in Writer |-> NoManifest]
    /\ db = [w \in Writer |-> {}]
    /\ shipped = [w \in Writer |-> {}]
    /\ dirty = [w \in Writer |-> FALSE]
    /\ force = [w \in Writer |-> FALSE]
    /\ pend = [w \in Writer |-> NoCommit]
    /\ closing = [w \in Writer |-> FALSE]
    /\ issued = {}
    /\ acked = {}

----------------------------------------------------------------------------
(* The store: put() replaces, delete() is unconditional and idempotent.    *)
PutObj(k, body) == objs' = [x \in DOMAIN objs \cup {k} |-> IF x = k THEN body ELSE objs[x]]

Goto(w, p) == pc' = [pc EXCEPT ![w] = p]

(* A process ends, and its memory with it.                                 *)
Die(w) ==
    /\ Goto(w, "dead")
    /\ existing' = [existing EXCEPT ![w] = FALSE]
    /\ next' = [next EXCEPT ![w] = "serving"]
    /\ stamps' = [stamps EXCEPT ![w] = 0]
    /\ man' = [man EXCEPT ![w] = NoManifest]
    /\ db' = [db EXCEPT ![w] = {}]
    /\ shipped' = [shipped EXCEPT ![w] = {}]
    /\ dirty' = [dirty EXCEPT ![w] = FALSE]
    /\ force' = [force EXCEPT ![w] = FALSE]
    /\ pend' = [pend EXCEPT ![w] = NoCommit]
    /\ closing' = [closing EXCEPT ![w] = FALSE]

(* A PUT of manifest.json by w whose precondition holds.  If the reply is  *)
(* lost the caller sees a network error and its fields stay as they were.  *)
PutManifest(w, m) ==
    /\ manifest.etag < MaxVersions
    /\ manifest' = [m EXCEPT !.etag = manifest.etag + 1]

(* Answered 412: as for the lease.                                         *)
ManifestRefused(w, holds, m) ==
    \/ ~holds /\ UNCHANGED manifest
    \/ Resends /\ holds /\ PutManifest(w, m)

(* boot()'s own PUTs of the manifest: a lost reply fails the boot.         *)
Replied(w) ==
    \/ /\ man' = [man EXCEPT ![w] = manifest']
       /\ Goto(w, "serving")
       /\ UNCHANGED <<existing, next, stamps, db, shipped, dirty, force, pend, closing>>
    \/ LostReplies /\ Die(w)

(* Wrong: the manifest is put without a precondition.                      *)
SwapAlways(w) == TRUE

CanSwap(w) == man[w].etag = manifest.etag

----------------------------------------------------------------------------
(* boot(): read the manifest, if any, for the token floor.                 *)
BootRead(w) ==
    /\ pc[w] = "off"
    /\ AcquireStart(w, manifest.token)
    /\ existing' = [existing EXCEPT ![w] = manifest.etag # 0]
    /\ Goto(w, "leasing")
    /\ UNCHANGED <<storeVars, clientVars, next, stamps, man, db, shipped, dirty, force,
                   pend, closing>>

(* A boot that does not get the lease throws.                              *)
BootLease(w) ==
    /\ pc[w] = "leasing"
    /\ AcquireStep(w)
    /\ \/ lpc'[w] = "failed" /\ Die(w)
       \/ lpc'[w] # "failed" /\ UNCHANGED <<pc, localVars>>
    /\ UNCHANGED <<storeVars, clientVars>>

(* Read the manifest again, now that the lease is ours: the previous       *)
(* holder may have committed while we queued.                              *)
Reread(w) ==
    /\ pc[w] = "leasing"
    /\ lpc[w] = "held"
    /\ existing[w]
    /\ man' = [man EXCEPT ![w] = manifest]
    /\ next' = [next EXCEPT ![w] = IF tookOver[w] THEN "stamp" ELSE "upgrade"]
    /\ Goto(w, "restore")
    /\ UNCHANGED <<leaseVars, storeVars, clientVars, existing, stamps, db, shipped, dirty,
                   force, pend, closing>>

(* restoreSnapshotInto and applyWalSegments throw on a missing object, and *)
(* on a segment whose size or CRC is not the manifest's.                   *)
RestoreOk(m) ==
    /\ m.snap \in DOMAIN objs
    /\ \A e \in m.segs : e.key \in DOMAIN objs /\ objs[e.key] = e.body

(* Wrong: the segments are not applied.                                    *)
SnapshotOnly(m) == objs[m.snap]

Restored(m) == objs[m.snap] \cup UNION {e.body : e \in m.segs}

(* adoptManifest(): our state becomes what the bucket holds for man[w].    *)
Restore(w) ==
    /\ pc[w] = "restore"
    /\ \/ /\ RestoreOk(man[w])
          /\ next[w] # "dead"
          /\ db' = [db EXCEPT ![w] = Restored(man[w])]
          /\ shipped' = [shipped EXCEPT ![w] = Restored(man[w])]
          /\ force' = [force EXCEPT ![w] = TRUE]
          /\ Goto(w, next[w])
          /\ UNCHANGED <<existing, next, stamps, man, dirty, pend, closing>>
       \/ /\ ~RestoreOk(man[w]) \/ next[w] = "dead"
          /\ Die(w)
    /\ UNCHANGED <<leaseVars, storeVars, clientVars>>

(* After a clean acquisition: raise the lease's token above the manifest's *)
(* if it is not; being taken over meanwhile fails the boot.                *)
Upgrade(w) ==
    /\ pc[w] = "upgrade"
    /\ \/ /\ lz[w].token > man[w].token
          /\ Goto(w, "serving")
          /\ UNCHANGED <<leaseVars, localVars>>
       \/ /\ UpgradeToken(w, man[w].token)
          /\ \/ lz'[w].token > man[w].token /\ Goto(w, "serving") /\ UNCHANGED localVars
             \/ lz'[w].token <= man[w].token /\ Die(w)
    /\ UNCHANGED <<storeVars, clientVars>>

(* After a take-over: fenceStamp() writes our token into the manifest we   *)
(* adopted; if the manifest has moved, adopt the new one and try again.    *)
Stamp(w) ==
    /\ pc[w] = "stamp"
    /\ \/ /\ CanSwap(w)
          /\ PutManifest(w, [man[w] EXCEPT !.token = lz[w].token])
          /\ Replied(w)
       \/ /\ ManifestRefused(w, CanSwap(w), [man[w] EXCEPT !.token = lz[w].token])
          /\ Goto(w, "stampget")
          /\ UNCHANGED localVars
    /\ UNCHANGED <<leaseVars, objs, trash, clientVars>>

StampGet(w) ==
    /\ pc[w] = "stampget"
    /\ man' = [man EXCEPT ![w] = manifest]
    /\ stamps' = [stamps EXCEPT ![w] = @ + 1]
    /\ next' = [next EXCEPT ![w] = IF stamps[w] + 1 < MaxStamps THEN "stamp" ELSE "dead"]
    /\ Goto(w, "restore")
    /\ UNCHANGED <<leaseVars, storeVars, clientVars, existing, db, shipped, dirty, force,
                   pend, closing>>

(* A fresh database: upload the empty snapshot under a generation of our   *)
(* own (randomGeneration) ...                                              *)
SeedKey(w) == Key(w, "snap", 0, lz[w].token)

Seed(w) ==
    /\ pc[w] = "leasing"
    /\ lpc[w] = "held"
    /\ ~existing[w]
    /\ PutObj(SeedKey(w), {})
    /\ Goto(w, "seedput")
    /\ UNCHANGED <<leaseVars, manifest, trash, localVars, clientVars>>

(* ... then create the manifest if absent; losing that race adopts the     *)
(* winner's.                                                               *)
SeedManifest(w) ==
    [NoManifest EXCEPT !.token = lz[w].token, !.gen = w, !.snap = SeedKey(w)]

SeedPut(w) ==
    /\ pc[w] = "seedput"
    /\ \/ /\ manifest.etag = 0
          /\ PutManifest(w, SeedManifest(w))
          /\ Replied(w)
       \/ /\ ManifestRefused(w, manifest.etag = 0, SeedManifest(w))
          /\ Goto(w, "seedget")
          /\ UNCHANGED localVars
    /\ UNCHANGED <<leaseVars, objs, trash, clientVars>>

SeedGet(w) ==
    /\ pc[w] = "seedget"
    /\ man' = [man EXCEPT ![w] = manifest]
    /\ next' = [next EXCEPT ![w] = "serving"]
    /\ Goto(w, "restore")
    /\ UNCHANGED <<leaseVars, storeVars, clientVars, existing, stamps, db, shipped, dirty,
                   force, pend, closing>>

----------------------------------------------------------------------------
Open(w) == pc[w] \in {"serving", "uploading", "swapping"}

(* exec(), query() or transaction() writes a row and marks the database    *)
(* dirty, also while a commit is under way.                                *)
Write(w) ==
    /\ Open(w)
    /\ ~closing[w]
    /\ \E r \in Row \ issued :
          /\ issued' = issued \cup {r}
          /\ db' = [db EXCEPT ![w] = @ \cup ({r} \ Idle)]
    /\ dirty' = [dirty EXCEPT ![w] = TRUE]
    /\ UNCHANGED <<leaseVars, storeVars, pc, existing, next, stamps, man, shipped, force,
                   pend, closing, acked>>

(* The token a commit writes under: the lease's, or once that is dropped   *)
(* the one in the manifest we last saw.                                    *)
Token(w) == IF Held(w) THEN lz[w].token ELSE man[w].token

(* Wrong: no token in the key.                                             *)
UntokenedKey(w, kind) == Key(man[w].gen, kind, man[w].seq + 1, 0)

CommitKey(w, kind) == Key(man[w].gen, kind, man[w].seq + 1, Token(w))

(* The start of a commit: read the flush LSN and build the next manifest.  *)
Begin(w, key, body, m) ==
    /\ pc[w] = "serving"
    /\ pend' = [pend EXCEPT ![w] =
          [key |-> key, body |-> body, upto |-> db[w],
           m |-> [m EXCEPT !.seq = man[w].seq + 1, !.token = Token(w)]]]
    /\ Goto(w, "uploading")
    /\ UNCHANGED <<leaseVars, storeVars, clientVars, existing, next, stamps, man, db, shipped,
                   dirty, force, closing>>

(* commitRebaseline(), the first commit of a writer's life: one segment    *)
(* with everything since the snapshot replaces the inherited list.         *)
CommitRebaseline(w) ==
    LET key  == CommitKey(w, "wal")
        body == db[w] \ man[w].base
    IN  /\ dirty[w]
        /\ force[w]
        /\ body # {}
        /\ Begin(w, key, body, [man[w] EXCEPT !.segs = {[key |-> key, body |-> body]}])

(* commitIncremental(): a segment with what was written since the last one *)
(* joins the list.                                                         *)
CommitIncremental(w) ==
    LET key  == CommitKey(w, "wal")
        body == db[w] \ shipped[w]
    IN  /\ dirty[w]
        /\ ~force[w]
        /\ Cardinality(man[w].segs) < CompactAt
        /\ body # {}
        /\ Begin(w, key, body, [man[w] EXCEPT !.segs = @ \cup {[key |-> key, body |-> body]}])

(* commitSnapshot(): the fallback of the other two, and compact().         *)
CommitSnapshot(w) ==
    LET key == CommitKey(w, "snap")
    IN  /\ dirty[w] \/ (man[w].segs # {} /\ ~closing[w])
        /\ Begin(w, key, db[w],
                 [man[w] EXCEPT !.snap = key, !.base = db[w], !.segs = {},
                                !.prev = IF man[w].snap # key THEN man[w].snap ELSE @])

(* doCommit() with no WAL growth to ship: the dirty flag was idle.         *)
CommitNothing(w) ==
    /\ pc[w] = "serving"
    /\ dirty[w]
    /\ db[w] = shipped[w]
    /\ dirty' = [dirty EXCEPT ![w] = FALSE]
    /\ Goto(w, IF closing[w] THEN "closing" ELSE "serving")
    /\ UNCHANGED <<leaseVars, storeVars, clientVars, existing, next, stamps, man, db, shipped,
                   force, pend, closing>>

AfterCommit(w) ==
    /\ Goto(w, IF closing[w] THEN "closing" ELSE "serving")
    /\ pend' = [pend EXCEPT ![w] = NoCommit]

(* The data object lands.  If its reply is lost the commit throws.         *)
Upload(w) ==
    /\ pc[w] = "uploading"
    /\ PutObj(pend[w].key, pend[w].body)
    /\ \/ Goto(w, "swapping") /\ UNCHANGED pend
       \/ LostReplies /\ AfterCommit(w)
    /\ UNCHANGED <<leaseVars, manifest, trash, clientVars, existing, next, stamps, man, db,
                   shipped, dirty, force, closing>>

(* Wrong: deletes segments the new manifest keeps.                         *)
AllSegments(old, new) == SegKeys(old) \cup ({old.prev} \ {new.prev, NoKey})

(* Wrong: deletes the snapshot that is to be the backup.                   *)
OldSnapshot(old, new) ==
    (SegKeys(old) \ SegKeys(new)) \cup ({old.prev, old.snap} \ {new.snap, NoKey})

(* What a commit supersedes and deletes, without waiting.                  *)
Garbage(old, new) ==
    (SegKeys(old) \ SegKeys(new)) \cup ({old.prev} \ {new.prev, NoKey})

(* casManifest() and what follows it: on success the fields advance and    *)
(* every row up to the LSN read at the start is acknowledged; a failed     *)
(* precondition is a FencedError, and like a lost reply it leaves every    *)
(* field as it was.                                                        *)
Swap(w) ==
    /\ pc[w] = "swapping"
    /\ AfterCommit(w)
    /\ \/ /\ CanSwap(w)
          /\ PutManifest(w, pend[w].m)
          /\ \/ /\ man' = [man EXCEPT ![w] = manifest']
                /\ shipped' = [shipped EXCEPT ![w] = pend[w].upto]
                /\ dirty' = [dirty EXCEPT ![w] = FALSE]
                /\ force' = [force EXCEPT ![w] = FALSE]
                /\ trash' = trash \cup Garbage(man[w], pend[w].m)
                /\ acked' = acked \cup pend[w].upto
             \/ /\ LostReplies
                /\ UNCHANGED <<man, shipped, dirty, force, trash, acked>>
       \/ /\ ManifestRefused(w, CanSwap(w), pend[w].m)
          /\ UNCHANGED <<man, shipped, dirty, force, trash, acked>>
    /\ UNCHANGED <<leaseVars, objs, existing, next, stamps, db, closing, issued>>

(* A delete that was sent lands, at any later moment or never.             *)
DeleteLands ==
    \E k \in trash :
        /\ objs' = [x \in DOMAIN objs \ {k} |-> objs[x]]
        /\ trash' = trash \ {k}
        /\ UNCHANGED <<leaseVars, manifest, pc, localVars, clientVars>>

----------------------------------------------------------------------------
(* validateLease() on the request path.                                    *)
Validate(w) ==
    /\ Open(w)
    /\ ValidateStep(w)
    /\ UNCHANGED <<storeVars, pc, localVars, clientVars>>

(* close(): if dirty, wait for the commit under way or commit once more.   *)
Close(w) ==
    /\ Open(w)
    /\ ~closing[w]
    /\ EarlyClose \/ dirty[w] \/ pc[w] = "serving"
    /\ closing' = [closing EXCEPT ![w] = TRUE]
    /\ Goto(w, IF dirty[w] \/ pc[w] # "serving" THEN pc[w] ELSE "closing")
    /\ UNCHANGED <<leaseVars, storeVars, clientVars, existing, next, stamps, man, db, shipped,
                   dirty, force, pend>>

(* Then, whatever came of that, release the lease.  Nobody waits for the   *)
(* compact() of a database that is not dirty: it runs on beside this.      *)
Release(w) ==
    /\ closing[w]
    /\ pc[w] = "closing" \/ ~dirty[w]
    /\ ReleaseStep(w)
    /\ UNCHANGED <<storeVars, pc, localVars, clientVars>>

Exit(w) ==
    /\ pc[w] = "closing"
    /\ lpc[w] = "released"
    /\ Die(w)
    /\ UNCHANGED <<leaseVars, storeVars, clientVars>>

Crash(w) ==
    /\ w \in Mortal
    /\ pc[w] \notin {"off", "dead"}
    /\ LeaseCrash(w)
    /\ Die(w)
    /\ UNCHANGED <<storeVars, clientVars>>

TtlPasses == Expire /\ UNCHANGED <<storeVars, pc, localVars, clientVars>>

----------------------------------------------------------------------------
Boot(w) ==
    \/ BootRead(w) \/ BootLease(w) \/ Reread(w) \/ Restore(w) \/ Upgrade(w)
    \/ Stamp(w) \/ StampGet(w) \/ Seed(w) \/ SeedPut(w) \/ SeedGet(w)

Commit(w) ==
    \/ CommitRebaseline(w) \/ CommitIncremental(w) \/ CommitSnapshot(w) \/ CommitNothing(w)
    \/ Upload(w) \/ Swap(w)

Next ==
    \/ \E w \in Writer :
          \/ Boot(w) \/ Commit(w) \/ Write(w) \/ Validate(w)
          \/ Close(w) \/ Release(w) \/ Exit(w) \/ Crash(w)
    \/ DeleteLands
    \/ TtlPasses

Spec == Init /\ [][Next]_vars

----------------------------------------------------------------------------
Keys == [gen : Writer \cup {NoOne}, kind : {"snap", "wal", "none"}, seq : Nat, token : Nat]

Manifests ==
    [etag : Nat, token : Nat, gen : Writer \cup {NoOne}, seq : Nat, snap : Keys,
     base : SUBSET Row, segs : SUBSET [key : Keys, body : SUBSET Row], prev : Keys]

Commits == [key : Keys, body : SUBSET Row, m : Manifests, upto : SUBSET Row]

Pcs == {"off", "leasing", "restore", "upgrade", "stamp", "stampget", "seedput", "seedget",
        "serving", "uploading", "swapping", "closing", "dead"}

StoreTypeOK ==
    /\ manifest \in Manifests
    /\ DOMAIN objs \subseteq Keys
    /\ \A k \in DOMAIN objs : objs[k] \subseteq Row
    /\ trash \subseteq Keys

ProcessTypeOK ==
    /\ pc \in [Writer -> Pcs]
    /\ existing \in [Writer -> BOOLEAN]
    /\ next \in [Writer -> {"upgrade", "stamp", "serving", "dead"}]
    /\ stamps \in [Writer -> Nat]
    /\ man \in [Writer -> Manifests]
    /\ db \in [Writer -> SUBSET Row]
    /\ shipped \in [Writer -> SUBSET Row]
    /\ dirty \in [Writer -> BOOLEAN]
    /\ force \in [Writer -> BOOLEAN]
    /\ pend \in [Writer -> Commits]
    /\ closing \in [Writer -> BOOLEAN]

ClientTypeOK == issued \subseteq Row /\ acked \subseteq Row

TypeOK == LeaseTypeOK /\ StoreTypeOK /\ ProcessTypeOK /\ ClientTypeOK

----------------------------------------------------------------------------
(* A row whose commit has returned is in the contents of the manifest, and *)
(* so in what the next writer is to restore: no take-over, zombie, crash   *)
(* or lost reply undoes an acknowledged commit.                            *)
AckedDurable == acked \subseteq Content(manifest)

(* The bucket can always be restored: every object the manifest names is   *)
(* there, every segment is the one the manifest describes, and the         *)
(* restored rows include every acknowledged one.                           *)
Restorable ==
    manifest.etag # 0 => RestoreOk(manifest) /\ acked \subseteq Restored(manifest)

Refs(m) == {m.snap, m.prev} \cup SegKeys(m)

(* No delete under way is of an object the manifest names, its backup      *)
(* snapshot included.                                                      *)
TrashIsGarbage == trash \cap Refs(manifest) = {}

Uploading(w) == pc[w] \in {"uploading", "swapping"}

(* What tokens in keys are for: no two commits under way write the same    *)
(* object, and none writes one the manifest already names.                 *)
NoKeyClash ==
    \A w \in Writer : Uploading(w) =>
        /\ pend[w].key \notin Refs(manifest)
        /\ \A v \in Writer \ {w} : Uploading(v) => pend[v].key # pend[w].key

(* An upload never replaces an object the manifest names: "a fenced        *)
(* zombie's in-flight upload then lands at a key nobody references"        *)
(* (snapshotKeyFor).                                                       *)
UploadsMissManifest ==
    [][\A w \in Writer : Upload(w) => pend[w].key \notin Refs(manifest)]_vars

(* The manifest's token never falls: "A zombie holding token 16 cannot     *)
(* overwrite a manifest advanced by token 17" (DESIGN.md).                 *)
TokenMonotone == [][manifest'.token >= manifest.token]_vars

(* The whole system implements the abstract log of module DurableLog: seen *)
(* through the manifest, any interleaving of boots, take-overs, zombies,   *)
(* commits and crashes is a database that only grows and only acknowledges *)
(* what it holds.                                                          *)
Log == INSTANCE DurableLog WITH contents <- Content(manifest)

ImplementsLog == Log!Spec
=============================================================================
