--------------------------- MODULE BucketReaders ---------------------------
(***************************************************************************)
(* What else works on the bucket of the writers of module ZeroPG, with no  *)
(* lease and no coordination: the garbage collector (collectGarbage() of   *)
(* src/packages/objectstore-fs/src/gc.ts), which deletes the objects that  *)
(* no manifest names, and a read replica (replica.ts), which follows       *)
(* manifest.json and builds what it names in a local directory.            *)
(*                                                                         *)
(* Wall-clock age is one bit per object: younger than graceMs or not.      *)
(***************************************************************************)
EXTENDS ZeroPG

CONSTANTS
    Refresher,       \* who calls refresh(): the poll timer, requests
    NumericEtags,    \* is an etag a number (GCS), or a hash (R2, S3)?
    Punctual         \* do an upload and its CAS, and one collection, take less than graceMs?

ASSUME ReadersAssumption == NumericEtags \in BOOLEAN /\ Punctual \in BOOLEAN

VARIABLES
    young,     \* the objects put less than graceMs ago
    gc,        \* the collection under way: where it is, what it keeps, what it is to delete
    rep,       \* what the replica serves: the manifest, the rows, is its directory intact?
    flight     \* the refreshes under way: how far, the manifest fetched, the rows restored

readerVars == <<young, gc, rep, flight>>
allVars == <<vars, readerVars>>

NoCollection == [at |-> "idle", refs |-> {}, todo |-> {}]
NoReplica == [at |-> "off", m |-> NoManifest, rows |-> {}, intact |-> TRUE]
NoFlight == [at |-> "idle", m |-> NoManifest, rows |-> {}]

ReadersInit ==
    /\ Init
    /\ young = {}
    /\ gc = NoCollection
    /\ rep = NoReplica
    /\ flight = [f \in Refresher |-> NoFlight]

----------------------------------------------------------------------------
(* A step of a writer; the object it uploads is as young as can be.        *)
JustPut ==
    {pend[w].key : w \in {v \in Writer : pc[v] = "uploading" /\ pc'[v] \notin {"uploading", "dead"}}}
        \cup {SeedKey(w) : w \in {v \in Writer : pc[v] = "leasing" /\ pc'[v] = "seedput"}}

WriterStep ==
    /\ Next
    /\ young' = (young \cup JustPut) \cap DOMAIN objs'
    /\ UNCHANGED <<gc, rep, flight>>

InFlight(k) ==
    \E w \in Writer :
        \/ Uploading(w) /\ pend[w].key = k
        \/ pc[w] = "seedput" /\ SeedKey(w) = k

(* graceMs have passed since an object was put.                            *)
Age ==
    \E k \in young :
        /\ Punctual => gc.at = "idle" /\ ~InFlight(k)
        /\ young' = young \ {k}
        /\ UNCHANGED <<vars, gc, rep, flight>>

----------------------------------------------------------------------------
(* collectGarbage(): what the manifest names is kept; without a manifest   *)
(* nothing is done.                                                        *)
GcRead ==
    /\ gc.at = "idle"
    /\ manifest.etag # 0
    /\ gc' = [gc EXCEPT !.at = "list", !.refs = Refs(manifest)]
    /\ UNCHANGED <<vars, young, rep, flight>>

(* Wrong: the age of an object is not looked at.                           *)
AnyAge(k) == FALSE

(* The etag of an object is its age if it is a number.                     *)
Graced(k) == NumericEtags /\ k \in young

(* The listing of generations/, and what of it is to go.                   *)
GcList ==
    /\ gc.at = "list"
    /\ LET todo == {k \in DOMAIN objs \ gc.refs : ~Graced(k)}
       IN  gc' = IF todo = {} THEN NoCollection
                 ELSE [gc EXCEPT !.at = "delete", !.todo = todo]
    /\ UNCHANGED <<vars, young, rep, flight>>

(* One key after the other is deleted, whatever it holds by now.           *)
GcDelete ==
    /\ gc.at = "delete"
    /\ \E k \in gc.todo :
          /\ objs' = [x \in DOMAIN objs \ {k} |-> objs[x]]
          /\ young' = young \ {k}
          /\ gc' = IF gc.todo = {k} THEN NoCollection ELSE [gc EXCEPT !.todo = @ \ {k}]
    /\ UNCHANGED <<leaseVars, manifest, trash, pc, localVars, clientVars, rep, flight>>

Collect == GcRead \/ GcList \/ GcDelete

----------------------------------------------------------------------------
Fly(f, s) == flight' = [flight EXCEPT ![f] = s]

Landed(f) == Fly(f, NoFlight)

(* open(): needs a manifest, and begins where a refresh has fetched one.   *)
ReplicaOpen(f) ==
    /\ rep.at = "off"
    /\ \A g \in Refresher : flight[g] = NoFlight
    /\ manifest.etag # 0
    /\ Fly(f, [NoFlight EXCEPT !.at = "snap", !.m = manifest])
    /\ UNCHANGED <<vars, young, gc, rep>>

(* Wrong: every caller refreshes for itself.                               *)
RefreshAlone(f) ==
    /\ rep.at = "open"
    /\ flight[f] = NoFlight
    /\ manifest.etag # rep.m.etag
    /\ Fly(f, [NoFlight EXCEPT !.at = "snap", !.m = manifest])
    /\ UNCHANGED <<vars, young, gc, rep>>

(* refresh(): joins the one under way, if there is one; else head() and    *)
(* get() of manifest.json, either of which ends it if it shows nothing new.*)
Refresh(f) ==
    /\ rep.at = "open"
    /\ \A g \in Refresher : flight[g] = NoFlight
    /\ manifest.etag # rep.m.etag
    /\ Fly(f, [NoFlight EXCEPT !.at = "snap", !.m = manifest])
    /\ UNCHANGED <<vars, young, gc, rep>>

(* Wrong: the directory is named after the commit alone.                   *)
DirOfCommit(m) == m.seq

(* The directory of a manifest: "-<etag>-<commitSeq>", with NaN for an     *)
(* etag that is no number.                                                 *)
Dir(m) == IF NumericEtags THEN m.etag ELSE m.seq

SameDir(f) == rep.at = "open" /\ Dir(flight[f].m) = Dir(rep.m)

(* materialize(): the snapshot is unpacked into the directory ...          *)
FetchSnapshot(f) ==
    /\ flight[f].at = "snap"
    /\ rep' = [rep EXCEPT !.intact = @ /\ ~SameDir(f)]
    /\ IF flight[f].m.snap \in DOMAIN objs
       THEN Fly(f, [flight[f] EXCEPT !.at = "segs", !.rows = objs[flight[f].m.snap]])
       ELSE Landed(f)
    /\ UNCHANGED <<vars, young, gc>>

(* Wrong: a segment that is gone is skipped.                               *)
SomeThere(m) == \A e \in m.segs : e.key \in DOMAIN objs => objs[e.key] = e.body

SegmentsThere(m) == \A e \in m.segs : e.key \in DOMAIN objs /\ objs[e.key] = e.body

Replayed(m) == UNION {objs[k] : k \in SegKeys(m) \cap DOMAIN objs}

(* ... and the segments, each checked against the manifest; then what was  *)
(* built is served, and the directory served before removed.  A missing    *)
(* object or a wrong segment leaves what is served as it was.              *)
FetchSegments(f) ==
    /\ flight[f].at = "segs"
    /\ Landed(f)
    /\ IF SegmentsThere(flight[f].m)
       THEN rep' = [at |-> "open", m |-> flight[f].m, intact |-> ~SameDir(f),
                    rows |-> flight[f].rows \cup Replayed(flight[f].m)]
       ELSE UNCHANGED rep
    /\ UNCHANGED <<vars, young, gc>>

(* close() of the replica waits for the refresh under way.                 *)
ReplicaClose ==
    /\ rep.at = "open"
    /\ \A f \in Refresher : flight[f] = NoFlight
    /\ rep' = [NoReplica EXCEPT !.at = "closed"]
    /\ UNCHANGED <<vars, young, gc, flight>>

RefreshStep(f) == FetchSnapshot(f) \/ FetchSegments(f)

Replica ==
    \/ \E f \in Refresher : ReplicaOpen(f) \/ Refresh(f) \/ RefreshStep(f)
    \/ ReplicaClose

ReadersNext == WriterStep \/ Age \/ Collect \/ Replica

ReadersSpec == ReadersInit /\ [][ReadersNext]_allVars

----------------------------------------------------------------------------
ReadersTypeOK ==
    /\ young \subseteq DOMAIN objs
    /\ gc \in [at : {"idle", "list", "delete"}, refs : SUBSET Keys, todo : SUBSET Keys]
    /\ rep \in [at : {"off", "open", "closed"}, m : Manifests, rows : SUBSET Row,
                intact : BOOLEAN]
    /\ flight \in [Refresher -> [at : {"idle", "snap", "segs"},
                                 m : Manifests, rows : SUBSET Row]]

(* A commit is under way that will succeed, and name k.                    *)
MayBeNamed(k) == \E w \in Writer : Uploading(w) /\ CanSwap(w) /\ pend[w].key = k

(* The collector is never about to delete what the manifest names, its     *)
(* backup snapshot included, or what a commit has uploaded and is about to *)
(* name, although it read the manifest some commits ago ("a commit may     *)
(* have uploaded its snapshot but not yet CAS'd the manifest", gc.ts).     *)
CollectsGarbage ==
    \A k \in gc.todo : k \notin Refs(manifest) /\ ~MayBeNamed(k)

(* What the replica serves is the contents of a manifest that was          *)
(* committed, whole: no mixture of two commits, whatever is overwritten    *)
(* and deleted in the bucket while it restores.                            *)
ReplicaServesCommits == rep.at = "open" => rep.rows = Content(rep.m)

(* The replica never goes back to an earlier commit, however many ask it   *)
(* to refresh at once.                                                     *)
ReplicaNeverBack ==
    [][rep.at = "open" /\ rep'.at = "open" => rep.rows \subseteq rep'.rows
                                              /\ rep.m.etag <= rep'.m.etag]_allVars

(* The directory that is served is never restored into nor removed: "Build *)
(* the manifest's state in a fresh dir" (materialize).                     *)
FreshDir == rep.intact
=============================================================================
