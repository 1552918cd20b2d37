---------------------------- MODULE FencingProofs ----------------------------
(***************************************************************************)
(* Theorems about the objects in the bucket (module ZeroPG), and about     *)
(* those who read and collect them (module BucketReaders).                 *)
(*                                                                         *)
(* First, no delete that was sent is of an object the manifest names, and, *)
(* as long as no two commits share an object key, the bucket can always be *)
(* restored.                                                               *)
(*                                                                         *)
(* This is an argument about sequence numbers.  A manifest names           *)
(* objects of its own commits and of earlier ones; a commit adds one       *)
(* object, of the next number; and what it supersedes, and deletes, is of  *)
(* an earlier number and of another kind than what it keeps.               *)
(*                                                                         *)
(* Then, when do two commits never share an object key (NoKeyClash of      *)
(* ZeroPG)?  What the fencing tokens are for, as a theorem: they keep the  *)
(* keys apart, for any number of writers that are taken over, become       *)
(* zombies or crash, provided that                                         *)
(*  - the store answers every PUT once (no lost replies, no resends) and   *)
(*    no take-over falls between the head() and the delete() of release(), *)
(*  - close() waits for a compact() under way, and the database exists,    *)
(*  - the manifest's token never falls (TokenMonotone).                    *)
(* Scenarios of the README show that each of these fails in the code, and  *)
(* what becomes of the keys then.                                          *)
(*                                                                         *)
(* A writer that has its lease writes under its token; one that has lost   *)
(* it, and does not know or has just found out, may go on for some time.   *)
(* So the invariant speaks of all tokens a writer may still write under.   *)
(*                                                                         *)
(* Last, the garbage collector and the read replica, which take no lease   *)
(* and depend on the tokens all the same: an object that no manifest names *)
(* stays unnamed because its token is spent, and what a replica is reading *)
(* is overwritten by nobody.                                               *)
(***************************************************************************)
EXTENDS BucketReaders, ZeroPGProofs

----------------------------------------------------------------------------
RefsInOrder(m) == \A k \in Refs(m) : k.seq <= m.seq

KindsApart(m) ==
    /\ \A k \in SegKeys(m) : k.kind = "wal"
    /\ m.snap.kind # "wal" /\ m.prev.kind # "wal"

WellFormed(m) == RefsInOrder(m) /\ KindsApart(m)

ManifestsWellFormed == WellFormed(manifest) /\ \A w \in Writer : WellFormed(man[w])

(* The manifest n of a commit on top of m: it adds a segment and keeps or  *)
(* drops others, or it has a new snapshot and the old one for a backup.    *)
Extends(m, n, key, body) ==
    /\ key.seq = m.seq + 1 /\ n.seq = m.seq + 1
    /\ \/ /\ key.kind = "wal" /\ n.snap = m.snap /\ n.prev = m.prev
          /\ \A e \in n.segs : e \in m.segs \/ e = [key |-> key, body |-> body]
       \/ key.kind = "snap" /\ n.snap = key /\ n.prev = m.snap /\ n.segs = {}

PendExtends ==
    \A w \in Writer : Uploading(w) =>
        /\ Extends(man[w], pend[w].m, pend[w].key, pend[w].body)
        /\ pend[w].m.token = pend[w].key.token

(* What was sent to be deleted is of earlier commits.                      *)
TrashIsOld ==
    /\ \A k \in trash : k.seq <= manifest.seq
    /\ manifest.etag = 0 => trash = {}

TrashInv ==
    /\ TypeOK /\ ManifestsMatch /\ ManifestsWellFormed /\ PendExtends
    /\ TrashIsOld /\ TrashIsGarbage

----------------------------------------------------------------------------
(* Manifests that differ in tokens and etags only name the same objects.   *)
LEMMA WellFormedOf ==
    ASSUME NEW m \in Manifests, NEW n \in Manifests, WellFormed(m),
           n.seq = m.seq, n.snap = m.snap, n.segs = m.segs, n.prev = m.prev
    PROVE  WellFormed(n) /\ Refs(n) = Refs(m)
BY DEF WellFormed, RefsInOrder, KindsApart, Refs, SegKeys

(* A bucket without commits names its generation snapshot, if that.        *)
LEMMA FirstWellFormed == WellFormed(NoManifest) /\ WellFormed(FirstManifest)
BY DEF WellFormed, RefsInOrder, KindsApart, Refs, SegKeys, NoManifest, FirstManifest, NoKey,
       FirstKey, Key

(* The manifest of a commit is well formed, it names one object that is    *)
(* new and others that were named before, and what the commit deletes it   *)
(* does not name.                                                          *)
LEMMA ExtendsWellFormed ==
    ASSUME NEW m \in Manifests, NEW n \in Manifests, NEW key \in Keys, NEW body \in SUBSET Row,
           WellFormed(m), Extends(m, n, key, body)
    PROVE  /\ WellFormed(n)
           /\ Refs(n) \subseteq Refs(m) \cup {key}
           /\ Garbage(m, n) \subseteq Refs(m) /\ Garbage(m, n) \cap Refs(n) = {}
<1>1. /\ m.seq \in Nat /\ n.seq \in Nat /\ m.snap \in Keys /\ m.prev \in Keys /\ n.snap \in Keys
      /\ n.prev \in Keys
  BY ManifestFields
<1>2. \A k \in Keys : k.seq \in Nat
  BY DEF Keys
<1>3. SegKeys(m) \subseteq Keys /\ SegKeys(n) \subseteq Keys
  BY ManifestFields
<1>4. /\ \A k \in SegKeys(m) : k.kind = "wal" /\ k.seq <= m.seq
      /\ m.snap.kind # "wal" /\ m.prev.kind # "wal"
      /\ m.snap.seq <= m.seq /\ m.prev.seq <= m.seq
  BY DEF WellFormed, RefsInOrder, KindsApart, Refs
<1>5. CASE /\ key.kind = "wal" /\ n.snap = m.snap /\ n.prev = m.prev
           /\ \A e \in n.segs : e \in m.segs \/ e = [key |-> key, body |-> body]
  <2>1. SegKeys(n) \subseteq SegKeys(m) \cup {key}
    BY <1>5 DEF SegKeys
  <2>2. Refs(n) \subseteq Refs(m) \cup {key}
    BY <1>5, <2>1 DEF Refs
  <2>3. RefsInOrder(n)
    <3>1. \A k \in Refs(m) : k.seq \in Nat /\ k.seq <= m.seq
      BY <1>1, <1>2, <1>3 DEF Refs, WellFormed, RefsInOrder
    <3>2. key.seq = m.seq + 1 /\ n.seq = m.seq + 1
      BY DEF Extends
    <3>3. \A k \in Refs(n) : k.seq <= n.seq
      BY <1>1, <2>2, <3>1, <3>2
    <3> QED
      BY <3>3 DEF RefsInOrder
  <2>4. KindsApart(n)
    BY <1>4, <1>5, <2>1 DEF KindsApart
  <2>5. Garbage(m, n) \subseteq SegKeys(m) \ SegKeys(n)
    BY <1>5 DEF Garbage
  <2>6. Garbage(m, n) \cap Refs(n) = {}
    BY <1>4, <1>5, <2>5 DEF Refs
  <2> QED
    BY <2>2, <2>3, <2>4, <2>5, <2>6 DEF WellFormed, Refs
<1>6. CASE key.kind = "snap" /\ n.snap = key /\ n.prev = m.snap /\ n.segs = {}
  <2>1. SegKeys(n) = {}
    BY <1>6 DEF SegKeys
  <2>2. Refs(n) = {key, m.snap}
    BY <1>6, <2>1 DEF Refs
  <2>3. RefsInOrder(n)
    BY <1>1, <1>2, <1>4, <2>2 DEF RefsInOrder, Extends
  <2>4. KindsApart(n)
    BY <1>4, <1>6, <2>1 DEF KindsApart
  <2>5. Garbage(m, n) \subseteq SegKeys(m) \cup ({m.prev} \ {m.snap})
    BY <1>6 DEF Garbage
  <2>6. m.prev # key
    BY <1>1, <1>2, <1>4 DEF Extends
  <2>7. Garbage(m, n) \cap Refs(n) = {}
    BY <1>4, <1>6, <2>2, <2>5, <2>6
  <2> QED
    BY <2>2, <2>3, <2>4, <2>5, <2>7 DEF WellFormed, Refs
<1> QED
  BY <1>5, <1>6 DEF Extends

----------------------------------------------------------------------------
(* Steps that leave manifest.json alone and start no commit: a writer may  *)
(* adopt the current manifest, forget its own, or give up a commit, and    *)
(* deletes may land.                                                       *)
LEMMA QuietTrash ==
    ASSUME TrashInv, TypeOK', UNCHANGED manifest, trash' \subseteq trash,
           \A v \in Writer : man'[v] \in {man[v], manifest, NoManifest},
           \A v \in Writer : Uploading(v)' => /\ Uploading(v)
                                              /\ man'[v] = man[v] /\ pend'[v] = pend[v]
    PROVE  TrashInv'
<1> USE DEF TrashInv
<1>1. ManifestsMatch'
  <2>1. manifest.etag \in Nat /\ NoManifest.etag = 0
    BY ManifestFields DEF TypeOK, StoreTypeOK, NoManifest
  <2>2. /\ manifest.etag = 0 => manifest = NoManifest
        /\ \A v \in Writer : /\ man[v].etag <= manifest.etag
                             /\ man[v].etag = manifest.etag => man[v] = manifest
    BY DEF ManifestsMatch, Current
  <2>3. \A v \in Writer : /\ man'[v].etag <= manifest.etag
                          /\ man'[v].etag = manifest.etag => man'[v] = manifest
    BY <2>1, <2>2
  <2> QED
    BY <2>2, <2>3 DEF ManifestsMatch, Current
<1>2. ManifestsWellFormed'
  BY FirstWellFormed DEF ManifestsWellFormed
<1>3. PendExtends'
  BY DEF PendExtends
<1>4. TrashIsOld' /\ TrashIsGarbage'
  BY DEF TrashIsOld, TrashIsGarbage
<1> QED
  BY <1>1, <1>2, <1>3, <1>4

(* A PUT of a manifest that names none of the objects sent to be deleted,  *)
(* before it or with it.                                                   *)
LEMMA PutTrash ==
    ASSUME TrashInv, TypeOK', NEW w \in Writer, NEW m \in Manifests, PutManifest(w, m),
           WellFormed(m), manifest.seq <= m.seq, trash \cap Refs(m) = {},
           \A k \in trash' : k \in trash \/ (k.seq <= m.seq /\ k \notin Refs(m)),
           \A v \in Writer : man'[v] \in {man[v], manifest', NoManifest},
           \A v \in Writer : Uploading(v)' => /\ Uploading(v)
                                              /\ man'[v] = man[v] /\ pend'[v] = pend[v]
    PROVE  TrashInv'
<1> USE DEF TrashInv
<1>1. /\ manifest \in Manifests /\ manifest' \in Manifests
      /\ manifest.etag \in Nat /\ manifest.seq \in Nat /\ m.seq \in Nat
  BY ManifestFields DEF TypeOK, StoreTypeOK
<1>2. /\ manifest'.etag = manifest.etag + 1 /\ manifest'.seq = m.seq
      /\ manifest'.snap = m.snap /\ manifest'.segs = m.segs /\ manifest'.prev = m.prev
  BY DEF PutManifest, Manifests
<1>3. WellFormed(manifest') /\ Refs(manifest') = Refs(m)
  BY <1>1, <1>2, WellFormedOf
<1>4. ManifestsMatch'
  <2>1. NoManifest.etag = 0
    BY DEF NoManifest
  <2>2. \A v \in Writer : man[v].etag \in Nat /\ man[v].etag <= manifest.etag
    BY ManifestFields DEF TypeOK, ProcessTypeOK, ManifestsMatch
  <2>3. \A v \in Writer : man'[v] = manifest' \/ man'[v].etag < manifest'.etag
    BY <1>1, <1>2, <2>1, <2>2
  <2>4. manifest'.etag \in Nat /\ manifest'.etag # 0
    BY <1>1, <1>2
  <2>5. \A v \in Writer : /\ man'[v].etag <= manifest'.etag
                          /\ man'[v].etag = manifest'.etag => man'[v] = manifest'
    <3>1. \A v \in Writer : man'[v].etag \in Nat
      BY ManifestFields DEF TypeOK, ProcessTypeOK
    <3> QED
      BY <2>3, <2>4, <3>1
  <2> QED
    BY <2>4, <2>5 DEF ManifestsMatch, Current
<1>5. ManifestsWellFormed'
  BY <1>3, FirstWellFormed DEF ManifestsWellFormed
<1>6. PendExtends'
  BY DEF PendExtends
<1>7. TrashIsOld'
  <2>1. \A k \in trash : k.seq \in Nat /\ k.seq <= manifest.seq
    BY DEF TrashIsOld, TypeOK, StoreTypeOK, Keys
  <2>2. \A k \in trash' : k.seq <= manifest'.seq
    BY <1>1, <1>2, <2>1
  <2> QED
    BY <1>1, <1>2, <2>2 DEF TrashIsOld
<1>8. TrashIsGarbage'
  BY <1>3 DEF TrashIsGarbage
<1> QED
  BY <1>4, <1>5, <1>6, <1>7, <1>8

(* The start of a commit.                                                  *)
LEMMA BeginTrash ==
    ASSUME TrashInv, TypeOK', NEW w \in Writer, NEW kind \in {"snap", "wal"},
           NEW body \in SUBSET Row, NEW m \in Manifests, Begin(w, CommitKey(w, kind), body, m),
           \/ /\ kind = "wal" /\ m.snap = man[w].snap /\ m.prev = man[w].prev
              /\ \A e \in m.segs :
                    e \in man[w].segs \/ e = [key |-> CommitKey(w, kind), body |-> body]
           \/ /\ kind = "snap" /\ m.snap = CommitKey(w, kind) /\ m.segs = {}
              /\ m.prev = man[w].snap
    PROVE  TrashInv'
<1> USE DEF TrashInv
<1> DEFINE n == [m EXCEPT !.seq = man[w].seq + 1, !.token = Token(w)]
           c == [key |-> CommitKey(w, kind), body |-> body, upto |-> db[w], m |-> n]
<1>1. /\ pend' = [pend EXCEPT ![w] = c] /\ Goto(w, "uploading")
      /\ UNCHANGED <<manifest, trash, man>>
  BY DEF Begin, storeVars
<1>2. /\ pend'[w] = c
      /\ \A v \in Writer \ {w} : pend'[v] = pend[v] /\ pc'[v] = pc[v]
  BY <1>1 DEF Goto, TypeOK, ProcessTypeOK
<1>3. /\ n.seq = man[w].seq + 1 /\ n.token = Token(w)
      /\ n.snap = m.snap /\ n.prev = m.prev /\ n.segs = m.segs
  BY DEF Manifests
<1>4. /\ CommitKey(w, kind).seq = man[w].seq + 1 /\ CommitKey(w, kind).token = Token(w)
      /\ CommitKey(w, kind).kind = kind
  BY DEF CommitKey, Key
<1> HIDE DEF n
<1>5. c.key = CommitKey(w, kind) /\ c.body = body /\ c.m = n
  OBVIOUS
<1> HIDE DEF c
<1>6. Extends(man[w], n, CommitKey(w, kind), body)
  BY <1>3, <1>4 DEF Extends
<1>7. PendExtends'
  <2> SUFFICES ASSUME NEW v \in Writer, Uploading(v)'
               PROVE  /\ Extends(man[v], pend'[v].m, pend'[v].key, pend'[v].body)
                      /\ pend'[v].m.token = pend'[v].key.token
    BY <1>1 DEF PendExtends
  <2>1. CASE v = w
    BY <1>2, <1>3, <1>4, <1>5, <1>6, <2>1
  <2>2. CASE v # w
    BY <1>2, <2>2 DEF PendExtends, Uploading
  <2> QED
    BY <2>1, <2>2
<1>8. ManifestsMatch' /\ ManifestsWellFormed' /\ TrashIsOld' /\ TrashIsGarbage'
  BY <1>1 DEF ManifestsMatch, Current, ManifestsWellFormed, TrashIsOld, TrashIsGarbage
<1> QED
  BY <1>7, <1>8

(* The three kinds of commit: a segment, a segment in place of the others, *)
(* a snapshot.                                                             *)
LEMMA CommitStartTrash ==
    ASSUME TrashInv, TypeOK', NEW w \in Writer,
           CommitRebaseline(w) \/ CommitIncremental(w) \/ CommitSnapshot(w)
    PROVE  TrashInv'
<1>1. /\ man[w] \in Manifests /\ db[w] \in SUBSET Row
      /\ CommitKey(w, "wal") \in Keys /\ CommitKey(w, "snap") \in Keys
      /\ man[w].snap \in Keys /\ man[w].seq \in Nat
  BY TokenType, ManifestFields DEF TrashInv, TypeOK, ProcessTypeOK
<1>2. CASE CommitRebaseline(w)
  <2> DEFINE key  == CommitKey(w, "wal")
             body == db[w] \ man[w].base
             m    == [man[w] EXCEPT !.segs = {[key |-> key, body |-> body]}]
  <2>1. m \in Manifests /\ m.snap = man[w].snap /\ m.prev = man[w].prev
        /\ \A e \in m.segs : e = [key |-> key, body |-> body]
    BY <1>1, SegmentType DEF Manifests
  <2>2. Begin(w, key, body, m)
    BY <1>2 DEF CommitRebaseline
  <2>3. body \in SUBSET Row
    BY <1>1
  <2> HIDE DEF m, body
  <2> QED
    BY <2>1, <2>2, <2>3, BeginTrash
<1>3. CASE CommitIncremental(w)
  <2> DEFINE key  == CommitKey(w, "wal")
             body == db[w] \ shipped[w]
             m    == [man[w] EXCEPT !.segs = @ \cup {[key |-> key, body |-> body]}]
  <2>1. m \in Manifests /\ m.snap = man[w].snap /\ m.prev = man[w].prev
        /\ \A e \in m.segs : e \in man[w].segs \/ e = [key |-> key, body |-> body]
    BY <1>1, SegmentType DEF Manifests
  <2>2. Begin(w, key, body, m)
    BY <1>3 DEF CommitIncremental
  <2>3. body \in SUBSET Row
    BY <1>1
  <2> HIDE DEF m, body
  <2> QED
    BY <2>1, <2>2, <2>3, BeginTrash
<1>4. CASE CommitSnapshot(w)
  <2> DEFINE key == CommitKey(w, "snap")
             m   == [man[w] EXCEPT !.snap = key, !.base = db[w], !.segs = {},
                                   !.prev = IF man[w].snap # key THEN man[w].snap ELSE @]
  <2>1. man[w].snap # key
    <3>1. man[w].snap.seq <= man[w].seq
      BY DEF TrashInv, ManifestsWellFormed, WellFormed, RefsInOrder, Refs
    <3>2. key.seq = man[w].seq + 1
      BY DEF CommitKey, Key
    <3> QED
      BY <1>1, <3>1, <3>2 DEF Keys
  <2>2. m \in Manifests /\ m.snap = key /\ m.segs = {} /\ m.prev = man[w].snap
    BY <1>1, <2>1 DEF Manifests
  <2>3. Begin(w, key, db[w], m)
    BY <1>4 DEF CommitSnapshot
  <2> HIDE DEF m
  <2> QED
    BY <1>1, <2>2, <2>3, BeginTrash
<1> QED
  BY <1>2, <1>3, <1>4

(* The steps of boot().                                                    *)
LEMMA BootTrash ==
    ASSUME TrashInv, TypeOK', NEW w \in Writer, Boot(w)
    PROVE  TrashInv'
<1> USE DEF TrashInv
<1>1. /\ pc \in [Writer -> Pcs] /\ man \in [Writer -> Manifests] /\ manifest \in Manifests
      /\ next \in [Writer -> {"upgrade", "stamp", "serving", "dead"}]
      /\ pend \in [Writer -> Commits] /\ lz[w].token \in Nat
  BY FieldTypes DEF TypeOK, StoreTypeOK, ProcessTypeOK
<1>2. /\ pc[w] \notin {"uploading", "swapping"}
      /\ \A v \in Writer \ {w} : pc'[v] = pc[v] /\ pend'[v] = pend[v] /\ man'[v] = man[v]
      /\ pc'[w] \notin {"uploading", "swapping"}
      /\ man'[w] \in {man[w], manifest', NoManifest}
      /\ trash' = trash
  BY <1>1 DEF Boot, BootRead, BootLease, Reread, Restore, Upgrade, Stamp, StampGet, Seed, SeedPut,
              SeedGet, Replied, Die, Goto, localVars, storeVars
<1>3. \A v \in Writer : Uploading(v)' => /\ Uploading(v)
                                         /\ man'[v] = man[v] /\ pend'[v] = pend[v]
  BY <1>2 DEF Uploading
<1>4. \A v \in Writer : man'[v] \in {man[v], manifest', NoManifest}
  BY <1>2
<1>5. CASE UNCHANGED manifest
  BY <1>2, <1>3, <1>4, <1>5, QuietTrash
<1>6. ASSUME Stamp(w), CanSwap(w), PutManifest(w, [man[w] EXCEPT !.token = lz[w].token])
      PROVE  TrashInv'
  <2> DEFINE m == [man[w] EXCEPT !.token = lz[w].token]
  <2>1. man[w] = manifest
    BY <1>6 DEF CanSwap, ManifestsMatch, Current
  <2>2. /\ m \in Manifests /\ m.seq = manifest.seq
        /\ m.snap = manifest.snap /\ m.segs = manifest.segs /\ m.prev = manifest.prev
    BY <1>1, <2>1 DEF Manifests
  <2>3. PutManifest(w, m)
    BY <1>6
  <2> HIDE DEF m
  <2>4. WellFormed(m) /\ Refs(m) = Refs(manifest)
    BY <1>1, <2>2, WellFormedOf DEF ManifestsWellFormed
  <2>5. manifest.seq <= m.seq
    BY <1>1, <2>2, ManifestFields
  <2>6. trash \cap Refs(m) = {} /\ \A k \in trash' : k \in trash
    BY <1>2, <2>4 DEF TrashIsGarbage
  <2> QED
    BY <1>3, <1>4, <2>2, <2>3, <2>4, <2>5, <2>6, PutTrash
<1>7. ASSUME SeedPut(w), manifest.etag = 0, PutManifest(w, SeedManifest(w))
      PROVE  TrashInv'
  <2> DEFINE m == SeedManifest(w)
  <2>1. manifest = NoManifest /\ trash = {}
    BY <1>7 DEF ManifestsMatch, TrashIsOld
  <2>2. SeedKey(w) \in Keys /\ SeedKey(w).kind = "snap" /\ SeedKey(w).seq = 0
    BY <1>1 DEF SeedKey, Key, Keys
  <2>3. /\ m \in Manifests /\ m.seq = 0 /\ m.snap = SeedKey(w) /\ m.segs = {}
        /\ m.prev = NoKey
    BY <1>1, <2>2, NoManifestType DEF SeedManifest, NoManifest, Manifests
  <2>4. PutManifest(w, m)
    BY <1>7
  <2> HIDE DEF m
  <2>5. WellFormed(m)
    BY <2>2, <2>3 DEF WellFormed, RefsInOrder, KindsApart, Refs, SegKeys, NoKey, Key
  <2>6. manifest.seq <= m.seq
    BY <2>1, <2>3 DEF NoManifest
  <2> QED
    BY <1>2, <1>3, <1>4, <2>1, <2>3, <2>4, <2>5, <2>6, PutTrash
<1>8. \/ UNCHANGED manifest
      \/ /\ Stamp(w) /\ CanSwap(w)
         /\ PutManifest(w, [man[w] EXCEPT !.token = lz[w].token])
      \/ SeedPut(w) /\ manifest.etag = 0 /\ PutManifest(w, SeedManifest(w))
  BY DEF Boot, BootRead, BootLease, Reread, Restore, Upgrade, Stamp, StampGet, Seed, SeedPut,
         SeedGet, ManifestRefused, storeVars
<1> QED
  BY <1>5, <1>6, <1>7, <1>8

(* The steps of a commit.                                                  *)
LEMMA CommitTrash ==
    ASSUME TrashInv, TypeOK', NEW w \in Writer, Commit(w)
    PROVE  TrashInv'
<1> USE DEF TrashInv
<1>1. /\ pc \in [Writer -> Pcs] /\ man \in [Writer -> Manifests] /\ manifest \in Manifests
      /\ pend \in [Writer -> Commits]
  BY DEF TypeOK, StoreTypeOK, ProcessTypeOK
<1>2. CASE CommitNothing(w) \/ Upload(w)
  <2>1. /\ UNCHANGED <<manifest, man, trash>>
        /\ \A v \in Writer : Uploading(v)' => Uploading(v) /\ pend'[v] = pend[v]
    BY <1>1, <1>2 DEF CommitNothing, Upload, AfterCommit, Goto, Uploading, storeVars
  <2> QED
    BY <2>1, QuietTrash
<1>3. CASE Swap(w)
  <2>1. \A v \in Writer : Uploading(v)' =>
          Uploading(v) /\ man'[v] = man[v] /\ pend'[v] = pend[v]
    <3>1. \A v \in Writer \ {w} : pc'[v] = pc[v] /\ pend'[v] = pend[v] /\ man'[v] = man[v]
      BY <1>1, <1>3 DEF Swap, AfterCommit, Goto
    <3>2. pc'[w] \in {"closing", "serving"}
      BY <1>1, <1>3 DEF Swap, AfterCommit, Goto
    <3> QED
      BY <3>1, <3>2 DEF Uploading
  <2>2. \A v \in Writer : man'[v] \in {man[v], manifest', NoManifest}
    BY <1>1, <1>3 DEF Swap
  <2>3. CASE UNCHANGED <<manifest, trash>>
    BY <2>1, <2>2, <2>3, QuietTrash
  <2>4. ASSUME CanSwap(w), PutManifest(w, pend[w].m),
               trash' \subseteq trash \cup Garbage(man[w], pend[w].m)
        PROVE  TrashInv'
    <3> DEFINE m == pend[w].m
    <3>1. /\ m \in Manifests /\ pend[w].key \in Keys /\ pend[w].body \in SUBSET Row
          /\ Uploading(w)
      BY <1>1, <1>3 DEF Commits, Swap, Uploading
    <3>2. man[w] = manifest
      BY <2>4 DEF CanSwap, ManifestsMatch, Current
    <3>3. Extends(manifest, m, pend[w].key, pend[w].body)
      BY <3>1, <3>2 DEF PendExtends
    <3>4. PutManifest(w, m) /\ trash' \subseteq trash \cup Garbage(manifest, m)
      BY <2>4, <3>2
    <3> HIDE DEF m
    <3>5. /\ WellFormed(m) /\ Refs(m) \subseteq Refs(manifest) \cup {pend[w].key}
          /\ Garbage(manifest, m) \subseteq Refs(manifest)
          /\ Garbage(manifest, m) \cap Refs(m) = {}
      BY <1>1, <3>1, <3>3, ExtendsWellFormed DEF ManifestsWellFormed
    <3>6. manifest.seq \in Nat /\ m.seq = manifest.seq + 1 /\ pend[w].key.seq = m.seq
      BY <1>1, <3>3, ManifestFields DEF Extends
    <3>7. pend[w].key \notin trash
      BY <3>6 DEF TrashIsOld
    <3>8. trash \cap Refs(m) = {}
      BY <3>5, <3>7 DEF TrashIsGarbage
    <3>9. \A k \in Refs(manifest) : k.seq <= m.seq
      <4>1. \A k \in Refs(manifest) : k.seq \in Nat /\ k.seq <= manifest.seq
        <5>1. Refs(manifest) \subseteq Keys
          BY <1>1, ManifestFields DEF Refs
        <5> QED
          BY <5>1 DEF ManifestsWellFormed, WellFormed, RefsInOrder, Keys
      <4> QED
        BY <3>6, <4>1
    <3>10. \A k \in trash' : k \in trash \/ (k.seq <= m.seq /\ k \notin Refs(m))
      BY <3>4, <3>5, <3>9
    <3>11. manifest.seq <= m.seq
      BY <3>6
    <3> QED
      BY <2>1, <2>2, <3>1, <3>4, <3>5, <3>8, <3>10, <3>11, PutTrash
  <2> QED
    BY <1>3, <2>3, <2>4 DEF Swap, ManifestRefused
<1> QED
  BY <1>2, <1>3, CommitStartTrash DEF Commit

(* The other steps of a writer, deletes that land, and time.               *)
LEMMA OthersTrash ==
    ASSUME TrashInv, TypeOK',
           \/ \E w \in Writer : \/ Write(w) \/ Validate(w)
                               \/ Close(w) \/ Release(w) \/ Exit(w) \/ Crash(w)
           \/ DeleteLands \/ TtlPasses \/ UNCHANGED vars
    PROVE  TrashInv'
<1>1. pc \in [Writer -> Pcs] /\ man \in [Writer -> Manifests] /\ pend \in [Writer -> Commits]
  BY DEF TrashInv, TypeOK, ProcessTypeOK
<1>2. UNCHANGED manifest /\ trash' \subseteq trash
  BY DEF Write, Validate, Close, Release, Exit, Crash, DeleteLands, TtlPasses, vars, storeVars
<1>3. ASSUME NEW w \in Writer,
             \/ Write(w) \/ Validate(w) \/ Close(w) \/ Release(w) \/ Exit(w) \/ Crash(w)
      PROVE  \A v \in Writer : /\ man'[v] \in {man[v], NoManifest}
                               /\ Uploading(v)' => /\ Uploading(v)
                                                   /\ man'[v] = man[v] /\ pend'[v] = pend[v]
  <2>1. \A v \in Writer \ {w} : pc'[v] = pc[v] /\ pend'[v] = pend[v] /\ man'[v] = man[v]
    BY <1>1, <1>3 DEF Write, Validate, Close, Release, Exit, Crash, Die, Goto, localVars
  <2>2. \/ /\ pc'[w] = pc[w] \/ pc'[w] = "closing"
           /\ pend'[w] = pend[w] /\ man'[w] = man[w]
        \/ pc'[w] = "dead" /\ man'[w] = NoManifest
    BY <1>1, <1>3 DEF Write, Validate, Close, Release, Exit, Crash, Die, Goto, localVars
  <2> QED
    BY <2>1, <2>2 DEF Uploading
<1>4. CASE DeleteLands \/ TtlPasses \/ UNCHANGED vars
  <2>1. UNCHANGED <<pc, man, pend>>
    BY <1>4 DEF DeleteLands, TtlPasses, vars, localVars
  <2> QED
    BY <1>2, <2>1, QuietTrash DEF Uploading
<1> QED
  BY <1>2, <1>3, <1>4, QuietTrash

(* The invariant holds initially ...                                       *)
LEMMA InitTrash == Init => TrashInv
<1> SUFFICES ASSUME Init
             PROVE  TrashInv
  OBVIOUS
<1>1. ManifestsMatch
  BY DEF Init, ManifestsMatch, Current, NoManifest, FirstManifest
<1>2. ManifestsWellFormed
  BY FirstWellFormed DEF Init, ManifestsWellFormed
<1>3. PendExtends /\ TrashIsOld /\ TrashIsGarbage
  BY DEF Init, PendExtends, Uploading, TrashIsOld, TrashIsGarbage
<1> QED
  BY <1>1, <1>2, <1>3, InitType DEF TrashInv

(* ... and every step keeps it.                                            *)
LEMMA NextTrash ==
    ASSUME TrashInv, [Next]_vars
    PROVE  TrashInv'
<1>1. TypeOK'
  BY NextType DEF TrashInv
<1> QED
  BY <1>1, BootTrash, CommitTrash, OthersTrash DEF Next

(* A superseded object that compact() or a commit deletes, at whatever     *)
(* later moment the delete lands, is not named by the manifest of that     *)
(* moment, neither as snapshot, segment nor backup: for any writers,       *)
(* take-overs, lost replies and resends (commitSnapshot, commitRebaseline  *)
(* and commitIncremental of zeropg.ts).                                    *)
THEOREM DeletesMissManifest == Spec => []TrashIsGarbage
<1>1. TrashInv => TrashIsGarbage
  BY DEF TrashInv
<1> QED
  BY <1>1, InitTrash, NextTrash, PTL DEF Spec

----------------------------------------------------------------------------
(* The argument for restoring.  An object the manifest names was uploaded  *)
(* before the manifest was put; it is not deleted, by TrashIsGarbage, nor  *)
(* written again, by NoKeyClash.  The same holds in advance for the object *)
(* of a commit that can still swap: it is newer than all that is deleted.  *)

ObjectsPresent == manifest.etag # 0 => RestoreOk(manifest)

SwapReady == \A w \in Writer : pc[w] = "swapping" /\ Current(w) => pend[w].key \in DOMAIN objs

SeedReady ==
    \A w \in Writer : pc[w] = "seedput" /\ manifest.etag = 0 => SeedKey(w) \in DOMAIN objs

ClosingIsOpen == \A w \in Writer : closing[w] => Open(w) \/ pc[w] = "closing"

BootedHasManifest ==
    \A w \in Writer :
        existing[w] \/ pc[w] \notin {"off", "leasing", "seedput", "dead"} => manifest.etag # 0

ProcessInv == ClosingIsOpen /\ BootedHasManifest

RestoreInv ==
    /\ DurableInv /\ TrashInv
    /\ ObjectsPresent /\ SwapReady /\ SeedReady /\ ProcessInv

(* The fields of a writer's lease change by its own steps only.            *)
LEMMA LeaseIsOwn ==
    ASSUME LeaseTypeOK, NEW w \in Writer, NEW f,
           \/ AcquireStart(w, f) \/ UpgradeToken(w, f)
           \/ AcquireStep(w) \/ ValidateStep(w) \/ ReleaseStep(w) \/ LeaseCrash(w),
           NEW v \in Writer \ {w}
    PROVE  lz'[v] = lz[v]
<1>1. lz' = lz \/ (\E x : lz' = [lz EXCEPT ![w] = x])
  BY DEF AcquireStart, UpgradeToken, AcquireStep, ValidateStep, ReleaseStep, LeaseCrash, Create,
         Inspect, Recreate, TakeOver, Retry, AcquirePut, ValidateHead, ValidateCheck, RenewPut,
         ReleaseHead, ReleaseCompare, ReleaseDelete, CasHeld, Keep, Drop
<1>2. lz \in [Writer -> {Null} \cup [etag : Pos, token : Pos]]
  BY DEF LeaseTypeOK
<1> QED
  BY <1>1, <1>2

(* A writer is closing only while it serves, commits or closes.            *)
LEMMA NextClosing ==
    ASSUME TypeOK, ClosingIsOpen, [Next]_vars
    PROVE  ClosingIsOpen'
<1>1. pc \in [Writer -> Pcs] /\ closing \in [Writer -> BOOLEAN]
  BY DEF TypeOK, ProcessTypeOK
<1>2. \/ pc' = pc /\ closing' = closing
      \/ \E w \in Writer :
            /\ \A v \in Writer \ {w} : pc'[v] = pc[v] /\ closing'[v] = closing[v]
            /\ \/ ~closing'[w]
               \/ Open(w)' \/ pc'[w] = "closing"
               \/ ~Open(w) /\ pc[w] # "closing" /\ closing'[w] = closing[w]
  <2>1. CASE UNCHANGED vars \/ DeleteLands \/ TtlPasses
    BY <2>1 DEF vars, localVars, DeleteLands, TtlPasses
  <2>2. ASSUME NEW w \in Writer, Boot(w)
        PROVE  /\ \A v \in Writer \ {w} : pc'[v] = pc[v] /\ closing'[v] = closing[v]
               /\ \/ ~closing'[w]
                  \/ ~Open(w) /\ pc[w] # "closing" /\ closing'[w] = closing[w]
    BY <1>1, <2>2 DEF Boot, BootRead, BootLease, Reread, Restore, Upgrade, Stamp, StampGet, Seed,
       SeedPut, SeedGet, Replied, Die, Goto, localVars, Open
  <2>3. ASSUME NEW w \in Writer, Commit(w) \/ Close(w)
        PROVE  /\ \A v \in Writer \ {w} : pc'[v] = pc[v] /\ closing'[v] = closing[v]
               /\ Open(w)' \/ pc'[w] = "closing"
    BY <1>1, <2>3 DEF Commit, CommitRebaseline, CommitIncremental, CommitSnapshot, CommitNothing,
       Upload, Swap, Begin, AfterCommit, Close, Goto, Open
  <2>4. ASSUME NEW w \in Writer, Write(w) \/ Validate(w) \/ Release(w)
        PROVE  pc' = pc /\ closing' = closing
    BY <2>4 DEF Write, Validate, Release, localVars
  <2>5. ASSUME NEW w \in Writer, Exit(w) \/ Crash(w)
        PROVE  /\ \A v \in Writer \ {w} : pc'[v] = pc[v] /\ closing'[v] = closing[v]
               /\ ~closing'[w]
    BY <1>1, <2>5 DEF Exit, Crash, Die, Goto
  <2> QED
    BY <2>1, <2>2, <2>3, <2>4, <2>5 DEF Next
<1> QED
  BY <1>2 DEF ClosingIsOpen, Open

(* A writer past the restore has a manifest to commit to.                  *)
LEMMA NextBooted ==
    ASSUME TypeOK, BootedHasManifest, [Next]_vars
    PROVE  BootedHasManifest'
<1>1. /\ pc \in [Writer -> Pcs] /\ existing \in [Writer -> BOOLEAN]
      /\ next \in [Writer -> {"upgrade", "stamp", "serving", "dead"}]
      /\ manifest.etag \in Nat
  BY ManifestFields DEF TypeOK, StoreTypeOK, ProcessTypeOK
<1>2. manifest' = manifest \/ manifest'.etag # 0
  <2>1. \A m : manifest' = [m EXCEPT !.etag = manifest.etag + 1] /\ m \in Manifests
                 => manifest'.etag # 0
    BY <1>1 DEF Manifests
  <2>2. \/ manifest' = manifest
        \/ \E w \in Writer : \/ PutManifest(w, [man[w] EXCEPT !.token = lz[w].token])
                              \/ PutManifest(w, SeedManifest(w))
                              \/ PutManifest(w, pend[w].m)
    <3>1. CASE \E w \in Writer : Boot(w)
      BY <3>1 DEF Boot, BootRead, BootLease, Reread, Restore, Upgrade, Stamp, StampGet, Seed,
                  SeedPut, SeedGet, ManifestRefused, storeVars
    <3>2. CASE \E w \in Writer : Commit(w)
      BY <3>2 DEF Commit, CommitRebaseline, CommitIncremental, CommitSnapshot, CommitNothing, Begin,
                  Upload, Swap, ManifestRefused, storeVars
    <3>3. CASE \E w \in Writer : Write(w) \/ Validate(w) \/ Close(w) \/ Release(w) \/ Exit(w) \/ Crash(w)
      BY <3>3 DEF Write, Validate, Close, Release, Exit, Crash, storeVars
    <3>4. CASE DeleteLands \/ TtlPasses \/ UNCHANGED vars
      BY <3>4 DEF DeleteLands, TtlPasses, vars, storeVars
    <3> QED BY <3>1, <3>2, <3>3, <3>4 DEF Next
  <2>3. ASSUME NEW w \in Writer
        PROVE  /\ [man[w] EXCEPT !.token = lz[w].token] \in Manifests
               /\ SeedManifest(w) \in Manifests /\ pend[w].m \in Manifests
    <3>1. lz[w].token \in Nat /\ SeedKey(w) \in Keys
      BY FieldTypes DEF TypeOK, SeedKey, Key, Keys
    <3>2. [man[w] EXCEPT !.token = lz[w].token] \in Manifests
      BY <3>1 DEF TypeOK, ProcessTypeOK, Manifests
    <3>3. SeedManifest(w) \in Manifests
      BY <3>1, NoManifestType DEF SeedManifest, Manifests, NoManifest
    <3> QED
      BY <3>2, <3>3 DEF TypeOK, ProcessTypeOK, Commits
  <2> QED
    BY <2>1, <2>2, <2>3 DEF PutManifest
<1>3. CASE manifest'.etag # 0
  BY <1>3 DEF BootedHasManifest
<1>4. CASE manifest' = manifest /\ manifest.etag = 0
  <2>1. \A v \in Writer : ~existing[v] /\ pc[v] \in {"off", "leasing", "seedput", "dead"}
    BY <1>1, <1>4 DEF BootedHasManifest, Pcs
  <2>2. ASSUME NEW w \in Writer, Boot(w)
        PROVE  /\ \A v \in Writer \ {w} : pc'[v] = pc[v] /\ existing'[v] = existing[v]
               /\ ~existing'[w] /\ pc'[w] \in {"off", "leasing", "seedput", "dead"}
    <3>1. pc[w] \in {"off", "leasing", "seedput", "dead"} /\ ~existing[w]
      BY <2>1
    <3>2. CASE BootRead(w) \/ BootLease(w) \/ Seed(w)
      BY <1>1, <1>4, <3>1, <3>2 DEF BootRead, BootLease, Seed, Die, Goto, localVars
    <3>3. CASE SeedPut(w)
      <4>1. manifest'.etag # 0
        <5>1. PutManifest(w, SeedManifest(w))
          BY <1>4, <3>3 DEF SeedPut, ManifestRefused
        <5>2. SeedKey(w) \in Keys
          BY FieldTypes DEF TypeOK, SeedKey, Key, Keys
        <5>3. SeedManifest(w) \in Manifests
          BY <5>2, NoManifestType, FieldTypes DEF TypeOK, SeedManifest, Manifests, NoManifest
        <5> QED
          BY <1>1, <5>1, <5>3 DEF PutManifest, Manifests
      <4> QED
        BY <1>4, <4>1
    <3> QED
      BY <2>2, <3>1, <3>2, <3>3 DEF Boot, Reread, Restore, Upgrade, Stamp, StampGet, SeedGet
  <2>3. ASSUME NEW w \in Writer, ~Boot(w),
               \/ Commit(w) \/ Write(w) \/ Validate(w)
               \/ Close(w) \/ Release(w) \/ Exit(w) \/ Crash(w)
        PROVE  /\ \A v \in Writer \ {w} : pc'[v] = pc[v] /\ existing'[v] = existing[v]
               /\ ~existing'[w] /\ pc'[w] \in {"off", "leasing", "seedput", "dead"}
    BY <1>1, <2>1, <2>3 DEF Commit, CommitRebaseline, CommitIncremental, CommitSnapshot,
       CommitNothing, Begin, Upload, Swap, Write, Validate, Close, Release, Exit, Crash, Die,
       Goto, Open, localVars
  <2>4. CASE DeleteLands \/ TtlPasses \/ UNCHANGED vars
    <3>1. pc' = pc /\ existing' = existing
      BY <2>4 DEF DeleteLands, TtlPasses, vars, localVars
    <3> QED
      BY <2>1, <3>1 DEF BootedHasManifest
  <2>5. CASE \E w \in Writer : /\ \A v \in Writer \ {w} : pc'[v] = pc[v] /\ existing'[v] = existing[v]
                               /\ ~existing'[w] /\ pc'[w] \in {"off", "leasing", "seedput", "dead"}
    BY <2>1, <2>5 DEF BootedHasManifest
  <2> QED
    BY <2>2, <2>3, <2>4, <2>5 DEF Next
<1> QED
  BY <1>2, <1>3, <1>4

(* Steps that put no manifest, and take no object away but those that were *)
(* sent to be deleted.                                                     *)
LEMMA QuietRestore ==
    ASSUME RestoreInv, DurableInv', TrashInv', ProcessInv', UNCHANGED manifest,
           \A k \in DOMAIN objs : k \in trash \/ (k \in DOMAIN objs' /\ objs'[k] = objs[k]),
           \A v \in Writer : pc'[v] = "swapping" =>
               /\ pc[v] = "swapping" /\ pend'[v] = pend[v] /\ man'[v] = man[v],
           \A v \in Writer : pc'[v] = "seedput" => pc[v] = "seedput" /\ lz'[v] = lz[v]
    PROVE  RestoreInv'
<1> USE DEF RestoreInv
<1>1. ObjectsPresent'
  <2>1. \A k \in Refs(manifest) : k \notin trash
    BY DEF TrashInv, TrashIsGarbage
  <2>2. manifest.snap \in Refs(manifest) /\ \A e \in manifest.segs : e.key \in Refs(manifest)
    BY DEF Refs, SegKeys
  <2> QED
    BY <2>1, <2>2 DEF ObjectsPresent, RestoreOk
<1>2. SwapReady'
  <2> SUFFICES ASSUME NEW v \in Writer, pc'[v] = "swapping", Current(v)'
               PROVE  pend'[v].key \in DOMAIN objs'
    BY DEF SwapReady
  <2>1. /\ Current(v) /\ pc[v] = "swapping" /\ pend'[v] = pend[v]
    BY DEF Current
  <2>2. pend[v].key \in DOMAIN objs
    BY <2>1 DEF SwapReady
  <2>3. man[v] = manifest /\ man[v].seq \in Nat /\ pend[v].key.seq = man[v].seq + 1
    BY <2>1, ManifestFields DEF TrashInv, TypeOK, ProcessTypeOK, PendExtends, Extends, Uploading,
                               ManifestsMatch
  <2>4. pend[v].key \notin trash
    BY <2>3 DEF TrashInv, TrashIsOld
  <2> QED
    BY <2>1, <2>2, <2>4
<1>3. SeedReady'
  BY DEF SeedReady, SeedKey, TrashInv, TrashIsOld
<1> QED
  BY <1>1, <1>2, <1>3

(* A PUT of a manifest whose objects are there.                            *)
LEMMA PutRestore ==
    ASSUME RestoreInv, DurableInv', TrashInv', ProcessInv', NEW w \in Writer,
           NEW m \in Manifests, PutManifest(w, m), UNCHANGED objs, RestoreOk(m),
           \A v \in Writer : pc'[v] = "swapping" => man'[v] = man[v]
    PROVE  RestoreInv'
<1> USE DEF RestoreInv
<1>1. /\ manifest'.etag = manifest.etag + 1 /\ manifest.etag \in Nat
      /\ manifest'.snap = m.snap /\ manifest'.segs = m.segs
  BY ManifestFields DEF PutManifest, Manifests, DurableInv, TypeOK, StoreTypeOK
<1>2. ObjectsPresent'
  BY <1>1 DEF ObjectsPresent, RestoreOk
<1>3. SwapReady'
  <2>1. \A v \in Writer : man[v].etag \in Nat /\ man[v].etag <= manifest.etag
    BY ManifestFields DEF DurableInv, TypeOK, ProcessTypeOK, ManifestsMatch
  <2>2. \A v \in Writer : pc'[v] = "swapping" => ~(Current(v)')
    BY <1>1, <2>1 DEF Current
  <2> QED
    BY <2>2 DEF SwapReady
<1>4. SeedReady'
  BY <1>1 DEF SeedReady
<1> QED
  BY <1>2, <1>3, <1>4

(* The steps of boot().                                                    *)
LEMMA BootRestore ==
    ASSUME RestoreInv, DurableInv', TrashInv', ProcessInv', NEW w \in Writer, Boot(w)
    PROVE  RestoreInv'
<1>1. /\ pc \in [Writer -> Pcs] /\ man \in [Writer -> Manifests] /\ manifest \in Manifests
      /\ next \in [Writer -> {"upgrade", "stamp", "serving", "dead"}]
      /\ pend \in [Writer -> Commits] /\ lz[w].token \in Nat
      /\ LeaseTypeOK
  BY FieldTypes DEF RestoreInv, DurableInv, TypeOK, StoreTypeOK, ProcessTypeOK
<1>2. /\ \A v \in Writer \ {w} : pc'[v] = pc[v] /\ pend'[v] = pend[v] /\ man'[v] = man[v]
      /\ pc'[w] # "swapping"
  BY <1>1 DEF Boot, BootRead, BootLease, Reread, Restore, Upgrade, Stamp, StampGet, Seed, SeedPut,
              SeedGet, Replied, Die, Goto, localVars, storeVars
<1>3. \A v \in Writer \ {w} : lz'[v] = lz[v]
  <2>1. CASE \E f : AcquireStart(w, f) \/ UpgradeToken(w, f) \/ AcquireStep(w)
    BY <1>1, <2>1, LeaseIsOwn
  <2>2. CASE UNCHANGED leaseVars
    BY <2>2 DEF leaseVars
  <2> QED
    BY <2>1, <2>2 DEF Boot, BootRead, BootLease, Reread, Restore, Upgrade, Stamp, StampGet, Seed,
                      SeedPut, SeedGet
<1>4. CASE Seed(w)
  <2>1. /\ objs' = [x \in DOMAIN objs \cup {SeedKey(w)} |-> IF x = SeedKey(w) THEN {} ELSE objs[x]]
        /\ UNCHANGED <<manifest, lz>> /\ pc'[w] = "seedput"
    BY <1>1, <1>4 DEF Seed, PutObj, Goto, leaseVars
  <2>2. SeedKey(w).seq = 0
    BY DEF SeedKey, Key
  <2>3. \A k \in DOMAIN objs : objs'[k] = objs[k]
    BY <2>1, <2>2 DEF RestoreInv, DurableInv, SeedsEmpty
  <2>4. SeedReady' 
    BY <1>2, <2>1 DEF RestoreInv, SeedReady, SeedKey
  <2>5. ObjectsPresent'
    BY <2>1, <2>3 DEF RestoreInv, ObjectsPresent, RestoreOk
  <2>6. SwapReady'
    BY <1>2, <2>1 DEF RestoreInv, SwapReady, Current
  <2> QED
    BY <2>4, <2>5, <2>6 DEF RestoreInv
<1>5. CASE UNCHANGED <<manifest, objs>> /\ pc'[w] # "seedput"
  BY <1>2, <1>3, <1>5, QuietRestore
<1>6. ASSUME Stamp(w), CanSwap(w), PutManifest(w, [man[w] EXCEPT !.token = lz[w].token]),
             UNCHANGED objs
      PROVE  RestoreInv'
  <2> DEFINE m == [man[w] EXCEPT !.token = lz[w].token]
  <2>1. man[w] = manifest
    BY <1>6 DEF CanSwap, RestoreInv, DurableInv, ManifestsMatch, Current
  <2>2. m \in Manifests /\ m.snap = manifest.snap /\ m.segs = manifest.segs
    BY <1>1, <2>1 DEF Manifests
  <2>3. PutManifest(w, m)
    BY <1>6
  <2> HIDE DEF m
  <2>4. manifest.etag # 0
    BY <1>6 DEF Stamp, RestoreInv, ProcessInv, BootedHasManifest
  <2>5. RestoreOk(m)
    BY <2>2, <2>4 DEF RestoreInv, ObjectsPresent, RestoreOk
  <2> QED
    BY <1>2, <1>6, <2>2, <2>3, <2>5, PutRestore
<1>7. ASSUME SeedPut(w), manifest.etag = 0, PutManifest(w, SeedManifest(w)), UNCHANGED objs
      PROVE  RestoreInv'
  <2> DEFINE m == SeedManifest(w)
  <2>1. SeedKey(w) \in Keys /\ SeedKey(w) \in DOMAIN objs
    BY <1>1, <1>7 DEF SeedKey, Key, Keys, SeedPut, RestoreInv, SeedReady
  <2>2. m \in Manifests /\ m.snap = SeedKey(w) /\ m.segs = {}
    BY <1>1, <2>1, NoManifestType DEF SeedManifest, NoManifest, Manifests
  <2>3. PutManifest(w, m)
    BY <1>7
  <2> HIDE DEF m
  <2>4. RestoreOk(m)
    BY <2>1, <2>2 DEF RestoreOk
  <2> QED
    BY <1>2, <1>7, <2>2, <2>3, <2>4, PutRestore
<1>8. \/ Seed(w)
      \/ UNCHANGED <<manifest, objs>> /\ pc'[w] # "seedput"
      \/ /\ Stamp(w) /\ CanSwap(w) /\ UNCHANGED objs
         /\ PutManifest(w, [man[w] EXCEPT !.token = lz[w].token])
      \/ SeedPut(w) /\ manifest.etag = 0 /\ PutManifest(w, SeedManifest(w)) /\ UNCHANGED objs
  BY <1>1 DEF Boot, BootRead, BootLease, Reread, Restore, Upgrade, Stamp, StampGet, Seed, SeedPut,
         SeedGet, ManifestRefused, storeVars, Goto, Die, Replied, localVars
<1> QED
  BY <1>4, <1>5, <1>6, <1>7, <1>8

(* The steps of a commit.                                                  *)
LEMMA CommitRestore ==
    ASSUME RestoreInv, DurableInv', TrashInv', ProcessInv', NoKeyClash, NEW w \in Writer,
           Commit(w)
    PROVE  RestoreInv'
<1>1. /\ pc \in [Writer -> Pcs] /\ man \in [Writer -> Manifests] /\ manifest \in Manifests
      /\ pend \in [Writer -> Commits]
  BY DEF RestoreInv, DurableInv, TypeOK, StoreTypeOK, ProcessTypeOK
<1>2. CASE \/ CommitRebaseline(w) \/ CommitIncremental(w) \/ CommitSnapshot(w)
           \/ CommitNothing(w)
  <2>1. /\ UNCHANGED <<manifest, objs, man>>
        /\ pc'[w] \notin {"swapping", "seedput"}
        /\ \A v \in Writer \ {w} : pc'[v] = pc[v] /\ pend'[v] = pend[v] /\ lz'[v] = lz[v]
    BY <1>1, <1>2 DEF CommitRebaseline, CommitIncremental, CommitSnapshot, CommitNothing, Begin,
                      Goto, storeVars, leaseVars
  <2> QED
    BY <2>1, QuietRestore
<1>3. CASE Upload(w)
  <2> DEFINE k == pend[w].key
  <2>1. /\ objs' = [x \in DOMAIN objs \cup {k} |-> IF x = k THEN pend[w].body ELSE objs[x]]
        /\ UNCHANGED <<manifest, man, lz>> /\ pc[w] = "uploading"
        /\ \A v \in Writer \ {w} : pc'[v] = pc[v] /\ pend'[v] = pend[v]
        /\ pc'[w] = "swapping" => pend'[w] = pend[w]
        /\ pc'[w] # "seedput"
    BY <1>1, <1>3 DEF Upload, PutObj, AfterCommit, Goto, leaseVars
  <2>2. \A x \in Refs(manifest) : x # k
    BY <2>1 DEF NoKeyClash, Uploading
  <2>3. ObjectsPresent'
    BY <2>1, <2>2 DEF RestoreInv, ObjectsPresent, RestoreOk, Refs, SegKeys
  <2>4. SwapReady'
    BY <2>1 DEF RestoreInv, SwapReady, Current
  <2>5. SeedReady'
    BY <2>1 DEF RestoreInv, SeedReady, SeedKey
  <2> QED
    BY <2>3, <2>4, <2>5 DEF RestoreInv
<1>4. CASE Swap(w)
  <2>1. /\ pc[w] = "swapping" /\ UNCHANGED <<objs, lz>>
        /\ pc'[w] \in {"closing", "serving"}
        /\ \A v \in Writer \ {w} : pc'[v] = pc[v] /\ pend'[v] = pend[v] /\ man'[v] = man[v]
    BY <1>1, <1>4 DEF Swap, AfterCommit, Goto, leaseVars
  <2>2. CASE UNCHANGED manifest
    BY <2>1, <2>2, QuietRestore
  <2>3. ASSUME CanSwap(w), PutManifest(w, pend[w].m)
        PROVE  RestoreInv'
    <3> DEFINE m == pend[w].m
    <3>1. /\ m \in Manifests /\ pend[w].key \in DOMAIN objs
          /\ objs[pend[w].key] = pend[w].body
      BY <1>1, <2>1, <2>3 DEF Commits, RestoreInv, SwapReady, CanSwap, Current, DurableInv,
                              PutIntact
    <3>2. man[w] = manifest /\ manifest.etag # 0
      BY <2>1, <2>3 DEF CanSwap, RestoreInv, DurableInv, ManifestsMatch, Current, ProcessInv,
                        BootedHasManifest
    <3>3. RestoreOk(manifest)
      BY <3>2 DEF RestoreInv, ObjectsPresent
    <3>4. Extends(manifest, m, pend[w].key, pend[w].body)
      BY <2>1, <3>2 DEF RestoreInv, TrashInv, PendExtends, Uploading
    <3>5. PutManifest(w, m)
      BY <2>3
    <3> HIDE DEF m
    <3>6. m.snap \in {manifest.snap, pend[w].key}
      BY <3>4 DEF Extends
    <3>7. \A e \in m.segs :
             e \in manifest.segs \/ e = [key |-> pend[w].key, body |-> pend[w].body]
      BY <3>4 DEF Extends
    <3>8. \A e \in m.segs : e.key \in DOMAIN objs /\ objs[e.key] = e.body
      BY <3>1, <3>3, <3>7 DEF RestoreOk
    <3>9. RestoreOk(m)
      BY <3>1, <3>3, <3>6, <3>8 DEF RestoreOk
    <3> QED
      BY <2>1, <3>1, <3>5, <3>9, PutRestore
  <2> QED
    BY <1>4, <2>2, <2>3 DEF Swap, ManifestRefused
<1> QED
  BY <1>2, <1>3, <1>4 DEF Commit

(* The other steps of a writer, deletes that land, and time.               *)
LEMMA OthersRestore ==
    ASSUME RestoreInv, DurableInv', TrashInv', ProcessInv',
           \/ \E w \in Writer : \/ Write(w) \/ Validate(w)
                               \/ Close(w) \/ Release(w) \/ Exit(w) \/ Crash(w)
           \/ DeleteLands \/ TtlPasses \/ UNCHANGED vars
    PROVE  RestoreInv'
<1>1. /\ pc \in [Writer -> Pcs] /\ man \in [Writer -> Manifests] /\ pend \in [Writer -> Commits]
      /\ LeaseTypeOK
  BY DEF RestoreInv, DurableInv, TypeOK, ProcessTypeOK
<1>2. UNCHANGED manifest
  BY DEF Write, Validate, Close, Release, Exit, Crash, DeleteLands, TtlPasses, vars, storeVars
<1>3. \A k \in DOMAIN objs : k \in trash \/ (k \in DOMAIN objs' /\ objs'[k] = objs[k])
  BY DEF Write, Validate, Close, Release, Exit, Crash, DeleteLands, TtlPasses, vars, storeVars
<1>4. ASSUME NEW w \in Writer,
             \/ Write(w) \/ Validate(w) \/ Close(w) \/ Release(w) \/ Exit(w) \/ Crash(w)
      PROVE  RestoreInv'
  <2>1. \A v \in Writer \ {w} : pc'[v] = pc[v] /\ pend'[v] = pend[v] /\ man'[v] = man[v]
    BY <1>1, <1>4 DEF Write, Validate, Close, Release, Exit, Crash, Die, Goto, localVars
  <2>2. /\ pc'[w] = "swapping" =>
              pc[w] = "swapping" /\ pend'[w] = pend[w] /\ man'[w] = man[w]
        /\ pc'[w] # "seedput" \/ ((Validate(w) \/ Release(w)) /\ pc[w] = "seedput")
    BY <1>1, <1>4 DEF Write, Validate, Close, Release, Exit, Crash, Die, Goto, Open, localVars
  <2>3. pc'[w] # "seedput"
    BY <2>2 DEF Validate, Release, Open, RestoreInv, ProcessInv, ClosingIsOpen
  <2>4. \A v \in Writer \ {w} : lz'[v] = lz[v]
    <3>1. ValidateStep(w) \/ ReleaseStep(w) \/ LeaseCrash(w) \/ UNCHANGED lz
      BY <1>4 DEF Write, Validate, Close, Release, Exit, Crash, leaseVars
    <3> QED
      BY <1>1, <3>1, LeaseIsOwn
  <2> QED
    BY <1>2, <1>3, <2>1, <2>2, <2>3, <2>4, QuietRestore
<1>5. CASE DeleteLands \/ TtlPasses \/ UNCHANGED vars
  <2>1. UNCHANGED <<pc, man, pend, lz>>
    BY <1>5 DEF DeleteLands, TtlPasses, Expire, vars, localVars, leaseVars
  <2> QED
    BY <1>2, <1>3, <2>1, QuietRestore
<1> QED
  BY <1>4, <1>5

(* The invariant holds initially ...                                       *)
LEMMA InitRestore == Init => RestoreInv
<1> SUFFICES ASSUME Init
             PROVE  RestoreInv
  OBVIOUS
<1>1. ObjectsPresent
  BY DEF Init, ObjectsPresent, RestoreOk, FirstManifest, NoManifest
<1>2. SwapReady /\ SeedReady
  BY DEF Init, SwapReady, SeedReady
<1>3. ProcessInv
  BY DEF Init, ProcessInv, ClosingIsOpen, BootedHasManifest
<1> QED
  BY <1>1, <1>2, <1>3, InitDurable, InitTrash DEF RestoreInv

(* ... and every step keeps it, as long as no two commits share a key.     *)
LEMMA NextRestore ==
    ASSUME RestoreInv, NoKeyClash, [Next]_vars
    PROVE  RestoreInv'
<1>1. DurableInv' /\ TrashInv'
  BY NextDurable, NextTrash DEF RestoreInv
<1>2. ProcessInv'
  BY NextClosing, NextBooted DEF RestoreInv, DurableInv, ProcessInv
<1> QED
  BY <1>1, <1>2, BootRestore, CommitRestore, OthersRestore DEF Next

(* What is present and intact restores to what the manifest says.          *)
LEMMA RestoreInvRestorable == RestoreInv => Restorable
<1> SUFFICES ASSUME RestoreInv, manifest.etag # 0
             PROVE  RestoreOk(manifest) /\ acked \subseteq Restored(manifest)
  BY DEF Restorable
<1>1. RestoreOk(manifest)
  BY DEF RestoreInv, ObjectsPresent
<1>2. Restored(manifest) = Content(manifest)
  BY <1>1 DEF RestoreOk, Restored, Content, RestoreInv, DurableInv, SnapIntact
<1> QED
  BY <1>1, <1>2 DEF RestoreInv, DurableInv, AckedDurable

(* If no two commits ever share an object key, then at every moment, with  *)
(* whatever deletes and uploads under way, the manifest in the bucket can  *)
(* be restored (restoreSnapshotInto and applyWalSegments of restore.ts     *)
(* throw on nothing), and what is restored has every acknowledged row.     *)
THEOREM BucketIsRestorable == Spec /\ []NoKeyClash => []Restorable
<1>1. RestoreInv /\ NoKeyClash /\ [Next]_vars => RestoreInv'
  BY NextRestore
<1>2. Init => RestoreInv
  BY InitRestore
<1>3. RestoreInv => Restorable
  BY RestoreInvRestorable
<1> QED
  BY <1>1, <1>2, <1>3, PTL DEF Spec
-----------------------------------------------------------------------------

TrustedStore ==
    /\ LostReplies = FALSE /\ Resends = FALSE
    /\ SlowRelease = FALSE /\ EarlyClose = FALSE
    /\ Seeded = TRUE

TokenKept == manifest'.token >= manifest.token

----------------------------------------------------------------------------
(* A boot that acquired without a take-over, and outranks the manifest it  *)
(* has read: nothing but the restore stands between it and serving.        *)
Candidate(w) ==
    /\ pc[w] \in {"restore", "upgrade"} /\ next[w] = "upgrade"
    /\ Held(w) /\ lz[w].token > man[w].token

Settled(w) == Open(w) \/ Candidate(w)

(* The tokens w may still put in the name of an object.                    *)
MayUse(w, t) ==
    \/ Held(w) /\ t = lz[w].token
    \/ Open(w) /\ \E c \in Call : call[w][c].at = "renew" /\ t = call[w][c].token
    \/ Settled(w) /\ t = man[w].token
    \/ Uploading(w) /\ t = pend[w].key.token

(* The holder of the lease has the highest token; the others' are below it *)
(* or below the manifest's.                                                *)
TokensBounded ==
    \A v \in Writer, t \in Nat : MayUse(v, t) =>
        IF leaseObj.holder = v THEN t <= leaseObj.token
                               ELSE t < leaseObj.token \/ t < manifest.token

(* A token two writers may use is below the manifest's, and one of the two *)
(* has yet to stamp it, which TokenMonotone forbids.                       *)
TokensApart ==
    \A v, x \in Writer, t \in Nat : v # x /\ MayUse(v, t) /\ MayUse(x, t) =>
        t < manifest.token /\ ~(Settled(v) /\ Settled(x))

(* A clean acquisition leaves a gap in the tokens behind it, down to the   *)
(* manifest's.                                                             *)
GapBelow ==
    \A w, v \in Writer, t, s \in Nat :
        w # v /\ ~tookOver[w] /\ MayUse(w, t) /\ t > manifest.token /\ MayUse(v, s)
          => s < manifest.token \/ s > t

(* After a take-over, and the stamp, the manifest has the writer's token.  *)
StampedUp ==
    \A w \in Writer, t \in Nat :
        tookOver[w] /\ (Open(w) \/ pc[w] = "closing") /\ MayUse(w, t) => t <= manifest.token

(* While the holder restores, nobody else can put the manifest.            *)
HolderReads ==
    \A w \in Writer :
        leaseObj.holder = w /\ Held(w) /\ ~tookOver[w] /\ pc[w] \in {"restore", "upgrade"}
          => man[w] = manifest

(* What others have committed since a writer's manifest is not under its   *)
(* tokens.                                                                 *)
LaterRefsForeign ==
    \A w \in Writer : Settled(w) =>
        \A k \in Refs(manifest) : k.seq > man[w].seq => ~MayUse(w, k.token)

FenceInv ==
    /\ TokensBounded /\ TokensApart /\ GapBelow /\ StampedUp
    /\ HolderReads /\ LaterRefsForeign

----------------------------------------------------------------------------
Booting == {"restore", "upgrade", "stamp", "stampget"}

(* boot() holds the lease from acquire() on, without a validateLease() on  *)
(* the way, and branches on acquiredByTakeover.                            *)
BootFits(w) ==
    /\ pc[w] \in Booting => lpc[w] = "held" /\ Held(w)
    /\ pc[w] = "leasing" => lpc[w] \in Acquiring \cup {"held"} /\ existing[w]
    /\ pc[w] = "leasing" /\ lpc[w] = "held" => Held(w)
    /\ pc[w] = "off" => lpc[w] = "idle"
    /\ pc[w] \in Booting \cup {"off", "leasing"} => \A c \in Call : call[w][c] = NoCall
    /\ pc[w] \notin {"seedput", "seedget"}
    /\ pc[w] = "upgrade" => next[w] = "upgrade"
    /\ pc[w] = "restore" => next[w] \in {"upgrade", "stamp", "dead"}
    /\ pc[w] \in {"restore", "upgrade"} => (tookOver[w] <=> next[w] # "upgrade")
    /\ pc[w] \in {"stamp", "stampget"} => tookOver[w]

BootsInOrder == \A w \in Writer : BootFits(w)

TokensBehind ==
    \A w \in Writer : floor[w] <= manifest.token /\ man[w].token <= manifest.token

HolderOwns == \A w \in Writer : leaseObj.holder = w /\ Held(w) => Owns(w)

(* A writer that releases the lease still owns it, and commits no more.    *)
ReleasesOwn ==
    \A w \in Writer :
        /\ lpc[w] = "deleting" => Owns(w)
        /\ lpc[w] = "releasing" /\ seen[w].etag # 0 /\ seen[w].etag = lz[w].etag => Owns(w)
        /\ Releasing(w) => pc[w] = "closing"
        /\ closing[w] /\ ~dirty[w] => pc[w] = "closing"

ControlInv ==
    /\ TrashInv /\ LeaseInv /\ ProcessInv /\ manifest.etag # 0
    /\ BootsInOrder /\ TokensBehind /\ HolderOwns /\ ReleasesOwn

----------------------------------------------------------------------------
(* What a step of the lease does, when the store answers every PUT once.   *)

GotLease(w, t) ==
    /\ leaseObj'.holder = w /\ leaseObj'.token = t /\ leaseObj'.etag # 0
    /\ lz'[w].token = t /\ lz'[w].etag = leaseObj'.etag

LEMMA PutOutcome ==
    ASSUME LeaseInv, NEW w \in Writer, NEW t \in Nat, PutLease(w, t), Keep(w, t)
    PROVE  GotLease(w, t)
<1>1. lz \in [Writer -> {Null} \cup [etag : Pos, token : Pos]] /\ leaseClock + 1 # 0
  BY DEF LeaseInv, LeaseTypeOK
<1> QED
  BY <1>1 DEF PutLease, Keep, GotLease

(* acquire(): nothing yet, a create, or a take-over that outranks what it  *)
(* replaces.                                                               *)
LEMMA AcquireOutcome ==
    ASSUME TrustedStore, LeaseInv, NEW w \in Writer, AcquireStep(w)
    PROVE  /\ lpc[w] \in Acquiring /\ UNCHANGED <<floor, call>>
           /\ \/ /\ UNCHANGED <<leaseObj, lz, tookOver>>
                 /\ lpc'[w] \in (Acquiring \ {"idle"}) \cup {"failed"}
              \/ /\ leaseObj.etag = 0 /\ GotLease(w, floor[w] + 1)
                 /\ lpc'[w] = "held" /\ ~tookOver'[w]
              \/ /\ \E t \in Nat : /\ t > leaseObj.token /\ t > floor[w]
                                   /\ GotLease(w, t)
                 /\ \A v \in Writer : ~Releasing(v)
                 /\ lpc'[w] = "held" /\ tookOver'[w]
<1>1. /\ lpc \in [Writer -> LeasePc] /\ tookOver \in [Writer -> BOOLEAN]
      /\ floor[w] \in Nat /\ floor[w] + 1 \in Nat
      /\ TakeoverToken(w) \in Nat /\ TakeoverToken(w) > seen[w].token
      /\ TakeoverToken(w) > floor[w]
  BY TakeoverOutranks DEF LeaseInv, LeaseTypeOK, Pos
<1>2. CASE Create(w) \/ Recreate(w)
  <2>1. CASE leaseObj.etag = 0 /\ AcquirePut(w, floor[w] + 1, FALSE)
    <3>1. PutLease(w, floor[w] + 1) /\ Keep(w, floor[w] + 1)
      BY <2>1 DEF AcquirePut, TrustedStore
    <3>2. lpc'[w] = "held" /\ tookOver'[w] = FALSE
      BY <1>1, <2>1 DEF AcquirePut, TrustedStore
    <3> QED
      BY <1>1, <1>2, <2>1, <3>1, <3>2, PutOutcome DEF Create, Recreate, Acquiring
  <2>2. CASE /\ Refused(w, leaseObj.etag = 0, floor[w] + 1)
             /\ lpc' = [lpc EXCEPT ![w] = "inspect"] \/ NextAttempt(w)
             /\ UNCHANGED <<lz, tookOver>>
    BY <1>1, <1>2, <2>2 DEF Create, Recreate, Acquiring, Refused, TrustedStore, NextAttempt
  <2> QED
    BY <1>2, <2>1, <2>2 DEF Create, Recreate
<1>3. CASE Inspect(w) \/ Retry(w)
  BY <1>1, <1>3 DEF Inspect, Retry, Acquiring
<1>4. CASE TakeOver(w)
  <2>1. CASE leaseObj.etag = seen[w].etag /\ AcquirePut(w, TakeoverToken(w), TRUE)
    <3>1. PutLease(w, TakeoverToken(w)) /\ Keep(w, TakeoverToken(w))
      BY <2>1 DEF AcquirePut, TrustedStore
    <3>2. lpc'[w] = "held" /\ tookOver'[w] = TRUE
      BY <1>1, <2>1 DEF AcquirePut, TrustedStore
    <3>3. seen[w].token = leaseObj.token
      BY <2>1 DEF LeaseInv, EtagMeansToken
    <3>4. \A v \in Writer : ~Releasing(v)
      BY <1>4 DEF TakeOver, TrustedStore
    <3> QED
      BY <1>1, <1>4, <3>1, <3>2, <3>3, <3>4, PutOutcome DEF TakeOver, Acquiring
  <2>2. CASE /\ Refused(w, leaseObj.etag = seen[w].etag, TakeoverToken(w))
             /\ NextAttempt(w)
             /\ UNCHANGED <<lz, tookOver>>
    BY <1>1, <1>4, <2>2 DEF TakeOver, Acquiring, Refused, TrustedStore, NextAttempt
  <2> QED
    BY <1>4, <2>1, <2>2 DEF TakeOver
<1> QED
  BY <1>2, <1>3, <1>4 DEF AcquireStep

(* upgradeToken(): the lease is lost, or its token is one above the        *)
(* manifest's.                                                             *)
LEMMA UpgradeOutcome ==
    ASSUME TrustedStore, LeaseInv, NEW w \in Writer, NEW f \in Nat, UpgradeToken(w, f)
    PROVE  /\ UNCHANGED <<lpc, tookOver, floor, seen, call>>
           /\ \/ leaseObj' = leaseObj /\ lz'[w] = Null
              \/ /\ leaseObj.holder = w /\ leaseObj.token <= f /\ Owns(w)
                 /\ GotLease(w, f + 1)
<1>1. lz \in [Writer -> {Null} \cup [etag : Pos, token : Pos]] /\ f + 1 \in Nat
  BY DEF LeaseInv, LeaseTypeOK
<1>2. CASE leaseObj.etag = lz[w].etag /\ PutLease(w, f + 1) /\ Keep(w, f + 1)
  <2>1. Owns(w)
    BY <1>2 DEF UpgradeToken, Owns
  <2>2. leaseObj.token = lz[w].token /\ leaseObj.holder = w /\ lz[w].token <= f
    BY <2>1 DEF LeaseInv, EtagMeansToken, UpgradeToken
  <2> QED
    BY <1>1, <1>2, <2>1, <2>2, PutOutcome DEF UpgradeToken
<1>3. CASE Refused(w, leaseObj.etag = lz[w].etag, f + 1) /\ Drop(w)
  BY <1>1, <1>3 DEF Refused, TrustedStore, Drop, UpgradeToken
<1> QED
  BY <1>2, <1>3 DEF UpgradeToken, CasHeld, TrustedStore

(* validateLease(): whatever it renews keeps its holder and its token.     *)
LEMMA ValidateOutcome ==
    ASSUME TrustedStore, LeaseInv, NEW w \in Writer, ValidateStep(w)
    PROVE  /\ UNCHANGED <<lpc, tookOver, floor, seen>>
           /\ lpc[w] \notin Acquiring
           /\ \/ leaseObj' = leaseObj /\ (lz'[w] = lz[w] \/ lz'[w] = Null)
              \/ leaseObj.holder = w /\ GotLease(w, leaseObj.token)
           /\ Held(w)' => \/ Held(w) /\ lz'[w].token = lz[w].token
                          \/ \E c \in Call : call[w][c].at = "renew" /\ lz'[w].token = call[w][c].token
           /\ \A c \in Call : call'[w][c].at = "renew" =>
                 \/ call'[w][c] = call[w][c]
                 \/ Held(w) /\ call'[w][c].token = lz[w].token
<1>1. /\ lz \in [Writer -> {Null} \cup [etag : Pos, token : Pos]]
      /\ call \in [Writer -> [Call -> CallState]]
      /\ leaseObj.token \in Nat
  BY ObjectFields DEF LeaseInv, LeaseTypeOK
<1>2. PICK c \in Call : ValidateHead(w, c) \/ ValidateCheck(w, c) \/ RenewPut(w, c)
  BY DEF ValidateStep
<1>3. lpc[w] \notin Acquiring
  BY <1>2 DEF LeaseInv, HeldAfterAcquire, ValidateHead, ValidateCheck, RenewPut, Acquiring, NoCall
<1>4. CASE ValidateHead(w, c)
  <2>1. \A d \in Call : call'[w][d] = call[w][d] \/ call'[w][d].at = "headed"
    BY <1>1, <1>4, CallUpdate DEF ValidateHead
  <2> QED
    BY <1>3, <1>4, <2>1 DEF ValidateHead, Held
<1>5. CASE ValidateCheck(w, c)
  <2>1. \A d \in Call : \/ call'[w][d] = call[w][d] \/ call'[w][d] = NoCall
                        \/ Held(w) /\ call'[w][d].token = lz[w].token
    BY <1>1, <1>5, CallUpdate DEF ValidateCheck
  <2>2. lz'[w] = lz[w] \/ lz'[w] = Null
    BY <1>1, <1>5 DEF ValidateCheck, Drop
  <2>3. NoCall.at # "renew" /\ Null.etag = 0
    BY DEF NoCall, Null
  <2> QED
    BY <1>3, <1>5, <2>1, <2>2, <2>3 DEF ValidateCheck, Held
<1>6. CASE RenewPut(w, c)
  <2>1. \A d \in Call : call'[w][d] = call[w][d] \/ call'[w][d] = NoCall
    BY <1>1, <1>6, CallUpdate DEF RenewPut
  <2>2. NoCall.at # "renew" /\ Null.etag = 0
    BY DEF NoCall, Null
  <2>3. CASE /\ leaseObj.etag = call[w][c].etag
             /\ PutLease(w, call[w][c].token) /\ Keep(w, call[w][c].token)
    <3>1. call[w][c].token = leaseObj.token /\ leaseObj.holder = w
      BY <1>6, <2>3 DEF RenewPut, LeaseInv, RenewalsAreOwn
    <3>2. GotLease(w, leaseObj.token)
      BY <1>1, <2>3, <3>1, PutOutcome
    <3>3. lz'[w].token = call[w][c].token /\ call[w][c].at = "renew"
      BY <1>6, <3>1, <3>2 DEF GotLease, RenewPut
    <3> QED
      BY <1>3, <1>6, <2>1, <2>2, <3>1, <3>2, <3>3 DEF RenewPut
  <2>4. CASE Refused(w, leaseObj.etag = call[w][c].etag, call[w][c].token) /\ Drop(w)
    BY <1>1, <1>3, <1>6, <2>1, <2>2, <2>4 DEF Refused, TrustedStore, Drop, RenewPut, Held
  <2> QED
    BY <1>6, <2>3, <2>4 DEF RenewPut, CasHeld, TrustedStore
<1> QED
  BY <1>2, <1>4, <1>5, <1>6

(* release(): it reads, compares, deletes.                                 *)
LEMMA ReleaseOutcome ==
    ASSUME LeaseInv, NEW w \in Writer, ReleaseStep(w)
    PROVE  /\ UNCHANGED <<tookOver, floor, call>>
           /\ \/ /\ UNCHANGED <<leaseObj, lz>> /\ lpc[w] = "held" /\ lpc'[w] = "releasing"
                 /\ seen'[w] = leaseObj
              \/ /\ UNCHANGED <<leaseObj, lz, seen>> /\ lpc[w] = "releasing"
                 /\ lpc'[w] = "deleting" /\ seen[w].etag # 0 /\ seen[w].etag = lz[w].etag
              \/ /\ UNCHANGED leaseObj /\ lpc'[w] = "released"
                 /\ lz'[w] = lz[w] \/ lz'[w] = Null
              \/ /\ lpc[w] = "deleting" /\ lpc'[w] = "released"
                 /\ leaseObj' = Absent /\ lz'[w] = Null
<1>1. /\ lz \in [Writer -> {Null} \cup [etag : Pos, token : Pos]]
      /\ lpc \in [Writer -> LeasePc] /\ seen \in [Writer -> LeaseObject]
  BY DEF LeaseInv, LeaseTypeOK
<1> QED
  BY <1>1 DEF ReleaseStep, ReleaseHead, ReleaseCompare, ReleaseDelete, Drop

----------------------------------------------------------------------------
StepOf(w) ==
    \/ Boot(w) \/ Commit(w) \/ Write(w) \/ Validate(w)
    \/ Close(w) \/ Release(w) \/ Exit(w) \/ Crash(w)

SameLease(v) ==
    /\ lz'[v] = lz[v] /\ lpc'[v] = lpc[v] /\ tookOver'[v] = tookOver[v]
    /\ floor'[v] = floor[v] /\ seen'[v] = seen[v] /\ call'[v] = call[v]

SameLocals(v) ==
    /\ pc'[v] = pc[v] /\ existing'[v] = existing[v] /\ next'[v] = next[v]
    /\ man'[v] = man[v] /\ pend'[v] = pend[v] /\ dirty'[v] = dirty[v]
    /\ closing'[v] = closing[v]

(* Every step of the system is, for the lease, a step of the lease.        *)
LEMMA LeasePart ==
    ASSUME TypeOK, NEW w \in Writer, StepOf(w)
    PROVE  (\E f \in Nat : Move(w, f)) \/ UNCHANGED leaseVars
<1>1. manifest.token \in Nat /\ man[w].token \in Nat /\ 0 \in Nat
  BY ManifestFields DEF TypeOK, StoreTypeOK, ProcessTypeOK
<1>2. CASE Boot(w)
  BY <1>1, <1>2 DEF Boot, BootRead, BootLease, Reread, Restore, Upgrade, Stamp, StampGet, Seed,
                    SeedPut, SeedGet, Move
<1>3. CASE Commit(w)
  BY <1>3 DEF Commit, CommitRebaseline, CommitIncremental, CommitSnapshot, CommitNothing, Begin,
              Upload, Swap
<1>4. CASE Write(w) \/ Validate(w) \/ Close(w) \/ Release(w) \/ Exit(w) \/ Crash(w)
  BY <1>1, <1>4 DEF Write, Validate, Close, Release, Exit, Crash, Move
<1> QED
  BY <1>2, <1>3, <1>4 DEF StepOf

(* So the invariant of the lease is one of the system.                     *)
LEMMA NextLease ==
    ASSUME TypeOK, LeaseInv, [Next]_vars
    PROVE  LeaseInv'
<1>1. CASE UNCHANGED leaseVars
  BY <1>1 DEF leaseVars, LeaseInv, LeaseTypeOK, EtagsDrawn, EtagMeansToken, RenewalsAreOwn,
              HeldAfterAcquire, Owns, Held
<1>2. (\E w \in Writer : StepOf(w)) \/ Expire \/ UNCHANGED leaseVars
  BY DEF Next, StepOf, DeleteLands, TtlPasses, vars
<1> QED
  BY <1>1, <1>2, LeasePart, MoveInv, ExpireInv, LeaseAssumption

(* A step of one writer leaves the fields of the others alone.             *)
LEMMA OthersSameLease ==
    ASSUME LeaseTypeOK, NEW w \in Writer, NEW f \in Nat, Move(w, f), NEW v \in Writer \ {w}
    PROVE  SameLease(v)
<1>1. /\ lz \in [Writer -> {Null} \cup [etag : Pos, token : Pos]] /\ lpc \in [Writer -> LeasePc]
      /\ tookOver \in [Writer -> BOOLEAN] /\ floor \in [Writer -> Nat]
      /\ seen \in [Writer -> LeaseObject] /\ tries \in [Writer -> Nat]
      /\ call \in [Writer -> [Call -> CallState]]
  BY DEF LeaseTypeOK
<1>2. lz'[v] = lz[v]
  BY LeaseIsOwn DEF Move
<1>3. lpc'[v] = lpc[v] /\ tookOver'[v] = tookOver[v] /\ floor'[v] = floor[v] /\ seen'[v] = seen[v]
  <2>1. CASE AcquireStep(w)
    BY <1>1, <2>1 DEF AcquireStep, Create, Inspect, Recreate, TakeOver, Retry, AcquirePut,
                      NextAttempt, AcquireEnds
  <2>2. CASE AcquireStart(w, f) \/ UpgradeToken(w, f) \/ ValidateStep(w)
    BY <1>1, <2>2 DEF AcquireStart, UpgradeToken, ValidateStep, ValidateHead, ValidateCheck,
                      RenewPut
  <2>3. CASE ReleaseStep(w) \/ LeaseCrash(w)
    BY <1>1, <2>3 DEF ReleaseStep, ReleaseHead, ReleaseCompare, ReleaseDelete, LeaseCrash,
                      AcquireEnds
  <2> QED
    BY <2>1, <2>2, <2>3 DEF Move
<1>4. call'[v] = call[v]
  <2>1. call' = call \/ \E x : call' = [call EXCEPT ![w] = x]
    <3>1. CASE ValidateStep(w)
      <4>1. PICK c \in Call : ValidateHead(w, c) \/ ValidateCheck(w, c) \/ RenewPut(w, c)
        BY <3>1 DEF ValidateStep
      <4> QED
        BY <4>1 DEF ValidateHead, ValidateCheck, RenewPut
    <3> QED
      BY <3>1 DEF Move, AcquireStart, UpgradeToken, AcquireStep, Create, Inspect, Recreate,
                  TakeOver, Retry, ReleaseStep, ReleaseHead, ReleaseCompare, ReleaseDelete,
                  LeaseCrash
  <2> QED
    BY <1>1, <2>1
<1> QED
  BY <1>2, <1>3, <1>4 DEF SameLease

LEMMA OthersSameLocals ==
    ASSUME TypeOK, NEW w \in Writer, StepOf(w), NEW v \in Writer \ {w}
    PROVE  SameLocals(v)
<1>1. /\ pc \in [Writer -> Pcs] /\ existing \in [Writer -> BOOLEAN]
      /\ next \in [Writer -> {"upgrade", "stamp", "serving", "dead"}]
      /\ man \in [Writer -> Manifests] /\ pend \in [Writer -> Commits]
      /\ dirty \in [Writer -> BOOLEAN] /\ closing \in [Writer -> BOOLEAN]
  BY DEF TypeOK, ProcessTypeOK
<1>2. CASE Die(w)
  BY <1>1, <1>2 DEF Die, Goto, SameLocals
<1>3. CASE Boot(w) /\ ~Die(w)
  BY <1>1, <1>3 DEF Boot, BootRead, BootLease, Reread, Restore, Upgrade, Stamp, StampGet, Seed,
     SeedPut, SeedGet, Replied, Goto, localVars, SameLocals
<1>4. CASE Commit(w)
  BY <1>1, <1>4 DEF Commit, CommitRebaseline, CommitIncremental, CommitSnapshot, CommitNothing,
     Upload, Swap, Begin, AfterCommit, Goto, SameLocals
<1>5. CASE Write(w) \/ Validate(w) \/ Close(w) \/ Release(w)
  BY <1>1, <1>5 DEF Write, Validate, Close, Release, Goto, localVars, SameLocals
<1> QED
  BY <1>2, <1>3, <1>4, <1>5 DEF StepOf, Exit, Crash

LEMMA OthersSame ==
    ASSUME TypeOK, NEW w \in Writer, StepOf(w), NEW v \in Writer \ {w}
    PROVE  SameLease(v) /\ SameLocals(v)
<1>1. SameLease(v)
  <2>1. CASE UNCHANGED leaseVars
    BY <2>1 DEF leaseVars, SameLease
  <2> QED
    BY <2>1, LeasePart, OthersSameLease DEF TypeOK
<1> QED
  BY <1>1, OthersSameLocals

(* The manifest's token, whatever happens.                                 *)
LEMMA ManifestPut ==
    ASSUME TypeOK, NEW w \in Writer, NEW m, PutManifest(w, m), m \in Manifests
    PROVE  /\ manifest'.etag = manifest.etag + 1 /\ manifest'.token = m.token
           /\ manifest'.seq = m.seq /\ Refs(manifest') = Refs(m)
           /\ manifest' \in Manifests
<1>1. manifest.etag + 1 \in Nat
  BY ManifestFields DEF TypeOK, StoreTypeOK
<1>2. manifest' \in Manifests
  BY <1>1 DEF PutManifest, Manifests
<1> QED
  BY <1>2 DEF PutManifest, Manifests, Refs, SegKeys

----------------------------------------------------------------------------
(* boot() stays in order.                                                  *)
LEMMA BootFitsSame ==
    ASSUME NEW v \in Writer, BootFits(v), SameLease(v), SameLocals(v)
    PROVE  BootFits(v)'
BY DEF BootFits, SameLease, SameLocals, Held

LEMMA BootFitsStep ==
    ASSUME TrustedStore, ControlInv, NEW w \in Writer, StepOf(w)
    PROVE  BootFits(w)'
<1>1. /\ pc \in [Writer -> Pcs] /\ existing \in [Writer -> BOOLEAN]
      /\ next \in [Writer -> {"upgrade", "stamp", "serving", "dead"}]
      /\ closing \in [Writer -> BOOLEAN]
  BY DEF ControlInv, TrashInv, TypeOK, ProcessTypeOK
<1>2. BootFits(w) /\ LeaseInv /\ (closing[w] => Open(w) \/ pc[w] = "closing")
  BY DEF ControlInv, BootsInOrder, ProcessInv, ClosingIsOpen
<1>3. CASE Die(w)
  BY <1>1, <1>3 DEF Die, Goto, BootFits, Booting
<1>4. CASE BootRead(w)
  <2>1. lpc'[w] = "create" /\ lz' = lz /\ call' = call /\ lpc[w] = "idle"
    BY <1>2, <1>4 DEF BootRead, AcquireStart, LeaseInv, LeaseTypeOK
  <2>2. pc'[w] = "leasing" /\ existing'[w] /\ pc[w] = "off"
    BY <1>1, <1>4 DEF BootRead, Goto, ControlInv
  <2> QED
    BY <1>2, <2>1, <2>2 DEF BootFits, Booting, Acquiring
<1>5. CASE BootLease(w) /\ ~Die(w)
  <2>1. UNCHANGED <<pc, localVars>> /\ AcquireStep(w) /\ pc[w] = "leasing" /\ lpc'[w] # "failed"
    BY <1>5 DEF BootLease
  <2>2. lpc'[w] \in Acquiring \/ (lpc'[w] = "held" /\ Held(w)')
    BY <1>2, <2>1, AcquireOutcome DEF GotLease, Held
  <2>3. UNCHANGED call
    BY <1>2, <2>1, AcquireOutcome
  <2>4. pc'[w] = "leasing" /\ existing'[w]
    BY <1>2, <2>1 DEF BootFits, localVars
  <2>5. \A c \in Call : call'[w][c] = NoCall
    BY <1>2, <2>1, <2>3 DEF BootFits, Booting
  <2> QED
    BY <2>2, <2>4, <2>5 DEF BootFits, Booting, Acquiring
<1>6. CASE Reread(w) \/ (Restore(w) /\ ~Die(w)) \/ StampGet(w)
  <2>1. /\ UNCHANGED <<lz, lpc, call, tookOver, existing>>
        /\ \/ /\ pc[w] = "leasing" /\ lpc[w] = "held" /\ pc'[w] = "restore"
              /\ next'[w] = IF tookOver[w] THEN "stamp" ELSE "upgrade"
           \/ pc[w] = "restore" /\ next[w] # "dead" /\ pc'[w] = next[w] /\ next' = next
           \/ pc[w] = "stampget" /\ pc'[w] = "restore" /\ next'[w] \in {"stamp", "dead"}
    BY <1>1, <1>6 DEF Reread, Restore, StampGet, Goto, leaseVars
  <2> QED
    BY <1>2, <2>1 DEF BootFits, Booting, Held
<1>7. CASE Upgrade(w) /\ ~Die(w)
  <2>1. pc'[w] = "serving"
    BY <1>1, <1>7 DEF Upgrade, Goto
  <2> QED
    BY <2>1 DEF BootFits, Booting
<1>8. CASE Stamp(w)
  <2>1. UNCHANGED <<lz, lpc, call, tookOver>> /\ pc[w] = "stamp"
    BY <1>8 DEF Stamp, leaseVars
  <2>2. pc'[w] \in {"stampget", "serving"}
    BY <1>1, <1>8 DEF Stamp, Goto, Replied, TrustedStore
  <2> QED
    BY <1>2, <2>1, <2>2 DEF BootFits, Booting, Held
<1>9. CASE Seed(w) \/ SeedPut(w) \/ SeedGet(w)
  BY <1>2, <1>9 DEF Seed, SeedPut, SeedGet, BootFits
<1>10. CASE Commit(w) \/ Close(w)
  <2>1. pc'[w] \in {"serving", "uploading", "swapping", "closing"}
    BY <1>1, <1>10 DEF Commit, CommitRebaseline, CommitIncremental, CommitSnapshot, CommitNothing,
       Upload, Swap, Begin, AfterCommit, Close, Goto, Open
  <2> QED
    BY <2>1 DEF BootFits, Booting
<1>11. CASE Write(w) \/ Validate(w) \/ Release(w)
  <2>1. pc' = pc /\ (Open(w) \/ pc[w] = "closing")
    BY <1>2, <1>11 DEF Write, Validate, Release
  <2> QED
    BY <2>1 DEF BootFits, Booting, Open
<1> QED
  BY <1>3, <1>4, <1>5, <1>6, <1>7, <1>8, <1>9, <1>10, <1>11 DEF StepOf, Boot, Exit, Crash

(* What a step of w does to lease.json and to its own view of it.          *)
LeaseObjStep(w) ==
    /\ \/ leaseObj' = leaseObj
       \/ leaseObj.etag = 0 /\ leaseObj'.holder = w
       \/ (\A v \in Writer : ~Releasing(v)) /\ leaseObj'.holder = w
       \/ leaseObj.holder = w /\ leaseObj'.holder \in {w, NoOne}
    /\ \/ leaseObj' = leaseObj /\ (lz'[w] = lz[w] \/ lz'[w] = Null)
       \/ leaseObj'.etag = lz'[w].etag
       \/ leaseObj'.holder = NoOne

LEMMA LeaseObjOutcome ==
    ASSUME TrustedStore, ControlInv, NEW w \in Writer, StepOf(w)
    PROVE  LeaseObjStep(w)
<1>1. LeaseInv /\ man[w].token \in Nat
  BY ManifestFields DEF ControlInv, TrashInv, TypeOK, ProcessTypeOK
<1>2. CASE leaseObj' = leaseObj /\ (lz' = lz \/ Drop(w))
  BY <1>1, <1>2 DEF LeaseObjStep, Drop, LeaseInv, LeaseTypeOK
<1>3. CASE AcquireStep(w)
  BY <1>1, <1>3, AcquireOutcome DEF LeaseObjStep, GotLease
<1>4. CASE UpgradeToken(w, man[w].token)
  BY <1>1, <1>4, UpgradeOutcome DEF LeaseObjStep, GotLease
<1>5. CASE ValidateStep(w)
  BY <1>1, <1>5, ValidateOutcome DEF LeaseObjStep, GotLease
<1>6. CASE ReleaseStep(w)
  <2>1. lpc[w] = "deleting" => leaseObj.holder = w
    BY <1>1 DEF ControlInv, ReleasesOwn, LeaseInv, EtagMeansToken
  <2> QED
    BY <1>1, <1>6, <2>1, ReleaseOutcome DEF LeaseObjStep, Absent
<1> QED
  BY <1>2, <1>3, <1>4, <1>5, <1>6 DEF StepOf, Boot, BootRead, BootLease, Reread, Restore, Upgrade,
     Stamp, StampGet, Seed, SeedPut, SeedGet, Commit, CommitRebaseline, CommitIncremental,
     CommitSnapshot, CommitNothing, Upload, Swap, Begin, Write, Validate, Close, Release, Exit,
     Crash, LeaseCrash, AcquireStart, leaseVars

(* The holder's version stays the object's.                                *)
LEMMA HolderStep ==
    ASSUME TrustedStore, ControlInv, NEW w \in Writer, StepOf(w)
    PROVE  HolderOwns'
<1>1. LeaseObjStep(w) /\ NoOne \notin Writer
  BY LeaseObjOutcome, LeaseAssumption
<1>2. leaseObj.holder = w /\ Held(w) => Owns(w)
  BY DEF ControlInv, HolderOwns
<1>3. leaseObj'.holder = w /\ Held(w)' => Owns(w)'
  BY <1>1, <1>2 DEF LeaseObjStep, Owns, Held, Null
<1>4. ASSUME NEW v \in Writer \ {w}, leaseObj'.holder = v, Held(v)'
      PROVE  Owns(v)'
  <2>1. lz'[v] = lz[v]
    BY OthersSame DEF ControlInv, TrashInv, SameLease
  <2>2. leaseObj' = leaseObj
    BY <1>1, <1>4 DEF LeaseObjStep
  <2> QED
    BY <1>4, <2>1, <2>2 DEF ControlInv, HolderOwns, Owns, Held
<1> QED
  BY <1>3, <1>4 DEF HolderOwns

(* The processes that close: they stop committing, then release what is    *)
(* theirs.                                                                 *)
LEMMA ReleasesStep ==
    ASSUME TrustedStore, ControlInv, NEW w \in Writer, StepOf(w)
    PROVE  ReleasesOwn'
<1>1. LeaseObjStep(w) /\ LeaseInv /\ ReleasesOwn
  BY LeaseObjOutcome DEF ControlInv
<1>2. /\ pc \in [Writer -> Pcs] /\ dirty \in [Writer -> BOOLEAN]
      /\ closing \in [Writer -> BOOLEAN] /\ lpc \in [Writer -> LeasePc]
      /\ lz \in [Writer -> {Null} \cup [etag : Pos, token : Pos]]
      /\ seen \in [Writer -> LeaseObject]
  BY <1>1 DEF ControlInv, TrashInv, TypeOK, ProcessTypeOK, LeaseInv, LeaseTypeOK
<1>3. ASSUME NEW v \in Writer \ {w}
      PROVE  /\ lpc'[v] = "deleting" => Owns(v)'
             /\ lpc'[v] = "releasing" /\ seen'[v].etag # 0 /\ seen'[v].etag = lz'[v].etag => Owns(v)'
             /\ Releasing(v)' => pc'[v] = "closing"
             /\ closing'[v] /\ ~dirty'[v] => pc'[v] = "closing"
  <2>1. SameLease(v) /\ SameLocals(v)
    BY OthersSame DEF ControlInv, TrashInv
  <2>2. Releasing(v) /\ Owns(v) => Owns(v)'
    <3> SUFFICES ASSUME Releasing(v), Owns(v)
                 PROVE  Owns(v)'
      OBVIOUS
    <3>1. leaseObj.holder = v /\ leaseObj.etag # 0
      BY <1>1 DEF LeaseInv, EtagMeansToken, Owns, Held
    <3>2. leaseObj' = leaseObj
      BY <1>1, <3>1 DEF LeaseObjStep
    <3> QED
      BY <2>1, <3>2 DEF SameLease, Owns, Held
  <2> QED
    BY <1>1, <2>1, <2>2 DEF ReleasesOwn, SameLease, SameLocals, Releasing
<1>4. /\ lpc'[w] = "deleting" => Owns(w)'
      /\ lpc'[w] = "releasing" /\ seen'[w].etag # 0 /\ seen'[w].etag = lz'[w].etag => Owns(w)'
      /\ Releasing(w)' => pc'[w] = "closing"
  <2>1. CASE Release(w)
    <3>1. ReleaseStep(w) /\ pc'[w] = "closing"
      BY <1>1, <2>1 DEF Release, ReleasesOwn
    <3>2. CASE /\ UNCHANGED <<leaseObj, lz>> /\ lpc'[w] = "releasing" /\ seen'[w] = leaseObj
      BY <3>1, <3>2 DEF Owns, Held
    <3>3. CASE /\ UNCHANGED <<leaseObj, lz, seen>> /\ lpc[w] = "releasing"
               /\ lpc'[w] = "deleting" /\ seen[w].etag # 0 /\ seen[w].etag = lz[w].etag
      BY <1>1, <3>1, <3>3 DEF ReleasesOwn, Owns, Held
    <3>4. CASE lpc'[w] = "released"
      BY <3>4 DEF Releasing
    <3> QED
      BY <1>1, <3>1, <3>2, <3>3, <3>4, ReleaseOutcome
  <2>2. CASE ~Release(w) /\ ~Releasing(w)
    <3>1. lpc'[w] \notin {"releasing", "deleting"}
      <4>1. \/ lpc' = lpc
            \/ AcquireStep(w) \/ ValidateStep(w) \/ UpgradeToken(w, man[w].token)
            \/ lpc' = [lpc EXCEPT ![w] = "create"]
            \/ lpc' = [lpc EXCEPT ![w] = "crashed"]
        BY <2>2 DEF StepOf, Boot, BootRead, BootLease, Reread, Restore, Upgrade, Stamp, StampGet,
           Seed, SeedPut, SeedGet, Commit, CommitRebaseline, CommitIncremental, CommitSnapshot,
           CommitNothing, Upload, Swap, Begin, Write, Validate, Close, Exit, Crash, leaseVars,
           AcquireStart, LeaseCrash
      <4>2. AcquireStep(w) => lpc'[w] \in Acquiring \cup {"failed", "held"}
        BY <1>1, AcquireOutcome
      <4>3. ValidateStep(w) \/ UpgradeToken(w, man[w].token) => lpc' = lpc
        BY DEF ValidateStep, ValidateHead, ValidateCheck, RenewPut, UpgradeToken
      <4> QED
        BY <1>2, <2>2, <4>1, <4>2, <4>3 DEF Releasing, Acquiring
    <3> QED
      BY <3>1 DEF Releasing
  <2>3. CASE ~Release(w) /\ Releasing(w)
    <3>1. pc[w] = "closing"
      BY <1>1, <2>3 DEF ReleasesOwn
    <3>2. Exit(w) \/ Crash(w)
      BY <2>3, <3>1 DEF StepOf, Boot, BootRead, BootLease, Reread, Restore, Upgrade, Stamp,
         StampGet, Seed, SeedPut, SeedGet, Commit, CommitRebaseline, CommitIncremental,
         CommitSnapshot, CommitNothing, Upload, Swap, Begin, Write, Validate, Close, Open
    <3>3. lpc'[w] = "crashed"
      BY <1>2, <2>3, <3>2 DEF Exit, Crash, LeaseCrash, Releasing
    <3> QED
      BY <3>3 DEF Releasing
  <2> QED
    BY <2>1, <2>2, <2>3
<1>5. closing'[w] /\ ~dirty'[w] => pc'[w] = "closing"
  <2>1. (closing[w] /\ ~dirty[w] => pc[w] = "closing") /\ (closing[w] => Open(w) \/ pc[w] = "closing")
    BY <1>1 DEF ReleasesOwn, ControlInv, ProcessInv, ClosingIsOpen
  <2>2. CASE Die(w)
    BY <1>2, <2>2 DEF Die
  <2>3. CASE Boot(w) /\ ~Die(w)
    <3>1. ~closing[w]
      BY <2>1, <2>3 DEF Boot, BootRead, BootLease, Reread, Restore, Upgrade, Stamp, StampGet, Seed,
         SeedPut, SeedGet, Open
    <3>2. closing' = closing
      BY <2>3 DEF Boot, BootRead, BootLease, Reread, Restore, Upgrade, Stamp, StampGet, Seed,
         SeedPut, SeedGet, Replied, localVars
    <3> QED
      BY <3>1, <3>2
  <2>4. CASE Commit(w)
    BY <1>2, <2>1, <2>4 DEF Commit, CommitRebaseline, CommitIncremental, CommitSnapshot,
       CommitNothing, Upload, Swap, Begin, AfterCommit, Goto
  <2>5. CASE Close(w)
    BY <1>2, <2>5 DEF Close, Goto, TrustedStore, Open
  <2>6. CASE Write(w) \/ Validate(w) \/ Release(w)
    BY <1>2, <2>1, <2>6 DEF Write, Validate, Release, localVars
  <2> QED
    BY <2>2, <2>3, <2>4, <2>5, <2>6 DEF StepOf, Exit, Crash
<1> QED
  BY <1>3, <1>4, <1>5 DEF ReleasesOwn

----------------------------------------------------------------------------
(* The only steps that put the manifest of an existing database are the    *)
(* stamp and the swap, each by a writer that has the current one.          *)
Puts(w, m) ==
    /\ PutManifest(w, m) /\ CanSwap(w) /\ m \in Manifests
    /\ man' = [man EXCEPT ![w] = manifest']
    /\ UNCHANGED leaseVars

LEMMA ManifestOutcome ==
    ASSUME TrustedStore, ControlInv, NEW w \in Writer, StepOf(w)
    PROVE  \/ manifest' = manifest
           \/ /\ Stamp(w) /\ Puts(w, [man[w] EXCEPT !.token = lz[w].token])
              /\ pc[w] = "stamp" /\ pc'[w] = "serving"
           \/ /\ Swap(w) /\ Puts(w, pend[w].m)
              /\ pc[w] = "swapping" /\ pc'[w] \in {"serving", "closing"}
<1>1. /\ pc \in [Writer -> Pcs] /\ man \in [Writer -> Manifests] /\ pend \in [Writer -> Commits]
      /\ lz[w].token \in Nat /\ pc[w] # "seedput"
  BY FieldTypes DEF ControlInv, TrashInv, TypeOK, ProcessTypeOK, LeaseInv, BootsInOrder, BootFits
<1>2. CASE Stamp(w)
  <2>1. [man[w] EXCEPT !.token = lz[w].token] \in Manifests
    BY <1>1 DEF Manifests
  <2> QED
    BY <1>1, <1>2, <2>1 DEF Stamp, Replied, ManifestRefused, TrustedStore, Puts, Goto
<1>3. CASE Swap(w)
  <2>1. pend[w].m \in Manifests
    BY <1>1 DEF Commits
  <2> QED
    BY <1>1, <1>3, <2>1 DEF Swap, ManifestRefused, TrustedStore, Puts, AfterCommit, Goto
<1> QED
  BY <1>1, <1>2, <1>3 DEF StepOf, Boot, BootRead, BootLease, Reread, Restore, Upgrade, StampGet,
     Seed, SeedPut, SeedGet, Commit, CommitRebaseline, CommitIncremental, CommitSnapshot,
     CommitNothing, Upload, Begin, Write, Validate, Close, Release, Exit, Crash, storeVars

(* A writer's copy of the manifest stays, is the current one, or goes.     *)
LEMMA ManStep ==
    ASSUME TypeOK, NEW w \in Writer, StepOf(w)
    PROVE  man'[w] \in {man[w], manifest', NoManifest}
<1>1. man \in [Writer -> Manifests]
  BY DEF TypeOK, ProcessTypeOK
<1> QED
  BY <1>1 DEF StepOf, Boot, BootRead, BootLease, Reread, Restore, Upgrade, Stamp, Replied, StampGet,
     Seed, SeedPut, SeedGet, Commit, CommitRebaseline, CommitIncremental, CommitSnapshot,
     CommitNothing, Upload, Swap, Begin, Write, Validate, Close, Release, Exit, Crash, Die,
     storeVars, localVars

(* The tokens a writer has read are not above the manifest's, which does   *)
(* not fall.                                                               *)
LEMMA TokensBehindStep ==
    ASSUME TrustedStore, ControlInv, TokenKept, NEW w \in Writer, StepOf(w)
    PROVE  TokensBehind' /\ manifest'.etag # 0
<1>1. /\ TypeOK /\ TokensBehind /\ manifest.etag # 0 /\ floor \in [Writer -> Nat]
      /\ manifest.token \in Nat /\ manifest.etag \in Nat /\ lpc \in [Writer -> LeasePc]
      /\ \A v \in Writer : man[v].token \in Nat
  BY ManifestFields DEF ControlInv, TrashInv, TypeOK, LeaseTypeOK, StoreTypeOK, ProcessTypeOK
<1>2. manifest'.token \in Nat /\ manifest'.etag # 0
  <2>1. \A m \in Manifests : PutManifest(w, m) => manifest'.token \in Nat /\ manifest'.etag # 0
    BY <1>1, ManifestPut, ManifestFields
  <2> QED
    BY <1>1, <2>1, ManifestOutcome DEF Puts
<1>3. NoManifest.token = 0
  BY DEF NoManifest
<1>4. man'[w].token <= manifest'.token
  <2>1. man[w].token <= manifest.token
    BY <1>1 DEF TokensBehind
  <2> QED
    BY <1>1, <1>2, <1>3, <2>1, ManStep DEF TokenKept
<1>5. floor'[w] \in {floor[w], manifest.token, 0}
  <2>1. floor' = floor \/ \E x \in {manifest.token, 0} : floor' = [floor EXCEPT ![w] = x]
    <3>1. AcquireStep(w) \/ ValidateStep(w) \/ ReleaseStep(w) => floor' = floor
      BY DEF AcquireStep, Create, Inspect, Recreate, TakeOver, Retry, ValidateStep, ValidateHead,
         ValidateCheck, RenewPut, ReleaseStep, ReleaseHead, ReleaseCompare, ReleaseDelete
    <3> QED
      BY <3>1 DEF StepOf, Boot, BootRead, BootLease, Reread, Restore, Upgrade, Stamp, StampGet, Seed,
         SeedPut, SeedGet, Commit, CommitRebaseline, CommitIncremental, CommitSnapshot,
         CommitNothing, Upload, Swap, Begin, Write, Validate, Close, Release, Exit, Crash,
         LeaseCrash, AcquireStart, UpgradeToken, leaseVars
  <2> QED
    BY <1>1, <2>1
<1>6. floor'[w] <= manifest'.token
  <2>1. floor[w] <= manifest.token /\ floor[w] \in Nat
    BY <1>1 DEF TokensBehind
  <2> QED
    BY <1>1, <1>2, <1>5, <2>1 DEF TokenKept
<1>7. ASSUME NEW v \in Writer \ {w}
      PROVE  floor'[v] <= manifest'.token /\ man'[v].token <= manifest'.token
  <2>1. floor'[v] = floor[v] /\ man'[v] = man[v]
    BY <1>1, OthersSame DEF SameLease, SameLocals
  <2>2. floor[v] <= manifest.token /\ man[v].token <= manifest.token /\ floor[v] \in Nat
    BY <1>1 DEF TokensBehind
  <2> QED
    BY <1>1, <1>2, <2>1, <2>2 DEF TokenKept
<1> QED
  BY <1>2, <1>4, <1>6, <1>7 DEF TokensBehind

(* Every step keeps the order of things.                                   *)
LEMMA NextControl ==
    ASSUME TrustedStore, ControlInv, TokenKept, [Next]_vars
    PROVE  ControlInv'
<1>1. TrashInv' /\ LeaseInv' /\ ProcessInv'
  BY NextTrash, NextLease, NextClosing, NextBooted DEF ControlInv, TrashInv, ProcessInv
<1>2. CASE \E w \in Writer : StepOf(w)
  <2>1. PICK w \in Writer : StepOf(w)
    BY <1>2
  <2>2. BootsInOrder'
    <3>1. \A v \in Writer \ {w} : BootFits(v)'
      BY <2>1, OthersSame, BootFitsSame DEF ControlInv, TrashInv, BootsInOrder
    <3>2. BootFits(w)'
      BY <2>1, BootFitsStep
    <3> QED
      BY <3>1, <3>2 DEF BootsInOrder
  <2> QED
    BY <1>1, <2>1, <2>2, HolderStep, ReleasesStep, TokensBehindStep DEF ControlInv
<1>3. CASE DeleteLands \/ TtlPasses \/ UNCHANGED vars
  <2>1. /\ UNCHANGED <<manifest, pc, localVars, leaseClock, lpc, lz, tookOver, floor, seen, call>>
        /\ leaseObj'.etag = leaseObj.etag /\ leaseObj'.holder = leaseObj.holder
    <3>1. Expire => leaseObj'.etag = leaseObj.etag /\ leaseObj'.holder = leaseObj.holder
      BY ObjectFields DEF Expire, ControlInv, LeaseInv, LeaseTypeOK, LeaseObject, Absent
    <3> QED
      BY <1>3, <3>1 DEF DeleteLands, TtlPasses, Expire, vars, leaseVars, storeVars
  <2>2. BootsInOrder' /\ TokensBehind' /\ HolderOwns' /\ ReleasesOwn' /\ manifest'.etag # 0
    BY <2>1 DEF ControlInv, BootsInOrder, BootFits, TokensBehind, HolderOwns, ReleasesOwn, Owns,
                Held, Releasing, localVars
  <2> QED
    BY <1>1, <2>2 DEF ControlInv
<1> QED
  BY <1>2, <1>3 DEF Next, StepOf
----------------------------------------------------------------------------
(* A step that gives a writer no token, and leaves the manifest alone.     *)
QuietFor(v) ==
    /\ \A t \in Nat : MayUse(v, t)' => MayUse(v, t)
    /\ Settled(v)' => Settled(v) /\ man'[v].seq = man[v].seq
    /\ tookOver'[v] = tookOver[v] \/ \A t \in Nat : ~(MayUse(v, t)')
    /\ Open(v)' \/ pc'[v] = "closing" => Open(v) \/ pc[v] = "closing" \/ ~tookOver'[v]
    /\ Held(v)' /\ ~tookOver'[v] /\ pc'[v] \in {"restore", "upgrade"} =>
          \/ man'[v] = manifest
          \/ /\ Held(v) /\ ~tookOver[v] /\ pc[v] \in {"restore", "upgrade"}
             /\ man'[v] = man[v]

LEMMA SameUse ==
    ASSUME NEW v \in Writer, SameLease(v), SameLocals(v)
    PROVE  /\ \A t \in Nat : MayUse(v, t)' <=> MayUse(v, t)
           /\ Settled(v)' <=> Settled(v)
           /\ Open(v)' <=> Open(v)
           /\ QuietFor(v)
<1>1. (Open(v)' <=> Open(v)) /\ (Held(v)' <=> Held(v)) /\ (Uploading(v)' <=> Uploading(v))
  BY DEF SameLease, SameLocals, Open, Held, Uploading
<1>2. Settled(v)' <=> Settled(v)
  BY <1>1 DEF SameLease, SameLocals, Settled, Candidate
<1>3. \A t \in Nat : MayUse(v, t)' <=> MayUse(v, t)
  BY <1>1, <1>2 DEF SameLease, SameLocals, MayUse
<1> QED
  BY <1>1, <1>2, <1>3 DEF QuietFor, SameLease, SameLocals

LEMMA QuietFence ==
    ASSUME FenceInv, manifest \in Manifests, manifest' = manifest,
           leaseObj'.holder \in {leaseObj.holder, NoOne},
           TokensBounded', \A v \in Writer : QuietFor(v)
    PROVE  FenceInv'
<1>1. TokensApart'
  <2> SUFFICES ASSUME NEW v \in Writer, NEW x \in Writer, NEW t \in Nat, v # x,
                      MayUse(v, t)', MayUse(x, t)'
               PROVE  t < manifest.token /\ ~(Settled(v)' /\ Settled(x)')
    BY DEF TokensApart
  <2> QED
    BY DEF FenceInv, TokensApart, QuietFor
<1>2. GapBelow'
  <2> SUFFICES ASSUME NEW w \in Writer, NEW v \in Writer, NEW t \in Nat, NEW s \in Nat, w # v,
                      ~tookOver'[w], MayUse(w, t)', t > manifest.token, MayUse(v, s)'
               PROVE  s < manifest.token \/ s > t
    BY DEF GapBelow
  <2>1. MayUse(w, t) /\ MayUse(v, s) /\ ~tookOver[w]
    BY DEF QuietFor
  <2> QED
    BY <2>1 DEF FenceInv, GapBelow
<1>3. StampedUp'
  <2> SUFFICES ASSUME NEW w \in Writer, NEW t \in Nat, tookOver'[w], MayUse(w, t)',
                      Open(w)' \/ pc'[w] = "closing"
               PROVE  t <= manifest.token
    BY DEF StampedUp
  <2>1. MayUse(w, t) /\ tookOver[w] /\ (Open(w) \/ pc[w] = "closing")
    BY DEF QuietFor
  <2> QED
    BY <2>1 DEF FenceInv, StampedUp
<1>4. HolderReads'
  BY LeaseAssumption DEF FenceInv, HolderReads, QuietFor
<1>5. LaterRefsForeign'
  <2> SUFFICES ASSUME NEW w \in Writer, Settled(w)', NEW k \in Refs(manifest), k.seq > man'[w].seq,
                      MayUse(w, k.token)'
               PROVE  FALSE
    BY DEF LaterRefsForeign
  <2>1. k.token \in Nat
    BY ManifestFields DEF Refs, Keys
  <2>2. Settled(w) /\ man'[w].seq = man[w].seq /\ MayUse(w, k.token)
    BY <2>1 DEF QuietFor
  <2> QED
    BY <2>2 DEF FenceInv, LaterRefsForeign
<1> QED
  BY <1>1, <1>2, <1>3, <1>4, <1>5 DEF FenceInv

(* The bounds, when lease.json keeps its holder and its token.             *)
LEMMA QuietBounds ==
    ASSUME TokensBounded, manifest' = manifest, leaseObj'.token = leaseObj.token,
           leaseObj'.holder = leaseObj.holder, \A v \in Writer : QuietFor(v)
    PROVE  TokensBounded'
<1> SUFFICES ASSUME NEW v \in Writer, NEW t \in Nat, MayUse(v, t)'
             PROVE  IF leaseObj.holder = v THEN t <= leaseObj.token
                                           ELSE t < leaseObj.token \/ t < manifest.token
  BY DEF TokensBounded
<1> QED
  BY DEF TokensBounded, QuietFor

----------------------------------------------------------------------------
OthersAside(w) == \A v \in Writer \ {w} : SameLease(v) /\ SameLocals(v)

(* acquire() succeeds: nobody else may use a token that is not below the   *)
(* manifest's, or there was a take-over, and the new token is the highest. *)
LEMMA AcquireFence ==
    ASSUME ControlInv, FenceInv, NEW w \in Writer, OthersAside(w), NEW top \in Nat,
           manifest' = manifest, leaseObj'.holder = w, leaseObj'.token = top,
           pc'[w] = "leasing", \A t \in Nat : MayUse(w, t)' => t = top,
           \A v \in Writer \ {w}, s \in Nat : MayUse(v, s) =>
              s < manifest.token \/ (tookOver'[w] /\ s < top)
    PROVE  FenceInv'
<1>1. manifest.token \in Nat /\ manifest \in Manifests
  BY ManifestFields DEF ControlInv, TrashInv, TypeOK, StoreTypeOK
<1>2. ~(Settled(w)') /\ ~(Open(w)')
  BY DEF Settled, Open, Candidate
<1>3. ASSUME NEW v \in Writer \ {w}
      PROVE  /\ \A t \in Nat : MayUse(v, t)' <=> MayUse(v, t)
             /\ Settled(v)' <=> Settled(v)
             /\ Open(v)' <=> Open(v)
             /\ tookOver'[v] = tookOver[v] /\ pc'[v] = pc[v] /\ man'[v] = man[v]
  BY SameUse DEF OthersAside, SameLease, SameLocals
<1>4. TokensBounded'
  <2> SUFFICES ASSUME NEW v \in Writer, NEW t \in Nat, MayUse(v, t)'
               PROVE  IF v = w THEN t <= top ELSE t < top \/ t < manifest.token
    BY DEF TokensBounded
  <2> QED
    BY <1>3
<1>5. TokensApart'
  <2> SUFFICES ASSUME NEW v \in Writer, NEW x \in Writer, NEW t \in Nat, v # x,
                      MayUse(v, t)', MayUse(x, t)'
               PROVE  t < manifest.token /\ ~(Settled(v)' /\ Settled(x)')
    BY DEF TokensApart
  <2>1. CASE v = w \/ x = w
    <3>1. t = top /\ \E y \in Writer \ {w} : MayUse(y, t)
      BY <1>3, <2>1
    <3> QED
      BY <1>1, <1>2, <2>1, <3>1
  <2>2. CASE v # w /\ x # w
    BY <1>3, <2>2 DEF FenceInv, TokensApart
  <2> QED
    BY <2>1, <2>2
<1>6. GapBelow'
  <2> SUFFICES ASSUME NEW u \in Writer, NEW v \in Writer, NEW t \in Nat, NEW s \in Nat, u # v,
                      ~tookOver'[u], MayUse(u, t)', t > manifest.token, MayUse(v, s)'
               PROVE  s < manifest.token \/ s > t
    BY DEF GapBelow
  <2>1. CASE u = w
    BY <1>3, <2>1
  <2>2. CASE v = w
    <3>1. s = top /\ (t < manifest.token \/ t < top)
      BY <1>3, <2>2
    <3> QED
      BY <1>1, <3>1
  <2>3. CASE u # w /\ v # w
    BY <1>3, <2>3 DEF FenceInv, GapBelow
  <2> QED
    BY <2>1, <2>2, <2>3
<1>7. StampedUp'
  <2> SUFFICES ASSUME NEW v \in Writer, NEW t \in Nat, tookOver'[v], MayUse(v, t)',
                      Open(v)' \/ pc'[v] = "closing"
               PROVE  t <= manifest.token
    BY DEF StampedUp
  <2>1. v # w
    BY <1>2
  <2> QED
    BY <1>3, <2>1 DEF FenceInv, StampedUp
<1>8. HolderReads'
  BY <1>2 DEF HolderReads
<1>9. LaterRefsForeign'
  <2> SUFFICES ASSUME NEW v \in Writer, Settled(v)', NEW k \in Refs(manifest), k.seq > man'[v].seq,
                      MayUse(v, k.token)'
               PROVE  FALSE
    BY DEF LaterRefsForeign
  <2>1. k.token \in Nat /\ v # w
    BY <1>1, <1>2, ManifestFields DEF Refs, Keys
  <2> QED
    BY <1>3, <2>1 DEF FenceInv, LaterRefsForeign
<1> QED
  BY <1>4, <1>5, <1>6, <1>7, <1>8, <1>9 DEF FenceInv

(* upgradeToken() succeeds: everybody else is below the manifest that the  *)
(* holder has read, and whose token it outranks now.                       *)
LEMMA UpgradeFence ==
    ASSUME ControlInv, FenceInv, NEW w \in Writer, OthersAside(w),
           manifest' = manifest, leaseObj'.holder = w, leaseObj'.token = manifest.token + 1,
           ~tookOver'[w], pc'[w] = "serving", man'[w] = manifest,
           \A t \in Nat : MayUse(w, t)' => t \in {manifest.token, manifest.token + 1},
           \A v \in Writer \ {w}, s \in Nat : MayUse(v, s) => s < manifest.token
    PROVE  FenceInv'
<1>1. manifest.token \in Nat /\ manifest \in Manifests /\ manifest.seq \in Nat
  BY ManifestFields DEF ControlInv, TrashInv, TypeOK, StoreTypeOK
<1>2. ASSUME NEW v \in Writer \ {w}
      PROVE  /\ \A t \in Nat : MayUse(v, t)' <=> MayUse(v, t)
             /\ Settled(v)' <=> Settled(v)
             /\ Open(v)' <=> Open(v)
             /\ tookOver'[v] = tookOver[v] /\ pc'[v] = pc[v] /\ man'[v] = man[v]
  BY SameUse DEF OthersAside, SameLease, SameLocals
<1>3. TokensBounded'
  <2> SUFFICES ASSUME NEW v \in Writer, NEW t \in Nat, MayUse(v, t)'
               PROVE  IF v = w THEN t <= manifest.token + 1
                      ELSE t < manifest.token + 1 \/ t < manifest.token
    BY DEF TokensBounded
  <2> QED
    BY <1>1, <1>2
<1>4. TokensApart'
  <2> SUFFICES ASSUME NEW v \in Writer, NEW x \in Writer, NEW t \in Nat, v # x,
                      MayUse(v, t)', MayUse(x, t)'
               PROVE  t < manifest.token /\ ~(Settled(v)' /\ Settled(x)')
    BY DEF TokensApart
  <2>1. v # w /\ x # w
    BY <1>1, <1>2
  <2> QED
    BY <1>2, <2>1 DEF FenceInv, TokensApart
<1>5. GapBelow'
  <2> SUFFICES ASSUME NEW u \in Writer, NEW v \in Writer, NEW t \in Nat, NEW s \in Nat, u # v,
                      ~tookOver'[u], MayUse(u, t)', t > manifest.token, MayUse(v, s)'
               PROVE  s < manifest.token \/ s > t
    BY DEF GapBelow
  <2>1. u = w
    BY <1>1, <1>2
  <2> QED
    BY <1>2, <2>1
<1>6. StampedUp'
  <2> SUFFICES ASSUME NEW v \in Writer, NEW t \in Nat, tookOver'[v], MayUse(v, t)',
                      Open(v)' \/ pc'[v] = "closing"
               PROVE  t <= manifest.token
    BY DEF StampedUp
  <2> QED
    BY <1>2 DEF FenceInv, StampedUp
<1>7. HolderReads'
  BY DEF HolderReads
<1>8. LaterRefsForeign'
  <2> SUFFICES ASSUME NEW v \in Writer, Settled(v)', NEW k \in Refs(manifest), k.seq > man'[v].seq,
                      MayUse(v, k.token)'
               PROVE  FALSE
    BY DEF LaterRefsForeign
  <2>1. k.token \in Nat /\ k.seq \in Nat /\ k.seq <= manifest.seq
    BY <1>1, ManifestFields DEF Refs, Keys, ControlInv, TrashInv, ManifestsWellFormed, WellFormed,
                                RefsInOrder
  <2>2. v # w
    BY <1>1, <2>1
  <2> QED
    BY <1>2, <2>1, <2>2 DEF FenceInv, LaterRefsForeign
<1> QED
  BY <1>3, <1>4, <1>5, <1>6, <1>7, <1>8 DEF FenceInv

(* A booting writer reads a manifest it outranks.  It is now to serve under *)
(* that manifest, and nobody else may use its token: such a writer and     *)
(* this one would each be in the other's gap.                              *)
LEMMA RereadFence ==
    ASSUME ControlInv, FenceInv, NEW w \in Writer, OthersAside(w), NEW own \in Nat,
           manifest' = manifest, leaseObj' = leaseObj, own > manifest.token, MayUse(w, own),
           ~tookOver[w], ~tookOver'[w], pc'[w] = "restore", man'[w] = manifest,
           \A t \in Nat : MayUse(w, t)' => t \in {own, manifest.token}
    PROVE  FenceInv'
<1>1. /\ manifest.token \in Nat /\ manifest \in Manifests /\ manifest.seq \in Nat
      /\ leaseObj.token \in Nat
  BY ManifestFields, ObjectFields DEF ControlInv, TrashInv, TypeOK, StoreTypeOK, LeaseTypeOK
<1>2. ASSUME NEW v \in Writer \ {w}
      PROVE  /\ \A t \in Nat : MayUse(v, t)' <=> MayUse(v, t)
             /\ Settled(v)' <=> Settled(v)
             /\ Open(v)' <=> Open(v)
             /\ tookOver'[v] = tookOver[v] /\ pc'[v] = pc[v] /\ man'[v] = man[v]
             /\ Held(v)' <=> Held(v)
  BY SameUse DEF OthersAside, SameLease, SameLocals, Held
<1>3. ASSUME NEW v \in Writer \ {w}, NEW s \in Nat, MayUse(v, s)
      PROVE  s < manifest.token \/ s > own
  BY <1>3 DEF FenceInv, GapBelow
<1>4. TokensBounded'
  <2> SUFFICES ASSUME NEW v \in Writer, NEW t \in Nat, MayUse(v, t)'
               PROVE  IF leaseObj.holder = v THEN t <= leaseObj.token
                      ELSE t < leaseObj.token \/ t < manifest.token
    BY DEF TokensBounded
  <2>1. CASE v = w
    <3>1. IF leaseObj.holder = w THEN own <= leaseObj.token ELSE own < leaseObj.token
      BY <1>1 DEF FenceInv, TokensBounded
    <3>2. t <= own
      BY <1>1, <2>1
    <3> QED
      BY <1>1, <2>1, <3>1, <3>2
  <2>2. CASE v # w
    BY <1>2, <2>2 DEF FenceInv, TokensBounded
  <2> QED
    BY <2>1, <2>2
<1>5. TokensApart'
  <2> SUFFICES ASSUME NEW v \in Writer, NEW x \in Writer, NEW t \in Nat, v # x,
                      MayUse(v, t)', MayUse(x, t)'
               PROVE  t < manifest.token /\ ~(Settled(v)' /\ Settled(x)')
    BY DEF TokensApart
  <2>1. v # w /\ x # w
    BY <1>1, <1>2, <1>3
  <2> QED
    BY <1>2, <2>1 DEF FenceInv, TokensApart
<1>6. GapBelow'
  <2> SUFFICES ASSUME NEW u \in Writer, NEW v \in Writer, NEW t \in Nat, NEW s \in Nat, u # v,
                      ~tookOver'[u], MayUse(u, t)', t > manifest.token, MayUse(v, s)'
               PROVE  s < manifest.token \/ s > t
    BY DEF GapBelow
  <2>1. CASE u = w
    <3>1. t = own /\ MayUse(v, s)
      BY <1>1, <1>2, <2>1
    <3> QED
      BY <1>3, <2>1, <3>1
  <2>2. CASE v = w
    <3>1. MayUse(u, t) /\ ~tookOver[u]
      BY <1>2, <2>2
    <3>2. t > own
      BY <1>1, <1>3, <2>2, <3>1
    <3>3. own < manifest.token \/ own > t
      BY <2>2, <3>1 DEF FenceInv, GapBelow
    <3> QED
      BY <1>1, <3>2, <3>3
  <2>3. CASE u # w /\ v # w
    BY <1>2, <2>3 DEF FenceInv, GapBelow
  <2> QED
    BY <2>1, <2>2, <2>3
<1>7. StampedUp'
  <2> SUFFICES ASSUME NEW v \in Writer, NEW t \in Nat, tookOver'[v], MayUse(v, t)',
                      Open(v)' \/ pc'[v] = "closing"
               PROVE  t <= manifest.token
    BY DEF StampedUp
  <2> QED
    BY <1>2 DEF FenceInv, StampedUp
<1>8. HolderReads'
  BY <1>2 DEF FenceInv, HolderReads
<1>9. LaterRefsForeign'
  <2> SUFFICES ASSUME NEW v \in Writer, Settled(v)', NEW k \in Refs(manifest), k.seq > man'[v].seq,
                      MayUse(v, k.token)'
               PROVE  FALSE
    BY DEF LaterRefsForeign
  <2>1. k.token \in Nat /\ k.seq \in Nat /\ k.seq <= manifest.seq
    BY <1>1, ManifestFields DEF Refs, Keys, ControlInv, TrashInv, ManifestsWellFormed, WellFormed,
                                RefsInOrder
  <2>2. v # w
    BY <1>1, <2>1
  <2> QED
    BY <1>2, <2>1, <2>2 DEF FenceInv, LaterRefsForeign
<1> QED
  BY <1>4, <1>5, <1>6, <1>7, <1>8, <1>9 DEF FenceInv

(* release() deletes the lease: its holder has stamped its token, or       *)
(* leaves a gap, so everybody else is below the manifest.                  *)
LEMMA ReleaseFence ==
    ASSUME ControlInv, FenceInv, NEW w \in Writer, OthersAside(w),
           manifest' = manifest, leaseObj' = Absent, Owns(w), pc[w] = "closing", QuietFor(w),
           \A t \in Nat : ~(MayUse(w, t)')
    PROVE  FenceInv'
<1>1. /\ manifest.token \in Nat /\ manifest \in Manifests /\ lz[w].token = leaseObj.token
      /\ leaseObj.token \in Nat /\ leaseObj.holder = w
  BY ManifestFields, ObjectFields
     DEF ControlInv, TrashInv, TypeOK, StoreTypeOK, LeaseTypeOK, LeaseInv, EtagMeansToken
<1>2. \A v \in Writer : QuietFor(v)
  BY SameUse DEF OthersAside
<1>3. MayUse(w, leaseObj.token)
  BY <1>1 DEF MayUse, Owns
<1>4. ASSUME NEW v \in Writer \ {w}, NEW s \in Nat, MayUse(v, s)
      PROVE  s < manifest.token
  <2>1. s < leaseObj.token \/ s < manifest.token
    BY <1>1, <1>4 DEF FenceInv, TokensBounded
  <2>2. CASE leaseObj.token <= manifest.token
    BY <1>1, <2>1, <2>2
  <2>3. CASE leaseObj.token > manifest.token
    <3>1. ~tookOver[w]
      BY <1>1, <1>3, <2>3 DEF FenceInv, StampedUp
    <3>2. s < manifest.token \/ s > leaseObj.token
      BY <1>1, <1>3, <1>4, <2>3, <3>1 DEF FenceInv, GapBelow
    <3> QED
      BY <1>1, <2>1, <3>2
  <2> QED
    BY <1>1, <2>2, <2>3
<1>5. TokensBounded'
  <2> SUFFICES ASSUME NEW v \in Writer, NEW t \in Nat, MayUse(v, t)'
               PROVE  t < manifest.token /\ leaseObj'.holder # v
    BY DEF TokensBounded
  <2> QED
    BY <1>2, <1>4, LeaseAssumption DEF QuietFor, Absent
<1> QED
  BY <1>1, <1>2, <1>5, QuietFence DEF Absent

(* A writer puts the manifest under a token it may use: nobody else may,   *)
(* as the manifest's does not fall, and no holder is still reading.        *)
LEMMA PutFence ==
    ASSUME ControlInv, FenceInv, TokenKept, ControlInv', NEW w \in Writer, OthersAside(w),
           UNCHANGED <<leaseObj, tookOver>>, manifest'.token \in Nat,
           MayUse(w, manifest'.token), man'[w] = manifest', pc'[w] \in {"serving", "closing"},
           \A k \in Refs(manifest') : k \in Refs(manifest) \/ k.token = manifest'.token,
           \A t \in Nat : MayUse(w, t)' => MayUse(w, t),
           \/ Open(w) /\ Settled(w)
           \/ \A t \in Nat : MayUse(w, t)' => t = manifest'.token
    PROVE  FenceInv'
<1> DEFINE top == manifest'.token
<1>1. /\ manifest.token \in Nat /\ top \in Nat /\ top >= manifest.token /\ leaseObj.token \in Nat
      /\ manifest \in Manifests /\ manifest' \in Manifests
  BY ManifestFields, ObjectFields
     DEF ControlInv, TrashInv, TypeOK, StoreTypeOK, LeaseTypeOK, TokenKept
<1>2. ASSUME NEW v \in Writer \ {w}
      PROVE  /\ \A t \in Nat : MayUse(v, t)' <=> MayUse(v, t)
             /\ Settled(v)' <=> Settled(v)
             /\ Open(v)' <=> Open(v)
             /\ pc'[v] = pc[v] /\ man'[v] = man[v] /\ lz'[v] = lz[v]
             /\ Held(v)' <=> Held(v)
  BY SameUse DEF OthersAside, SameLease, SameLocals, Held
<1>3. \A v \in Writer \ {w} : ~MayUse(v, top)
  BY <1>1 DEF FenceInv, TokensApart
<1>4. TokensBounded'
  <2> SUFFICES ASSUME NEW v \in Writer, NEW t \in Nat, MayUse(v, t)'
               PROVE  IF leaseObj.holder = v THEN t <= leaseObj.token
                      ELSE t < leaseObj.token \/ t < top
    BY DEF TokensBounded
  <2>1. MayUse(v, t)
    BY <1>2
  <2> QED
    BY <1>1, <2>1 DEF FenceInv, TokensBounded
<1>5. TokensApart'
  <2> SUFFICES ASSUME NEW v \in Writer, NEW x \in Writer, NEW t \in Nat, v # x,
                      MayUse(v, t)', MayUse(x, t)'
               PROVE  t < top /\ ~(Settled(v)' /\ Settled(x)')
    BY DEF TokensApart
  <2>1. MayUse(v, t) /\ MayUse(x, t)
    BY <1>2
  <2>2. t < manifest.token /\ ~(Settled(v) /\ Settled(x))
    BY <2>1 DEF FenceInv, TokensApart
  <2>3. v = w \/ x = w => Settled(w)
    BY <1>2, <1>3, <2>1
  <2> QED
    BY <1>1, <1>2, <2>2, <2>3
<1>6. GapBelow'
  <2> SUFFICES ASSUME NEW u \in Writer, NEW v \in Writer, NEW t \in Nat, NEW s \in Nat, u # v,
                      ~tookOver[u], MayUse(u, t)', t > top, MayUse(v, s)'
               PROVE  s < top \/ s > t
    BY DEF GapBelow
  <2>1. MayUse(u, t) /\ MayUse(v, s)
    BY <1>2
  <2>2. t > manifest.token
    BY <1>1
  <2>3. s < manifest.token \/ s > t
    BY <2>1, <2>2 DEF FenceInv, GapBelow
  <2> QED
    BY <1>1, <2>3
<1>7. StampedUp'
  <2> SUFFICES ASSUME NEW v \in Writer, NEW t \in Nat, tookOver[v], MayUse(v, t)',
                      Open(v)' \/ pc'[v] = "closing"
               PROVE  t <= top
    BY DEF StampedUp
  <2>1. CASE v = w /\ \A s \in Nat : MayUse(w, s)' => s = top
    BY <1>1, <2>1
  <2>2. CASE v = w /\ Open(w)
    <3>1. t <= manifest.token
      BY <2>2 DEF FenceInv, StampedUp
    <3> QED
      BY <1>1, <3>1
  <2>3. CASE v # w
    <3>1. t <= manifest.token
      BY <1>2, <2>3 DEF FenceInv, StampedUp
    <3> QED
      BY <1>1, <3>1
  <2> QED
    BY <2>1, <2>2, <2>3
<1>8. HolderReads'
  <2> SUFFICES ASSUME NEW v \in Writer, leaseObj.holder = v, Held(v)', ~tookOver[v],
                      pc'[v] \in {"restore", "upgrade"}
               PROVE  FALSE
    BY DEF HolderReads
  <2>1. v # w /\ Held(v)
    BY <1>2
  <2>2. lz[v].token = leaseObj.token
    BY <2>1 DEF ControlInv, HolderOwns, LeaseInv, EtagMeansToken
  <2>3. MayUse(v, leaseObj.token)
    BY <2>1, <2>2 DEF MayUse
  <2>4. top < leaseObj.token
    BY <1>1, <2>1 DEF FenceInv, TokensBounded
  <2>5. top < manifest.token \/ top > leaseObj.token
    BY <1>1, <2>1, <2>3, <2>4 DEF FenceInv, GapBelow
  <2> QED
    BY <1>1, <2>4, <2>5
<1>9. LaterRefsForeign'
  <2> SUFFICES ASSUME NEW v \in Writer, Settled(v)', NEW k \in Refs(manifest'),
                      k.seq > man'[v].seq, MayUse(v, k.token)'
               PROVE  FALSE
    BY DEF LaterRefsForeign
  <2>1. k.token \in Nat /\ k.seq \in Nat /\ k.seq <= manifest'.seq /\ manifest'.seq \in Nat
    BY <1>1, ManifestFields DEF Refs, Keys, ControlInv, TrashInv, ManifestsWellFormed, WellFormed,
                                RefsInOrder
  <2>2. v # w
    BY <2>1
  <2>3. k \in Refs(manifest)
    BY <1>2, <1>3, <2>1, <2>2
  <2> QED
    BY <1>2, <2>1, <2>2, <2>3 DEF FenceInv, LaterRefsForeign
<1> QED
  BY <1>4, <1>5, <1>6, <1>7, <1>8, <1>9 DEF FenceInv

----------------------------------------------------------------------------
(* The actions that give nobody a token.                                   *)
LEMMA DieQuiet ==
    ASSUME ControlInv, NEW w \in Writer, Die(w), lz'[w] \in {lz[w], Null},
           tookOver'[w] = tookOver[w] \/ lz'[w] = Null
    PROVE  QuietFor(w)
<1>1. /\ pc \in [Writer -> Pcs] /\ next \in [Writer -> {"upgrade", "stamp", "serving", "dead"}]
  BY DEF ControlInv, TrashInv, TypeOK, ProcessTypeOK
<1>2. pc'[w] = "dead" /\ next'[w] = "serving"
  BY <1>1 DEF Die, Goto
<1>3. ~(Open(w)') /\ ~(Settled(w)') /\ ~(Uploading(w)')
  BY <1>2 DEF Open, Settled, Candidate, Uploading
<1>4. Null.etag = 0
  BY DEF Null
<1> QED
  BY <1>2, <1>3, <1>4 DEF QuietFor, MayUse, Held

LEMMA BootQuiet ==
    ASSUME TrustedStore, ControlInv, NEW w \in Writer, Boot(w), ~Die(w),
           UNCHANGED <<manifest, lz, tookOver, call>>, ~(Reread(w) /\ Candidate(w)')
    PROVE  QuietFor(w)
<1>1. /\ pc \in [Writer -> Pcs] /\ next \in [Writer -> {"upgrade", "stamp", "serving", "dead"}]
      /\ man \in [Writer -> Manifests] /\ manifest.etag \in Nat /\ man[w].token \in Nat
      /\ lz[w].token \in Nat
  BY ManifestFields, FieldTypes
     DEF ControlInv, TrashInv, TypeOK, StoreTypeOK, ProcessTypeOK, LeaseInv
<1>2. BootFits(w) /\ (Held(w)' <=> Held(w))
  BY DEF ControlInv, BootsInOrder, Held
<1>3. ~Open(w) /\ ~Uploading(w) /\ pc[w] # "closing"
  BY DEF Boot, BootRead, BootLease, Reread, Restore, Upgrade, Stamp, StampGet, Seed, SeedPut,
         SeedGet, Open, Uploading
<1>4. CASE ~(Settled(w)') /\ ~(Open(w)') /\ ~(Uploading(w)') /\ pc'[w] \notin {"closing", "upgrade"}
           /\ (pc'[w] = "restore" => man'[w] = manifest)
  BY <1>2, <1>4 DEF QuietFor, MayUse
<1>5. CASE BootRead(w) \/ BootLease(w) \/ StampGet(w) \/ Stamp(w)
  <2>1. /\ pc'[w] \in {"leasing", "restore", "stampget"}
        /\ pc'[w] = "restore" => next'[w] # "upgrade" /\ man'[w] = manifest
    <3>1. [man[w] EXCEPT !.token = lz[w].token] \in Manifests
      BY <1>1 DEF Manifests
    <3>2. ~PutManifest(w, [man[w] EXCEPT !.token = lz[w].token])
      BY <1>1, <3>1, ManifestPut DEF ControlInv, TrashInv
    <3>3. CASE Stamp(w)
      BY <1>1, <3>2, <3>3 DEF Stamp, ManifestRefused, Goto
    <3>4. CASE BootRead(w) \/ BootLease(w) \/ StampGet(w)
      BY <1>1, <3>4 DEF BootRead, BootLease, StampGet, Goto, localVars
    <3> QED
      BY <1>5, <3>3, <3>4
  <2> QED
    BY <1>4, <2>1 DEF Settled, Candidate, Open, Uploading
<1>6. CASE Reread(w)
  <2>1. pc'[w] = "restore" /\ man'[w] = manifest /\ ~(Candidate(w)')
    BY <1>1, <1>6 DEF Reread, Goto
  <2> QED
    BY <1>4, <2>1 DEF Settled, Open, Uploading
<1>7. CASE Restore(w)
  <2>1. pc[w] = "restore" /\ pc'[w] = next[w] /\ next' = next /\ man' = man /\ next[w] # "dead"
    BY <1>1, <1>7 DEF Restore, Goto
  <2>2. next[w] \in {"upgrade", "stamp"}
    BY <1>2, <2>1 DEF BootFits
  <2>3. ~(Open(w)') /\ ~(Uploading(w)') /\ pc'[w] # "closing"
    BY <2>1, <2>2 DEF Open, Uploading
  <2>4. Settled(w)' => Settled(w)
    BY <1>2, <2>1, <2>3 DEF Settled, Candidate
  <2> QED
    BY <1>2, <2>1, <2>3, <2>4 DEF QuietFor, MayUse
<1>8. CASE Upgrade(w)
  <2>1. pc[w] = "upgrade" /\ pc'[w] = "serving" /\ UNCHANGED localVars /\ lz[w].token > man[w].token
    BY <1>1, <1>8 DEF Upgrade, Goto
  <2>2. Settled(w) /\ ~tookOver[w]
    BY <1>2, <2>1 DEF Settled, Candidate, BootFits, Booting
  <2>3. /\ ~(Uploading(w)')
        /\ \A c \in Call : call'[w][c].at # "renew"
    BY <1>2, <2>1 DEF Uploading, BootFits, Booting, NoCall
  <2>4. man'[w] = man[w] /\ lz'[w] = lz[w]
    BY <2>1 DEF localVars
  <2>5. \A t \in Nat : MayUse(w, t)' => MayUse(w, t)
    BY <1>2, <2>2, <2>3, <2>4 DEF MayUse
  <2> QED
    BY <2>1, <2>2, <2>4, <2>5 DEF QuietFor
<1>9. ~(Seed(w) \/ SeedPut(w) \/ SeedGet(w))
  BY <1>2 DEF Seed, SeedPut, SeedGet, BootFits
<1> QED
  BY <1>5, <1>6, <1>7, <1>8, <1>9 DEF Boot

LEMMA CommitQuiet ==
    ASSUME TrustedStore, ControlInv, NEW w \in Writer, Commit(w), UNCHANGED <<manifest, man>>
    PROVE  QuietFor(w)
<1>1. /\ pc \in [Writer -> Pcs] /\ pend \in [Writer -> Commits]
  BY DEF ControlInv, TrashInv, TypeOK, ProcessTypeOK
<1>2. UNCHANGED <<lz, tookOver, call>> /\ Open(w) /\ Settled(w)
  BY DEF Commit, CommitRebaseline, CommitIncremental, CommitSnapshot, CommitNothing, Begin, Upload,
         Swap, leaseVars, Open, Settled
<1>3. pc'[w] \in {"serving", "uploading", "swapping", "closing"}
  BY <1>1 DEF Commit, CommitRebaseline, CommitIncremental, CommitSnapshot, CommitNothing, Begin,
         Upload, Swap, AfterCommit, Goto
<1>4. Uploading(w)' => MayUse(w, pend'[w].key.token)
  <2>1. CASE Upload(w)
    <3>1. Uploading(w) /\ pend' = pend
      BY <2>1 DEF Upload, Uploading, TrustedStore
    <3> QED
      BY <3>1 DEF MayUse
  <2>2. CASE Swap(w) \/ CommitNothing(w)
    <3>1. pc'[w] \in {"serving", "closing"}
      BY <1>1, <2>2 DEF Swap, CommitNothing, AfterCommit, Goto
    <3> QED
      BY <3>1 DEF Uploading
  <2>3. CASE CommitRebaseline(w) \/ CommitIncremental(w) \/ CommitSnapshot(w)
    <3>1. pend'[w].key.token = Token(w)
      BY <1>1, <2>3 DEF CommitRebaseline, CommitIncremental, CommitSnapshot, Begin, CommitKey, Key
    <3> QED
      BY <1>2, <3>1 DEF MayUse, Token
  <2> QED
    BY <2>1, <2>2, <2>3 DEF Commit
<1>5. ASSUME NEW t \in Nat, MayUse(w, t)'
      PROVE  MayUse(w, t)
  BY <1>2, <1>4, <1>5 DEF MayUse, Held
<1> QED
  BY <1>2, <1>3, <1>5 DEF QuietFor

LEMMA ServeQuiet ==
    ASSUME TrustedStore, ControlInv, NEW w \in Writer,
           Write(w) \/ Validate(w) \/ Close(w) \/ Release(w)
    PROVE  QuietFor(w)
<1>1. /\ pc \in [Writer -> Pcs] /\ LeaseInv /\ Null.etag = 0
      /\ closing[w] => Open(w) \/ pc[w] = "closing"
  BY DEF ControlInv, TrashInv, TypeOK, ProcessTypeOK, ProcessInv, ClosingIsOpen, Null
<1>2. /\ Open(w) \/ pc[w] = "closing"
      /\ pc'[w] = pc[w] \/ (Open(w) /\ pc'[w] = "closing" /\ ~Uploading(w))
      /\ UNCHANGED <<man, pend, next>>
  BY <1>1 DEF Write, Validate, Close, Release, localVars, Goto, Open, Uploading
<1>3. /\ pc'[w] \notin {"restore", "upgrade"} /\ pc[w] \notin {"restore", "upgrade"}
      /\ Open(w)' => Open(w)
      /\ Uploading(w)' => Uploading(w)
  BY <1>2 DEF Open, Uploading
<1>4. tookOver' = tookOver
  BY <1>1, ValidateOutcome, ReleaseOutcome DEF Write, Validate, Close, Release, leaseVars
<1>5. CASE call' = call /\ lz'[w] \in {lz[w], Null}
  BY <1>1, <1>2, <1>3, <1>4, <1>5 DEF QuietFor, MayUse, Settled, Candidate, Held
<1>6. CASE Validate(w)
  <2>1. /\ Held(w)' => \/ Held(w) /\ lz'[w].token = lz[w].token
                       \/ \E c \in Call : call[w][c].at = "renew" /\ lz'[w].token = call[w][c].token
        /\ \A c \in Call : call'[w][c].at = "renew" =>
              \/ call'[w][c] = call[w][c]
              \/ Held(w) /\ call'[w][c].token = lz[w].token
        /\ Open(w)
    BY <1>1, <1>6, ValidateOutcome DEF Validate
  <2>2. Settled(w)' => Settled(w)
    BY <2>1 DEF Settled
  <2>3. ASSUME NEW t \in Nat, MayUse(w, t)'
        PROVE  MayUse(w, t)
    BY <1>2, <1>3, <2>1, <2>2, <2>3 DEF MayUse
  <2> QED
    BY <1>2, <1>3, <1>4, <2>2, <2>3 DEF QuietFor
<1>7. CASE Release(w)
  BY <1>1, <1>5, <1>7, ReleaseOutcome DEF Release
<1>8. CASE Write(w) \/ Close(w)
  BY <1>5, <1>8 DEF Write, Close, leaseVars
<1> QED
  BY <1>6, <1>7, <1>8

----------------------------------------------------------------------------
(* So a step of a writer is of one of six kinds.  It gives nobody a token, *)
(* and lease.json keeps its holder and its token ...                       *)
NoToken(w) ==
    /\ manifest' = manifest
    /\ leaseObj'.token = leaseObj.token /\ leaseObj'.holder = leaseObj.holder
    /\ QuietFor(w)

(* ... or acquire() succeeds ...                                           *)
Acquires(w) ==
    /\ manifest' = manifest
    /\ leaseObj'.holder = w /\ leaseObj'.token \in Nat
    /\ pc'[w] = "leasing"
    /\ \A t \in Nat : MayUse(w, t)' => t = leaseObj'.token
    /\ \/ leaseObj.holder = NoOne
       \/ tookOver'[w] /\ leaseObj'.token > leaseObj.token

(* ... or upgradeToken(), from the manifest that the holder has read ...   *)
Upgrades(w) ==
    /\ manifest' = manifest
    /\ Owns(w) /\ leaseObj.holder = w /\ leaseObj.token <= manifest.token
    /\ leaseObj'.holder = w /\ leaseObj'.token = manifest.token + 1
    /\ ~tookOver'[w] /\ pc[w] = "upgrade" /\ pc'[w] = "serving" /\ man'[w] = manifest
    /\ \A t \in Nat : MayUse(w, t)' => t \in {manifest.token, manifest.token + 1}

(* ... or the second read of the manifest finds one that w outranks ...    *)
Outranks(w) ==
    /\ manifest' = manifest /\ leaseObj' = leaseObj
    /\ lz[w].token \in Nat /\ lz[w].token > manifest.token /\ MayUse(w, lz[w].token)
    /\ ~tookOver[w] /\ ~tookOver'[w]
    /\ pc[w] = "leasing" /\ pc'[w] = "restore" /\ man'[w] = manifest
    /\ \A t \in Nat : MayUse(w, t)' => t \in {lz[w].token, manifest.token}

(* ... or release() deletes the lease ...                                  *)
Deletes(w) ==
    /\ manifest' = manifest /\ leaseObj' = Absent
    /\ Owns(w) /\ pc[w] = "closing"
    /\ QuietFor(w) /\ \A t \in Nat : ~(MayUse(w, t)')

(* ... or a manifest is put, on top of the one that is there: by the stamp *)
(* of a take-over, or by a commit.                                         *)
PutsOn(w) ==
    /\ UNCHANGED <<leaseObj, tookOver>>
    /\ man[w] = manifest /\ man'[w] = manifest'
    /\ pc'[w] \in {"serving", "closing"}
    /\ manifest' \in Manifests /\ manifest'.etag = manifest.etag + 1
    /\ MayUse(w, manifest'.token)
    /\ \A t \in Nat : MayUse(w, t)' => MayUse(w, t)
    /\ \/ /\ pc[w] = "stamp"
          /\ manifest'.seq = manifest.seq /\ Refs(manifest') = Refs(manifest)
          /\ \A t \in Nat : MayUse(w, t)' => t = manifest'.token
       \/ /\ pc[w] = "swapping"
          /\ manifest'.seq = manifest.seq + 1 /\ pend[w].key.seq = manifest'.seq
          /\ manifest'.token = pend[w].key.token
          /\ Refs(manifest') \subseteq Refs(manifest) \cup {pend[w].key}

LEMMA PutKind ==
    ASSUME TrustedStore, ControlInv, NEW w \in Writer, StepOf(w), manifest' # manifest
    PROVE  PutsOn(w)
<1>1. /\ TypeOK /\ BootFits(w) /\ OthersAside(w) /\ man \in [Writer -> Manifests]
      /\ pc \in [Writer -> Pcs] /\ pend[w] \in Commits /\ manifest.seq \in Nat
  BY OthersSame, ManifestFields
     DEF ControlInv, TrashInv, BootsInOrder, OthersAside, TypeOK, StoreTypeOK, ProcessTypeOK
<1>2. CASE /\ Stamp(w) /\ Puts(w, [man[w] EXCEPT !.token = lz[w].token])
           /\ pc[w] = "stamp" /\ pc'[w] = "serving"
  <2> DEFINE m == [man[w] EXCEPT !.token = lz[w].token]
  <2>1. Held(w) /\ \A c \in Call : call[w][c] = NoCall
    BY <1>1, <1>2 DEF BootFits, Booting
  <2>2. man[w] = manifest
    BY <1>2 DEF Puts, CanSwap, ControlInv, TrashInv, ManifestsMatch, Current
  <2>3. /\ m \in Manifests /\ m.token = lz[w].token /\ m.seq = manifest.seq
        /\ Refs(m) = Refs(manifest)
    BY <1>1, <1>2, <2>2 DEF Puts, Manifests, Refs, SegKeys
  <2>4. /\ manifest'.token = lz[w].token
        /\ manifest'.etag = manifest.etag + 1 /\ manifest'.seq = manifest.seq
        /\ Refs(manifest') = Refs(manifest)
    BY <1>1, <1>2, <2>3, ManifestPut DEF Puts
  <2>5. man'[w] = manifest' /\ UNCHANGED <<leaseObj, tookOver, lz, call>>
    BY <1>1, <1>2 DEF Puts, leaseVars
  <2>6. MayUse(w, manifest'.token)
    BY <2>1, <2>4 DEF MayUse
  <2>7. \A t \in Nat : MayUse(w, t)' => t = manifest'.token
    BY <1>2, <2>1, <2>4, <2>5 DEF MayUse, Uploading, NoCall
  <2>8. manifest' \in Manifests
    BY <1>1, <1>2, <2>3, ManifestPut DEF Puts
  <2> QED
    BY <1>2, <2>2, <2>4, <2>5, <2>6, <2>7, <2>8 DEF PutsOn
<1>3. CASE /\ Swap(w) /\ Puts(w, pend[w].m)
           /\ pc[w] = "swapping" /\ pc'[w] \in {"serving", "closing"}
  <2>1. Open(w) /\ Settled(w) /\ Uploading(w) /\ ~(Uploading(w)')
    BY <1>3 DEF Open, Settled, Uploading
  <2>2. man[w] = manifest
    BY <1>3 DEF Puts, CanSwap, ControlInv, TrashInv, ManifestsMatch, Current
  <2>3. /\ Extends(manifest, pend[w].m, pend[w].key, pend[w].body)
        /\ pend[w].m.token = pend[w].key.token
    BY <2>1, <2>2 DEF ControlInv, TrashInv, PendExtends
  <2>4. /\ Refs(pend[w].m) \subseteq Refs(manifest) \cup {pend[w].key}
        /\ pend[w].m.seq = manifest.seq + 1 /\ pend[w].key.seq = manifest.seq + 1
    BY <2>3 DEF Extends, Refs, SegKeys
  <2>5. /\ manifest'.token = pend[w].key.token /\ Refs(manifest') = Refs(pend[w].m)
        /\ manifest'.seq = pend[w].m.seq /\ manifest'.etag = manifest.etag + 1
    BY <1>1, <1>3, <2>3, ManifestPut DEF Puts
  <2>6. man'[w] = manifest' /\ UNCHANGED <<leaseObj, tookOver, lz, call>>
    BY <1>1, <1>3 DEF Puts, leaseVars
  <2>7. MayUse(w, manifest'.token)
    BY <2>1, <2>5 DEF MayUse
  <2>8. ASSUME NEW t \in Nat, MayUse(w, t)'
        PROVE  MayUse(w, t)
    BY <2>1, <2>6, <2>7, <2>8 DEF MayUse, Held
  <2>9. manifest' \in Manifests
    BY <1>1, <1>3, ManifestPut DEF Puts
  <2> QED
    BY <1>3, <2>2, <2>4, <2>5, <2>6, <2>7, <2>8, <2>9 DEF PutsOn
<1> QED
  BY <1>2, <1>3, ManifestOutcome

LEMMA BootLeaseKind ==
    ASSUME TrustedStore, ControlInv, NEW w \in Writer, BootLease(w)
    PROVE  NoToken(w) \/ Acquires(w)
<1>1. /\ LeaseInv /\ BootFits(w) /\ floor[w] \in Nat
      /\ leaseObj.token \in Nat /\ AcquireStep(w)
      /\ manifest' = manifest /\ pc[w] = "leasing"
  BY ObjectFields
     DEF ControlInv, BootsInOrder, TrashInv, TypeOK, LeaseTypeOK, BootLease, storeVars
<1>2. CASE UNCHANGED <<leaseObj, lz, tookOver>>
  <2>1. CASE Die(w)
    BY <1>1, <1>2, <2>1, DieQuiet DEF NoToken
  <2>2. CASE ~Die(w)
    <3>1. call' = call
      BY <1>1, AcquireOutcome
    <3>2. ~(Candidate(w)')
      BY <1>1, <2>2 DEF BootLease, Candidate
    <3> QED
      BY <1>1, <1>2, <2>2, <3>1, <3>2, BootQuiet DEF Boot, NoToken
  <2> QED
    BY <2>1, <2>2
<1>3. ASSUME NEW top \in Nat, GotLease(w, top), lpc'[w] = "held",
             leaseObj.holder = NoOne \/ (tookOver'[w] /\ top > leaseObj.token)
      PROVE  Acquires(w)
  <2>1. pc'[w] = "leasing" /\ lz'[w].token = top
    BY <1>1, <1>3 DEF BootLease, GotLease
  <2>2. \A t \in Nat : MayUse(w, t)' => t = top
    BY <2>1 DEF MayUse, Settled, Candidate, Open, Uploading
  <2> QED
    BY <1>1, <1>3, <2>1, <2>2 DEF Acquires, GotLease
<1>4. CASE /\ leaseObj.etag = 0 /\ GotLease(w, floor[w] + 1)
           /\ lpc'[w] = "held" /\ ~tookOver'[w]
  <2>1. leaseObj.holder = NoOne
    BY <1>1, <1>4, ObjectFields DEF LeaseInv, LeaseTypeOK, LeaseObject, Absent, Pos
  <2> QED
    BY <1>1, <1>3, <1>4, <2>1
<1>5. CASE /\ \E t \in Nat : t > leaseObj.token /\ t > floor[w] /\ GotLease(w, t)
           /\ lpc'[w] = "held" /\ tookOver'[w]
  BY <1>3, <1>5
<1> QED
  BY <1>1, <1>2, <1>4, <1>5, AcquireOutcome

LEMMA UpgradeKind ==
    ASSUME TrustedStore, ControlInv, FenceInv, NEW w \in Writer, Upgrade(w)
    PROVE  NoToken(w) \/ Upgrades(w)
<1>1. /\ LeaseInv /\ BootFits(w) /\ manifest.token \in Nat /\ man[w].token \in Nat
      /\ leaseObj.token \in Nat /\ pc \in [Writer -> Pcs]
      /\ manifest' = manifest /\ pc[w] = "upgrade"
  BY ManifestFields, ObjectFields
     DEF ControlInv, BootsInOrder, TrashInv, TypeOK, StoreTypeOK, ProcessTypeOK, LeaseTypeOK,
         Upgrade, storeVars
<1>2. CASE UNCHANGED leaseVars /\ ~Die(w)
  BY <1>1, <1>2, BootQuiet DEF Boot, Reread, leaseVars, NoToken
<1>3. CASE UpgradeToken(w, man[w].token) /\ leaseObj' = leaseObj /\ lz'[w] = Null
  <2>1. Die(w)
    BY <1>1, <1>3 DEF Upgrade, Null, leaseVars, UpgradeToken, Held
  <2> QED
    BY <1>1, <1>3, <2>1, DieQuiet DEF NoToken
<1>4. CASE /\ UpgradeToken(w, man[w].token) /\ UNCHANGED <<tookOver, call>>
           /\ leaseObj.holder = w /\ leaseObj.token <= man[w].token /\ Owns(w)
           /\ GotLease(w, man[w].token + 1)
  <2>1. pc'[w] = "serving" /\ UNCHANGED localVars
    BY <1>1, <1>4 DEF Upgrade, GotLease, Goto, UpgradeToken
  <2>2. ~tookOver[w] /\ Held(w) /\ \A c \in Call : call[w][c] = NoCall
    BY <1>1 DEF BootFits, Booting
  <2>3. man[w] = manifest
    BY <1>1, <1>4, <2>2 DEF FenceInv, HolderReads
  <2>4. ASSUME NEW t \in Nat, MayUse(w, t)'
        PROVE  t \in {manifest.token, manifest.token + 1}
    BY <1>1, <1>4, <2>1, <2>2, <2>3, <2>4 DEF MayUse, GotLease, Uploading, NoCall, localVars
  <2> QED
    BY <1>1, <1>4, <2>1, <2>2, <2>3, <2>4 DEF Upgrades, GotLease, localVars
<1>5. ~Die(w) \/ UpgradeToken(w, man[w].token)
  BY <1>1 DEF Upgrade, Die, Goto
<1> QED
  BY <1>1, <1>2, <1>3, <1>4, <1>5, UpgradeOutcome DEF Upgrade

LEMMA RereadKind ==
    ASSUME TrustedStore, ControlInv, NEW w \in Writer, Reread(w)
    PROVE  NoToken(w) \/ Outranks(w)
<1>1. /\ BootFits(w) /\ lz[w].token \in Nat /\ pc[w] = "leasing" /\ lpc[w] = "held"
      /\ pc \in [Writer -> Pcs] /\ man \in [Writer -> Manifests]
      /\ next \in [Writer -> {"upgrade", "stamp", "serving", "dead"}]
  BY FieldTypes DEF ControlInv, BootsInOrder, TrashInv, TypeOK, ProcessTypeOK, LeaseInv, Reread
<1>2. UNCHANGED leaseVars /\ manifest' = manifest /\ pc'[w] = "restore" /\ man'[w] = manifest
  BY <1>1 DEF Reread, Goto, storeVars
<1>3. UNCHANGED <<leaseObj, lz, tookOver, call>>
  BY <1>2 DEF leaseVars
<1>4. CASE ~(Candidate(w)')
  <2>1. ~Die(w)
    BY <1>1, <1>2 DEF Die, Goto
  <2> QED
    BY <1>2, <1>3, <1>4, <2>1, BootQuiet DEF Boot, NoToken
<1>5. CASE Candidate(w)'
  <2>1. lz[w].token > manifest.token /\ Held(w) /\ ~tookOver[w]
    BY <1>1, <1>2, <1>3, <1>5 DEF Candidate, Reread, BootFits
  <2>2. MayUse(w, lz[w].token)
    BY <2>1 DEF MayUse
  <2>3. \A t \in Nat : MayUse(w, t)' => t \in {lz[w].token, manifest.token}
    BY <1>2, <1>3 DEF MayUse, Open, Uploading
  <2> QED
    BY <1>1, <1>2, <1>3, <2>1, <2>2, <2>3 DEF Outranks
<1> QED
  BY <1>4, <1>5

LEMMA StepKinds ==
    ASSUME TrustedStore, ControlInv, FenceInv, NEW w \in Writer, StepOf(w)
    PROVE  \/ NoToken(w) \/ Acquires(w) \/ Upgrades(w) \/ Outranks(w) \/ Deletes(w)
           \/ PutsOn(w) /\ manifest' # manifest
<1>1. /\ TypeOK /\ LeaseInv /\ BootFits(w) /\ ReleasesOwn
  BY DEF ControlInv, BootsInOrder, TrashInv
<1>2. CASE manifest' # manifest
  BY <1>2, PutKind
<1>3. CASE manifest' = manifest
  <2>1. CASE BootLease(w) \/ Upgrade(w) \/ Reread(w)
    BY <2>1, BootLeaseKind, UpgradeKind, RereadKind
  <2>2. CASE BootRead(w) \/ Restore(w) \/ Stamp(w) \/ StampGet(w) \/ Seed(w) \/ SeedPut(w) \/ SeedGet(w)
    <3>1. UNCHANGED <<leaseObj, lz, tookOver, call>> /\ Boot(w)
      BY <2>2 DEF BootRead, AcquireStart, Restore, Stamp, StampGet, Seed, SeedPut, SeedGet, leaseVars,
                  Boot
    <3>2. CASE Die(w)
      BY <1>3, <3>1, <3>2, DieQuiet DEF NoToken
    <3>3. CASE ~Die(w)
      <4>1. ~(Reread(w) /\ Candidate(w)')
        BY <2>2 DEF BootRead, Restore, Stamp, StampGet, Seed, SeedPut, SeedGet, Reread
      <4> QED
        BY <1>3, <3>1, <3>3, <4>1, BootQuiet DEF NoToken
    <3> QED
      BY <3>2, <3>3
  <2>3. CASE Commit(w)
    <3>1. UNCHANGED <<leaseObj, man>>
      <4>1. CASE Swap(w)
        <5>1. pend[w].m \in Manifests /\ manifest.etag \in Nat
          BY <1>1, ManifestFields DEF TypeOK, ProcessTypeOK, StoreTypeOK, Commits
        <5>2. ~PutManifest(w, pend[w].m)
          BY <1>1, <1>3, <5>1, ManifestPut
        <5> QED
          BY <4>1, <5>2 DEF Swap, leaseVars
      <4>2. CASE ~Swap(w)
        BY <2>3, <4>2 DEF Commit, CommitRebaseline, CommitIncremental, CommitSnapshot, CommitNothing,
                          Begin, Upload, leaseVars
      <4> QED
        BY <4>1, <4>2
    <3> QED
      BY <1>3, <2>3, <3>1, CommitQuiet DEF NoToken
  <2>4. CASE Write(w) \/ Validate(w) \/ Close(w) \/ Release(w)
    <3>1. QuietFor(w)
      BY <2>4, ServeQuiet
    <3>2. CASE leaseObj'.token = leaseObj.token /\ leaseObj'.holder = leaseObj.holder
      BY <1>3, <3>1, <3>2 DEF NoToken
    <3>3. CASE Release(w) /\ lpc[w] = "deleting" /\ leaseObj' = Absent /\ lz'[w] = Null
      <4>1. Owns(w) /\ pc[w] = "closing" /\ pc' = pc
        BY <1>1, <3>3 DEF ReleasesOwn, Releasing, Release
      <4>2. lz'[w] = Null
        BY <3>3
      <4>3. \A t \in Nat : ~(MayUse(w, t)')
        BY <4>1, <4>2 DEF MayUse, Held, Null, Open, Settled, Candidate, Uploading
      <4> QED
        BY <1>3, <3>1, <3>3, <4>1, <4>3 DEF Deletes
    <3>4. CASE Release(w)
      BY <1>1, <3>2, <3>3, <3>4, ReleaseOutcome DEF Release
    <3>5. CASE Validate(w)
      BY <1>1, <3>2, <3>5, ValidateOutcome DEF Validate, GotLease
    <3>6. CASE Write(w) \/ Close(w)
      BY <3>2, <3>6 DEF Write, Close, leaseVars
    <3> QED
      BY <2>4, <3>4, <3>5, <3>6
  <2>5. CASE Exit(w) \/ Crash(w)
    <3>1. Die(w) /\ leaseObj' = leaseObj /\ lz'[w] \in {lz[w], Null}
          /\ (tookOver'[w] = tookOver[w] \/ lz'[w] = Null)
      <4>1. lz \in [Writer -> {Null} \cup [etag : Pos, token : Pos]]
            /\ tookOver \in [Writer -> BOOLEAN]
        BY <1>1 DEF LeaseInv, LeaseTypeOK
      <4> QED
        BY <2>5, <4>1 DEF Exit, Crash, LeaseCrash, Drop, leaseVars
    <3> QED
      BY <1>3, <3>1, DieQuiet DEF NoToken
  <2> QED
    BY <2>1, <2>2, <2>3, <2>4, <2>5 DEF StepOf, Boot
<1> QED
  BY <1>2, <1>3

(* Each kind keeps the invariant.                                          *)
LEMMA StepFence ==
    ASSUME TrustedStore, ControlInv, FenceInv, TokenKept, ControlInv', NEW w \in Writer, StepOf(w)
    PROVE  FenceInv'
<1>1. /\ OthersAside(w) /\ manifest.token \in Nat /\ manifest \in Manifests
      /\ leaseObj.token \in Nat /\ leaseObj \in LeaseObject
  BY OthersSame, ManifestFields, ObjectFields
     DEF OthersAside, ControlInv, TrashInv, TypeOK, StoreTypeOK, LeaseTypeOK
<1>2. CASE NoToken(w)
  <2>1. \A v \in Writer : QuietFor(v)
    BY <1>1, <1>2, SameUse DEF OthersAside, NoToken
  <2> QED
    BY <1>1, <1>2, <2>1, QuietBounds, QuietFence DEF FenceInv, NoToken
<1>3. CASE Acquires(w)
  <2>1. ASSUME NEW v \in Writer \ {w}, NEW s \in Nat, MayUse(v, s)
        PROVE  s < manifest.token \/ (tookOver'[w] /\ s < leaseObj'.token)
    <3>1. CASE leaseObj.holder = NoOne
      <4>1. leaseObj.token = 0
        BY <1>1, <3>1, LeaseAssumption DEF LeaseObject, Absent
      <4> QED
        BY <1>1, <2>1, <3>1, <4>1, LeaseAssumption DEF FenceInv, TokensBounded
    <3>2. CASE tookOver'[w] /\ leaseObj'.token > leaseObj.token
      BY <1>1, <1>3, <2>1, <3>2 DEF FenceInv, TokensBounded, Acquires
    <3> QED
      BY <1>3, <3>1, <3>2 DEF Acquires
  <2> QED
    BY <1>1, <1>3, <2>1, AcquireFence DEF Acquires
<1>4. CASE Upgrades(w)
  <2>1. ASSUME NEW v \in Writer \ {w}, NEW s \in Nat, MayUse(v, s)
        PROVE  s < manifest.token
    BY <1>1, <1>4, <2>1 DEF FenceInv, TokensBounded, Upgrades
  <2> QED
    BY <1>1, <1>4, <2>1, UpgradeFence DEF Upgrades
<1>5. CASE Outranks(w)
  BY <1>1, <1>5, RereadFence DEF Outranks
<1>6. CASE Deletes(w)
  BY <1>1, <1>6, ReleaseFence DEF Deletes
<1>7. CASE PutsOn(w)
  <2>1. /\ manifest'.token \in Nat
        /\ \A k \in Refs(manifest') : k \in Refs(manifest) \/ k.token = manifest'.token
        /\ \/ Open(w) /\ Settled(w)
           \/ \A t \in Nat : MayUse(w, t)' => t = manifest'.token
    BY <1>7, ManifestFields DEF PutsOn, Open, Settled
  <2> QED
    BY <1>1, <1>7, <2>1, PutFence DEF PutsOn
<1> QED
  BY <1>2, <1>3, <1>4, <1>5, <1>6, <1>7, StepKinds

(* The deletes and the TTL give nobody a token either.                     *)
LEMMA OtherStepFence ==
    ASSUME ControlInv, FenceInv, DeleteLands \/ TtlPasses \/ UNCHANGED vars
    PROVE  FenceInv'
<1>1. leaseObj'.token = leaseObj.token /\ leaseObj'.holder = leaseObj.holder
  <2>1. Expire => leaseObj'.token = leaseObj.token /\ leaseObj'.holder = leaseObj.holder
    BY ObjectFields DEF Expire, ControlInv, LeaseInv, LeaseTypeOK, LeaseObject, Absent
  <2> QED
    BY <2>1 DEF DeleteLands, TtlPasses, vars, leaseVars
<1>2. UNCHANGED <<manifest, pc, localVars, lpc, lz, tookOver, floor, seen, call>>
  BY DEF DeleteLands, TtlPasses, Expire, vars, leaseVars, storeVars
<1>3. \A v \in Writer : SameLease(v) /\ SameLocals(v)
  BY <1>2 DEF SameLease, SameLocals, localVars
<1>4. manifest \in Manifests /\ \A v \in Writer : QuietFor(v)
  BY <1>3, SameUse DEF ControlInv, TrashInv, TypeOK, StoreTypeOK
<1> QED
  BY <1>1, <1>2, <1>4, QuietBounds, QuietFence DEF FenceInv

(* The invariant holds initially ...                                       *)
LEMMA InitFence == TrustedStore /\ Init => ControlInv /\ FenceInv
<1> SUFFICES ASSUME TrustedStore, Init
             PROVE  ControlInv /\ FenceInv
  OBVIOUS
<1>1. LeaseInv /\ TrashInv /\ ProcessInv
  BY LeaseInitInv, InitTrash, InitRestore DEF Init, RestoreInv
<1>2. manifest.etag = 1 /\ manifest.token = 1
  BY DEF Init, TrustedStore, FirstManifest, NoManifest
<1>3. \A v \in Writer : /\ ~Held(v) /\ pc[v] = "off" /\ lpc[v] = "idle" /\ ~closing[v]
                        /\ floor[v] = 0 /\ man[v].token = 0
                        /\ \A c \in Call : call[v][c] = NoCall
  BY DEF Init, LeaseInit, Held, Null, NoManifest
<1>4. BootsInOrder /\ TokensBehind /\ HolderOwns /\ ReleasesOwn
  BY <1>2, <1>3 DEF BootsInOrder, BootFits, Booting, TokensBehind, HolderOwns, ReleasesOwn, Releasing
<1>5. \A v \in Writer : ~Settled(v) /\ \A t \in Nat : ~MayUse(v, t)
  BY <1>3 DEF MayUse, Settled, Candidate, Open, Uploading
<1>6. FenceInv
  BY <1>3, <1>5 DEF FenceInv, TokensBounded, TokensApart, GapBelow, StampedUp, HolderReads,
                    LaterRefsForeign
<1> QED
  BY <1>1, <1>2, <1>4, <1>6 DEF ControlInv

(* ... and every step keeps it that does not lower the manifest's token.   *)
LEMMA NextFence ==
    ASSUME TrustedStore, ControlInv, FenceInv, [Next]_vars, [TokenKept]_vars
    PROVE  ControlInv' /\ FenceInv'
<1>1. TokenKept
  BY ManifestFields DEF TokenKept, vars, storeVars, ControlInv, TrashInv, TypeOK, StoreTypeOK
<1>2. ControlInv'
  BY <1>1, NextControl
<1>3. (\E w \in Writer : StepOf(w)) \/ DeleteLands \/ TtlPasses \/ UNCHANGED vars
  BY DEF Next, StepOf
<1> QED
  BY <1>1, <1>2, <1>3, StepFence, OtherStepFence

(* With it, no two commits under way share a key, and none writes a key of *)
(* the manifest: the sequence number alone would not do.                   *)
LEMMA FenceKeepsKeysApart == ControlInv /\ FenceInv => NoKeyClash
<1> SUFFICES ASSUME ControlInv, FenceInv, NEW w \in Writer, Uploading(w)
             PROVE  /\ pend[w].key \notin Refs(manifest)
                    /\ \A v \in Writer \ {w} : Uploading(v) => pend[v].key # pend[w].key
  BY DEF NoKeyClash
<1>1. \A v \in Writer : Uploading(v) =>
         /\ Settled(v) /\ MayUse(v, pend[v].key.token) /\ pend[v].key.token \in Nat
         /\ pend[v].key.seq = man[v].seq + 1 /\ man[v].seq \in Nat
  BY ManifestFields DEF Uploading, Settled, Open, MayUse, ControlInv, TrashInv, PendExtends, Extends,
                        TypeOK, ProcessTypeOK, Commits, Keys
<1>2. pend[w].key \notin Refs(manifest)
  BY <1>1 DEF FenceInv, LaterRefsForeign
<1>3. \A v \in Writer \ {w} : Uploading(v) => pend[v].key # pend[w].key
  BY <1>1 DEF FenceInv, TokensApart
<1> QED
  BY <1>2, <1>3

----------------------------------------------------------------------------
(* What fencing tokens are for (snapshotKeyFor and segmentKeyFor put them  *)
(* in the names of objects): on a store that answers every PUT once, and   *)
(* as long as the manifest's token does not fall, no commit writes an      *)
(* object that the manifest names or that another commit is writing,       *)
(* however many writers are taken over and go on as zombies.               *)
THEOREM TokensKeepKeysApart ==
    ASSUME TrustedStore
    PROVE  Spec /\ TokenMonotone => []NoKeyClash
<1>1. Init => ControlInv /\ FenceInv
  BY InitFence
<1>2. ControlInv /\ FenceInv /\ [Next]_vars /\ [TokenKept]_vars => ControlInv' /\ FenceInv'
  BY NextFence
<1>3. ControlInv /\ FenceInv => NoKeyClash
  BY FenceKeepsKeysApart
<1>4. TokenMonotone <=> [][TokenKept]_vars
  BY DEF TokenMonotone, TokenKept
<1> QED
  BY <1>1, <1>2, <1>3, <1>4, PTL DEF Spec

(* So "a fenced zombie's in-flight upload then lands at a key nobody       *)
(* references" (snapshotKeyFor).                                           *)
THEOREM ZombieUploadsMiss ==
    ASSUME TrustedStore
    PROVE  Spec /\ TokenMonotone => UploadsMissManifest
<1>1. Spec /\ TokenMonotone => []NoKeyClash
  BY TokensKeepKeysApart
<1>2. NoKeyClash => [\A w \in Writer : Upload(w) => pend[w].key \notin Refs(manifest)]_vars
  BY DEF NoKeyClash, Upload, Uploading
<1> QED
  BY <1>1, <1>2, PTL DEF UploadsMissManifest

(* And so nothing is asked of the run but its tokens: the system is the    *)
(* log of DurableLog, keeps every acknowledged row, and can at every       *)
(* moment be restored.                                                     *)
THEOREM TokensMakeItSafe ==
    ASSUME TrustedStore
    PROVE  Spec /\ TokenMonotone => ImplementsLog /\ []AckedDurable /\ []Restorable
<1>1. Spec /\ TokenMonotone => []NoKeyClash
  BY TokensKeepKeysApart
<1> QED
  BY <1>1, BucketIsLog, AckedIsDurable, BucketIsRestorable, PTL

----------------------------------------------------------------------------
(* What becomes of an object that no manifest names.  A commit that never  *)
(* swapped leaves one; if a later commit were to write it again, the       *)
(* collector might delete it in the very moment it is named.  The tokens   *)
(* forbid that: as long as such an object is newer than the manifest, its  *)
(* token is spent.                                                         *)
Ahead(k) == k.seq > manifest.seq /\ k.token >= manifest.token

(* w has uploaded k, and is to put the manifest that names it.             *)
InSwap(w, k) == pc[w] = "swapping" /\ pend[w].key = k

(* The token of k is no more than the lease's, so whoever takes the lease  *)
(* over outranks it; whoever else may use it is just about to put the      *)
(* manifest; and a clean acquisition leaves it in the gap above.           *)
Spent(k) ==
    Ahead(k) =>
        /\ leaseObj.holder \in Writer /\ k.token <= leaseObj.token
        /\ \A w \in Writer : MayUse(w, k.token) => InSwap(w, k)
        /\ \A w \in Writer, t \in Nat :
              ~tookOver[w] /\ MayUse(w, t) /\ t > manifest.token => k.token > t \/ InSwap(w, k)

(* A writer whose manifest has been replaced is behind it with its commits *)
(* or with its tokens.                                                     *)
Behind(w) ==
    Settled(w) /\ man[w] # manifest =>
        \/ manifest.seq > man[w].seq
        \/ \A t \in Nat : MayUse(w, t) => t < manifest.token

LaggardsBehind == \A w \in Writer : Behind(w)

FencedInv == ControlInv /\ FenceInv /\ LaggardsBehind

(* A commit that is over has left nothing that is ahead, unless its writer *)
(* has crashed.                                                            *)
LEMMA SwapLeaves ==
    ASSUME TrustedStore, FencedInv, NEW w \in Writer, StepOf(w), manifest' = manifest,
           NEW k \in Keys, InSwap(w, k), Ahead(k), NEW t \in Nat, MayUse(w, t)'
    PROVE  InSwap(w, k)'
<1>1. /\ TypeOK /\ ReleasesOwn /\ Behind(w) /\ pc[w] = "swapping" /\ pend[w].key = k
      /\ Uploading(w) /\ Settled(w) /\ Open(w) /\ k.token \in Nat /\ k.seq \in Nat
      /\ man[w].seq \in Nat /\ manifest \in Manifests /\ manifest.token \in Nat /\ manifest.seq \in Nat
      /\ pc \in [Writer -> Pcs] /\ pend \in [Writer -> Commits] /\ pend[w].m \in Manifests
      /\ manifest.etag \in Nat
  BY ManifestFields
     DEF FencedInv, LaggardsBehind, ControlInv, TrashInv, InSwap, Uploading, Settled, Open, Keys,
         TypeOK, StoreTypeOK, ProcessTypeOK, Commits
<1>2. k.seq = man[w].seq + 1
  BY <1>1 DEF FencedInv, ControlInv, TrashInv, PendExtends, Extends
<1>3. MayUse(w, k.token)
  BY <1>1 DEF MayUse
<1>4. man[w] = manifest
  BY <1>1, <1>2, <1>3 DEF Behind, Ahead
<1>5. ~Swap(w)
  <2>1. ~PutManifest(w, pend[w].m)
    BY <1>1, ManifestPut
  <2> QED
    BY <1>4, <2>1 DEF Swap, ManifestRefused, CanSwap
<1>6. ~Crash(w)
  <2> SUFFICES ASSUME Crash(w)
               PROVE  FALSE
    OBVIOUS
  <2>1. lz'[w] = Null /\ pc'[w] = "dead"
    BY <1>1 DEF Crash, LeaseCrash, Drop, Die, Goto, FencedInv, ControlInv, LeaseInv, LeaseTypeOK
  <2> QED
    BY <2>1 DEF MayUse, Held, Null, Open, Settled, Candidate, Uploading
<1>7. ~Boot(w) /\ ~Exit(w) /\ ~Release(w)
  BY <1>1 DEF Boot, BootRead, BootLease, Reread, Restore, Upgrade, Stamp, StampGet, Seed, SeedPut,
              SeedGet, Exit, Release, ReleasesOwn
<1>8. pc'[w] = pc[w] /\ pend'[w] = pend[w]
  BY <1>1, <1>5, <1>6, <1>7
     DEF StepOf, Commit, CommitRebaseline, CommitIncremental, CommitSnapshot, CommitNothing, Begin,
         Upload, Write, Validate, Close, Goto, localVars
<1> QED
  BY <1>1, <1>8 DEF InSwap

(* The others' commits stay where they are.                                *)
LEMMA InSwapSame ==
    ASSUME NEW v \in Writer, SameLocals(v), NEW k
    PROVE  InSwap(v, k)' <=> InSwap(v, k)
BY DEF InSwap, SameLocals

(* A step that gives nobody a token.                                       *)
LEMMA SpentQuiet ==
    ASSUME NEW k \in Keys, Spent(k), manifest' = manifest, leaseObj'.token = leaseObj.token,
           leaseObj'.holder = leaseObj.holder, \A v \in Writer : QuietFor(v),
           \A v \in Writer, t \in Nat :
              Ahead(k) /\ InSwap(v, k) /\ MayUse(v, t)' => InSwap(v, k)'
    PROVE  Spent(k)'
<1> SUFFICES ASSUME Ahead(k)
             PROVE  /\ leaseObj'.holder \in Writer /\ k.token <= leaseObj'.token
                    /\ \A w \in Writer : MayUse(w, k.token)' => InSwap(w, k)'
                    /\ \A w \in Writer, t \in Nat :
                          ~tookOver'[w] /\ MayUse(w, t)' /\ t > manifest'.token
                             => k.token > t \/ InSwap(w, k)'
  BY DEF Spent, Ahead
<1>1. k.token \in Nat
  BY DEF Keys
<1>2. \A v \in Writer, t \in Nat : MayUse(v, t)' => MayUse(v, t) /\ tookOver'[v] = tookOver[v]
  BY DEF QuietFor
<1>3. leaseObj'.holder \in Writer /\ k.token <= leaseObj'.token
  BY DEF Spent
<1>4. \A w \in Writer : MayUse(w, k.token)' => InSwap(w, k)'
  BY <1>1, <1>2 DEF Spent
<1>5. \A w \in Writer, t \in Nat :
         ~tookOver'[w] /\ MayUse(w, t)' /\ t > manifest'.token => k.token > t \/ InSwap(w, k)'
  BY <1>2 DEF Spent
<1> QED
  BY <1>3, <1>4, <1>5

(* acquire() takes a lease that nobody has, or outranks the one it takes.  *)
LEMMA SpentAcquire ==
    ASSUME NEW k \in Keys, Spent(k), NEW w \in Writer, OthersAside(w), Acquires(w),
           manifest \in Manifests, leaseObj \in LeaseObject
    PROVE  Spent(k)'
<1> SUFFICES ASSUME Ahead(k)
             PROVE  /\ leaseObj'.holder \in Writer /\ k.token <= leaseObj'.token
                    /\ \A v \in Writer : MayUse(v, k.token)' => InSwap(v, k)'
                    /\ \A v \in Writer, t \in Nat :
                          ~tookOver'[v] /\ MayUse(v, t)' /\ t > manifest'.token
                             => k.token > t \/ InSwap(v, k)'
  BY DEF Spent, Ahead, Acquires
<1>1. k.token \in Nat /\ leaseObj.token \in Nat
  BY ObjectFields DEF Keys
<1>2. /\ leaseObj.holder \in Writer /\ k.token <= leaseObj.token
      /\ \A v \in Writer : MayUse(v, k.token) => InSwap(v, k)
      /\ \A v \in Writer, t \in Nat :
            ~tookOver[v] /\ MayUse(v, t) /\ t > manifest.token => k.token > t \/ InSwap(v, k)
  BY DEF Spent
<1>3. tookOver'[w] /\ leaseObj'.token > leaseObj.token
  BY <1>2, LeaseAssumption DEF Acquires
<1>4. \A v \in Writer \ {w} :
         /\ \A t \in Nat : MayUse(v, t)' <=> MayUse(v, t)
         /\ tookOver'[v] = tookOver[v] /\ (InSwap(v, k)' <=> InSwap(v, k))
  BY SameUse, InSwapSame DEF OthersAside, SameLease
<1>5. leaseObj'.holder \in Writer /\ k.token <= leaseObj'.token
  BY <1>1, <1>2, <1>3 DEF Acquires
<1>6. ~(MayUse(w, k.token)')
  BY <1>1, <1>2, <1>3 DEF Acquires
<1>7. \A v \in Writer : MayUse(v, k.token)' => InSwap(v, k)'
  BY <1>1, <1>2, <1>4, <1>6
<1>8. \A v \in Writer, t \in Nat :
         ~tookOver'[v] /\ MayUse(v, t)' /\ t > manifest'.token => k.token > t \/ InSwap(v, k)'
  <2> SUFFICES ASSUME NEW v \in Writer, NEW t \in Nat,
                      ~tookOver'[v], MayUse(v, t)', t > manifest'.token
               PROVE  k.token > t \/ InSwap(v, k)'
    OBVIOUS
  <2>1. v # w /\ manifest' = manifest
    BY <1>3 DEF Acquires
  <2>2. ~tookOver[v] /\ MayUse(v, t) /\ t > manifest.token
    BY <1>4, <2>1
  <2> QED
    BY <1>2, <1>4, <2>1, <2>2
<1> QED
  BY <1>5, <1>7, <1>8

(* The holder's own token is one it may use.                               *)
LEMMA OwnerMayUse ==
    ASSUME ControlInv, NEW w \in Writer, Owns(w)
    PROVE  /\ leaseObj.token = lz[w].token /\ Held(w) /\ leaseObj.token \in Nat
           /\ MayUse(w, leaseObj.token)
<1>1. leaseObj.token = lz[w].token /\ Held(w)
  BY DEF ControlInv, LeaseInv, EtagMeansToken, Owns
<1> QED
  BY <1>1, ObjectFields DEF MayUse, ControlInv, LeaseInv, LeaseTypeOK

(* upgradeToken() and release() are the holder's, who is not putting the   *)
(* manifest: nothing is ahead then.                                        *)
LEMMA NoneAhead ==
    ASSUME ControlInv, FenceInv, NEW k \in Keys, Spent(k), NEW w \in Writer,
           Upgrades(w) \/ Deletes(w)
    PROVE  ~Ahead(k)
<1> SUFFICES ASSUME Ahead(k)
             PROVE  FALSE
  OBVIOUS
<1>1. /\ k.token \in Nat /\ manifest.token \in Nat /\ Owns(w) /\ ~InSwap(w, k)
  BY ManifestFields DEF Keys, ControlInv, TrashInv, TypeOK, StoreTypeOK, Upgrades, Deletes, InSwap
<1>2. leaseObj.token \in Nat /\ MayUse(w, leaseObj.token)
  BY <1>1, OwnerMayUse
<1>3. k.token <= leaseObj.token /\ k.token >= manifest.token /\ ~MayUse(w, k.token)
  BY <1>1 DEF Spent, Ahead
<1>4. leaseObj.token > manifest.token
  BY <1>1, <1>2, <1>3
<1>5. CASE Upgrades(w)
  BY <1>1, <1>2, <1>4, <1>5 DEF Upgrades
<1>6. CASE Deletes(w)
  <2>1. ~tookOver[w]
    BY <1>1, <1>2, <1>4, <1>6 DEF Deletes, FenceInv, StampedUp
  <2> QED
    BY <1>1, <1>2, <1>3, <1>4, <2>1 DEF Spent
<1> QED
  BY <1>5, <1>6

(* A boot that outranks the manifest it reads leaves a gap down to it.     *)
LEMMA SpentOutranks ==
    ASSUME NEW k \in Keys, Spent(k), NEW w \in Writer, OthersAside(w), Outranks(w),
           manifest \in Manifests
    PROVE  Spent(k)'
<1> SUFFICES ASSUME Ahead(k)
             PROVE  /\ leaseObj'.holder \in Writer /\ k.token <= leaseObj'.token
                    /\ \A v \in Writer : MayUse(v, k.token)' => InSwap(v, k)'
                    /\ \A v \in Writer, t \in Nat :
                          ~tookOver'[v] /\ MayUse(v, t)' /\ t > manifest'.token
                             => k.token > t \/ InSwap(v, k)'
  BY DEF Spent, Ahead, Outranks
<1>1. k.token \in Nat /\ manifest.token \in Nat /\ lz[w].token \in Nat
  BY ManifestFields DEF Keys, Outranks
<1>2. /\ leaseObj.holder \in Writer /\ k.token <= leaseObj.token
      /\ \A v \in Writer : MayUse(v, k.token) => InSwap(v, k)
      /\ \A v \in Writer, t \in Nat :
            ~tookOver[v] /\ MayUse(v, t) /\ t > manifest.token => k.token > t \/ InSwap(v, k)
  BY DEF Spent
<1>3. \A v \in Writer \ {w} :
         /\ \A t \in Nat : MayUse(v, t)' <=> MayUse(v, t)
         /\ tookOver'[v] = tookOver[v] /\ (InSwap(v, k)' <=> InSwap(v, k))
  BY SameUse, InSwapSame DEF OthersAside, SameLease
<1>4. ~InSwap(w, k)
  BY DEF Outranks, InSwap
<1>5. k.token > lz[w].token
  BY <1>1, <1>2, <1>4 DEF Outranks
<1>6. ~(MayUse(w, k.token)')
  BY <1>1, <1>5 DEF Outranks
<1>7. \A v \in Writer : MayUse(v, k.token)' => InSwap(v, k)'
  BY <1>1, <1>2, <1>3, <1>6
<1>8. \A v \in Writer, t \in Nat :
         ~tookOver'[v] /\ MayUse(v, t)' /\ t > manifest'.token => k.token > t \/ InSwap(v, k)'
  <2> SUFFICES ASSUME NEW v \in Writer, NEW t \in Nat,
                      ~tookOver'[v], MayUse(v, t)', t > manifest'.token
               PROVE  k.token > t \/ InSwap(v, k)'
    OBVIOUS
  <2>1. manifest' = manifest
    BY DEF Outranks
  <2>2. CASE v = w
    BY <1>1, <1>5, <2>1, <2>2 DEF Outranks
  <2>3. CASE v # w
    <3>1. ~tookOver[v] /\ MayUse(v, t) /\ t > manifest.token
      BY <1>3, <2>1, <2>3
    <3> QED
      BY <1>2, <1>3, <2>3, <3>1
  <2> QED
    BY <2>2, <2>3
<1> QED
  BY <1>2, <1>7, <1>8 DEF Outranks

(* A manifest is put: what is ahead of it was ahead before.                *)
LEMMA SpentPut ==
    ASSUME NEW k \in Keys, Spent(k), NEW w \in Writer, OthersAside(w), PutsOn(w), TokenKept,
           manifest \in Manifests
    PROVE  Spent(k)'
<1> SUFFICES ASSUME Ahead(k)'
             PROVE  /\ leaseObj'.holder \in Writer /\ k.token <= leaseObj'.token
                    /\ \A v \in Writer : MayUse(v, k.token)' => InSwap(v, k)'
                    /\ \A v \in Writer, t \in Nat :
                          ~tookOver'[v] /\ MayUse(v, t)' /\ t > manifest'.token
                             => k.token > t \/ InSwap(v, k)'
  BY DEF Spent
<1>1. /\ k.token \in Nat /\ k.seq \in Nat
      /\ manifest.token \in Nat /\ manifest'.token \in Nat
      /\ manifest.seq \in Nat /\ manifest'.seq \in Nat
      /\ manifest'.token >= manifest.token
  BY ManifestFields DEF Keys, PutsOn, TokenKept
<1>2. Ahead(k) /\ ~InSwap(w, k)
  BY <1>1 DEF Ahead, PutsOn, InSwap
<1>3. /\ leaseObj.holder \in Writer /\ k.token <= leaseObj.token
      /\ \A v \in Writer : MayUse(v, k.token) => InSwap(v, k)
      /\ \A v \in Writer, t \in Nat :
            ~tookOver[v] /\ MayUse(v, t) /\ t > manifest.token => k.token > t \/ InSwap(v, k)
  BY <1>2 DEF Spent
<1>4. \A v \in Writer \ {w} :
         /\ \A t \in Nat : MayUse(v, t)' <=> MayUse(v, t)
         /\ tookOver'[v] = tookOver[v] /\ (InSwap(v, k)' <=> InSwap(v, k))
  BY SameUse, InSwapSame DEF OthersAside, SameLease
<1>5. \A t \in Nat : MayUse(w, t)' => MayUse(w, t)
  BY DEF PutsOn
<1>6. \A v \in Writer : MayUse(v, k.token)' => InSwap(v, k)'
  BY <1>1, <1>2, <1>3, <1>4, <1>5
<1>7. \A v \in Writer, t \in Nat :
         ~tookOver'[v] /\ MayUse(v, t)' /\ t > manifest'.token => k.token > t \/ InSwap(v, k)'
  BY <1>1, <1>2, <1>3, <1>4, <1>5 DEF PutsOn
<1> QED
  BY <1>3, <1>6, <1>7 DEF PutsOn

(* So a key that is spent stays so, whatever the writers do.               *)
LEMMA SpentStays ==
    ASSUME TrustedStore, FencedInv, TokenKept, NEW k \in Keys, Spent(k),
           (\E w \in Writer : StepOf(w)) \/ DeleteLands \/ TtlPasses \/ UNCHANGED vars
    PROVE  Spent(k)'
<1>1. /\ ControlInv /\ FenceInv /\ TypeOK /\ manifest \in Manifests /\ leaseObj \in LeaseObject
  BY DEF FencedInv, ControlInv, TrashInv, TypeOK, StoreTypeOK, LeaseTypeOK
<1>2. ASSUME NEW w \in Writer, StepOf(w)
      PROVE  Spent(k)'
  <2>1. OthersAside(w)
    BY <1>1, <1>2, OthersSame DEF OthersAside
  <2>2. CASE NoToken(w)
    <3>1. \A v \in Writer : QuietFor(v)
      BY <2>1, <2>2, SameUse DEF OthersAside, NoToken
    <3>2. ASSUME NEW v \in Writer, NEW t \in Nat, Ahead(k), InSwap(v, k), MayUse(v, t)'
          PROVE  InSwap(v, k)'
      <4>1. CASE v = w
        BY <1>2, <2>2, <3>2, <4>1, SwapLeaves DEF NoToken
      <4>2. CASE v # w
        BY <2>1, <3>2, <4>2, InSwapSame DEF OthersAside
      <4> QED
        BY <4>1, <4>2
    <3> QED
      BY <2>2, <3>1, <3>2, SpentQuiet DEF NoToken
  <2>3. CASE Upgrades(w) \/ Deletes(w)
    <3>1. ~Ahead(k)
      BY <1>1, <2>3, NoneAhead
    <3> QED
      BY <2>3, <3>1 DEF Spent, Ahead, Upgrades, Deletes
  <2> QED
    BY <1>1, <1>2, <2>1, <2>2, <2>3, StepKinds, SpentAcquire, SpentOutranks, SpentPut
<1>3. CASE DeleteLands \/ TtlPasses \/ UNCHANGED vars
  <2>1. leaseObj'.token = leaseObj.token /\ leaseObj'.holder = leaseObj.holder
    <3>1. Expire => leaseObj'.token = leaseObj.token /\ leaseObj'.holder = leaseObj.holder
      BY <1>1, ObjectFields DEF Expire, LeaseObject, Absent
    <3> QED
      BY <1>3, <3>1 DEF DeleteLands, TtlPasses, vars, leaseVars
  <2>2. UNCHANGED <<manifest, pc, localVars, lpc, lz, tookOver, floor, seen, call>>
    BY <1>3 DEF DeleteLands, TtlPasses, Expire, vars, leaseVars, storeVars
  <2>3. \A v \in Writer : SameLease(v) /\ SameLocals(v)
    BY <2>2 DEF SameLease, SameLocals, localVars
  <2>4. \A v \in Writer : QuietFor(v) /\ (InSwap(v, k)' <=> InSwap(v, k))
    BY <2>3, SameUse, InSwapSame
  <2> QED
    BY <2>1, <2>2, <2>4, SpentQuiet
<1> QED
  BY <1>2, <1>3

----------------------------------------------------------------------------
(* A writer lives on with the manifest it had or with the present one.     *)
LEMMA ManStays ==
    ASSUME TypeOK, NEW w \in Writer, StepOf(w)
    PROVE  man'[w] \in {man[w], manifest'} \/ pc'[w] = "dead"
<1>1. man \in [Writer -> Manifests] /\ pc \in [Writer -> Pcs]
  BY DEF TypeOK, ProcessTypeOK
<1>2. CASE Die(w)
  BY <1>1, <1>2 DEF Die, Goto
<1>3. CASE ~Die(w)
  BY <1>1, <1>3 DEF StepOf, Boot, BootRead, BootLease, Reread, Restore, Upgrade, Stamp, Replied,
     StampGet, Seed, SeedPut, SeedGet, Commit, CommitRebaseline, CommitIncremental, CommitSnapshot,
     CommitNothing, Upload, Swap, Begin, Write, Validate, Close, Release, Exit, Crash,
     storeVars, localVars
<1> QED
  BY <1>2, <1>3

(* The stamp of a take-over outranks every token of the others.            *)
LEMMA StampOutranks ==
    ASSUME ControlInv, FenceInv, TokenKept, NEW w \in Writer, PutsOn(w), pc[w] = "stamp",
           NEW v \in Writer \ {w}, Settled(v), NEW t \in Nat, MayUse(v, t)
    PROVE  t < manifest'.token
<1>1. manifest.token \in Nat /\ manifest'.token \in Nat /\ manifest'.token >= manifest.token
  BY ManifestFields DEF ControlInv, TrashInv, TypeOK, StoreTypeOK, TokenKept, PutsOn
<1>2. MayUse(w, manifest'.token)
  BY DEF PutsOn
<1>3. t # manifest'.token
  BY <1>1, <1>2 DEF FenceInv, TokensApart
<1>4. CASE tookOver[v]
  <2>1. Open(v)
    BY <1>4 DEF ControlInv, BootsInOrder, BootFits, Settled, Candidate
  <2>2. t <= manifest.token
    BY <1>4, <2>1 DEF FenceInv, StampedUp
  <2> QED
    BY <1>1, <1>3, <2>2
<1>5. CASE ~tookOver[v]
  <2>1. t > manifest.token => manifest'.token < manifest.token \/ manifest'.token > t
    BY <1>1, <1>2, <1>5 DEF FenceInv, GapBelow
  <2> QED
    BY <1>1, <1>3, <2>1
<1> QED
  BY <1>4, <1>5

(* What a laggard lags behind does not come down.                          *)
LEMMA BehindLater ==
    ASSUME NEW v \in Writer, Behind(v), Settled(v)' => Settled(v), man'[v] = man[v],
           \A t \in Nat : MayUse(v, t)' => MayUse(v, t),
           manifest.seq \in Nat, manifest'.seq \in Nat, man[v].seq \in Nat,
           manifest.token \in Nat, manifest'.token \in Nat,
           manifest'.seq >= manifest.seq, manifest'.token >= manifest.token,
           man[v] # manifest
    PROVE  Behind(v)'
<1> SUFFICES ASSUME Settled(v)'
             PROVE  \/ manifest'.seq > man[v].seq
                    \/ \A t \in Nat : MayUse(v, t)' => t < manifest'.token
  BY DEF Behind
<1>1. CASE manifest.seq > man[v].seq
  BY <1>1
<1>2. CASE \A t \in Nat : MayUse(v, t) => t < manifest.token
  BY <1>2
<1> QED
  BY <1>1, <1>2 DEF Behind

LEMMA NextBehind ==
    ASSUME TrustedStore, FencedInv, TokenKept,
           (\E w \in Writer : StepOf(w)) \/ DeleteLands \/ TtlPasses \/ UNCHANGED vars
    PROVE  LaggardsBehind'
<1>1. /\ ControlInv /\ FenceInv /\ TypeOK /\ manifest \in Manifests
      /\ \A v \in Writer : Behind(v) /\ man[v].seq \in Nat
      /\ manifest.seq \in Nat /\ manifest.token \in Nat
  BY ManifestFields DEF FencedInv, LaggardsBehind, ControlInv, TrashInv, TypeOK, StoreTypeOK,
                        ProcessTypeOK
<1>2. ASSUME NEW w \in Writer, StepOf(w), NEW v \in Writer
      PROVE  Behind(v)'
  <2>1. OthersAside(w)
    BY <1>1, <1>2, OthersSame DEF OthersAside
  <2>2. manifest' = manifest \/ PutsOn(w)
    BY <1>1, <1>2, StepKinds DEF NoToken, Acquires, Upgrades, Outranks, Deletes
  <2>3. /\ manifest'.seq \in Nat /\ manifest'.token \in Nat
        /\ manifest'.seq >= manifest.seq /\ manifest'.token >= manifest.token
    BY <1>1, <2>2, ManifestFields DEF PutsOn, TokenKept
  <2>4. CASE v # w
    <3>1. /\ \A t \in Nat : MayUse(v, t)' <=> MayUse(v, t)
          /\ Settled(v)' <=> Settled(v)
          /\ man'[v] = man[v]
      BY <2>1, <2>4, SameUse DEF OthersAside, SameLocals
    <3>2. CASE man[v] # manifest
      BY <1>1, <2>3, <3>1, <3>2, BehindLater
    <3>3. CASE man[v] = manifest /\ manifest' # manifest
      <4>1. PutsOn(w) /\ (pc[w] = "stamp" \/ manifest'.seq = manifest.seq + 1)
        BY <2>2, <3>3 DEF PutsOn
      <4>2. CASE manifest'.seq = manifest.seq + 1
        BY <1>1, <3>1, <3>3, <4>2 DEF Behind
      <4>3. CASE pc[w] = "stamp"
        <5>1. Settled(v)' => \A t \in Nat : MayUse(v, t)' => t < manifest'.token
          BY <1>1, <2>4, <3>1, <4>1, <4>3, StampOutranks
        <5> QED
          BY <5>1 DEF Behind
      <4> QED
        BY <4>1, <4>2, <4>3
    <3>4. CASE man[v] = manifest /\ manifest' = manifest
      BY <3>1, <3>4 DEF Behind
    <3> QED
      BY <3>2, <3>3, <3>4
  <2>5. CASE v = w
    <3>1. CASE Acquires(w)
      BY <2>5, <3>1 DEF Acquires, Behind, Settled, Candidate, Open
    <3>2. CASE Upgrades(w) \/ Outranks(w) \/ PutsOn(w)
      BY <2>5, <3>2 DEF Upgrades, Outranks, PutsOn, Behind
    <3>3. CASE NoToken(w) \/ Deletes(w)
      <4>1. /\ manifest' = manifest /\ \A t \in Nat : MayUse(w, t)' => MayUse(w, t)
            /\ Settled(w)' => Settled(w)
        BY <3>3 DEF NoToken, Deletes, QuietFor
      <4>2. man'[w] \in {man[w], manifest'} \/ pc'[w] = "dead"
        BY <1>1, <1>2, ManStays
      <4>3. CASE pc'[w] = "dead" \/ man'[w] = manifest'
        BY <2>5, <4>3 DEF Behind, Settled, Candidate, Open
      <4>4. CASE man'[w] = man[w] /\ man[w] # manifest
        BY <1>1, <2>3, <2>5, <4>1, <4>4, BehindLater
      <4>5. CASE man'[w] = man[w] /\ man[w] = manifest
        BY <2>5, <4>1, <4>5 DEF Behind
      <4> QED
        BY <4>2, <4>3, <4>4, <4>5
    <3> QED
      BY <1>1, <1>2, <3>1, <3>2, <3>3, StepKinds
  <2> QED
    BY <2>4, <2>5
<1>3. ASSUME DeleteLands \/ TtlPasses \/ UNCHANGED vars, NEW v \in Writer
      PROVE  Behind(v)'
  <2>1. UNCHANGED <<manifest, pc, localVars, lpc, lz, tookOver, floor, seen, call>>
    BY <1>3 DEF DeleteLands, TtlPasses, Expire, vars, leaseVars, storeVars
  <2>2. SameLease(v) /\ SameLocals(v)
    BY <2>1 DEF SameLease, SameLocals, localVars
  <2> QED
    BY <1>1, <2>1, <2>2, SameUse DEF Behind, SameLocals
<1> QED
  BY <1>2, <1>3 DEF LaggardsBehind

----------------------------------------------------------------------------
(* A writer that serves writes under no lower token than its manifest's,   *)
(* nor a higher one than the lease it has: so a commit that can still swap *)
(* is ahead of the manifest.                                               *)
LeaseUses(w, t) ==
    \/ Held(w) /\ t = lz[w].token
    \/ \E c \in Call : call[w][c].at = "renew" /\ t = call[w][c].token

UsesInOrder(w) ==
    Open(w) => \A t \in Nat : MayUse(w, t) =>
        /\ man[w].token <= t
        /\ \A s \in Nat : LeaseUses(w, s) => t <= s

ServesAbove == \A w \in Writer : UsesInOrder(w)

LEMMA UsesSame ==
    ASSUME NEW v \in Writer, SameLease(v), SameLocals(v), UsesInOrder(v)
    PROVE  UsesInOrder(v)'
<1>1. /\ \A t \in Nat : MayUse(v, t)' <=> MayUse(v, t)
      /\ Open(v)' <=> Open(v)
  BY SameUse
<1>2. \A t \in Nat : LeaseUses(v, t)' <=> LeaseUses(v, t)
  BY DEF LeaseUses, SameLease, Held
<1>3. man'[v] = man[v]
  BY DEF SameLocals
<1> QED
  BY <1>1, <1>2, <1>3 DEF UsesInOrder

(* A writer begins to serve.                                               *)
LEMMA UsesServing ==
    ASSUME TrustedStore, ControlInv, FenceInv, TokenKept, NEW w \in Writer, StepOf(w),
           Open(w)', ~Open(w)
    PROVE  UsesInOrder(w)'
<1>1. /\ pc \in [Writer -> Pcs] /\ man \in [Writer -> Manifests] /\ TypeOK /\ LeaseInv
      /\ BootFits(w) /\ man[w].token \in Nat /\ lz[w].token \in Nat
      /\ closing[w] => pc[w] = "closing"
      /\ next[w] \in {"upgrade", "stamp", "serving", "dead"}
      /\ lz \in [Writer -> {Null} \cup [etag : Pos, token : Pos]]
  BY ManifestFields, FieldTypes
     DEF ControlInv, TrashInv, TypeOK, ProcessTypeOK, LeaseInv, LeaseTypeOK, BootsInOrder,
         ProcessInv, ClosingIsOpen
<1>2. Upgrade(w) \/ Stamp(w)
  BY <1>1 DEF StepOf, Boot, BootRead, BootLease, Reread, Restore, StampGet, Seed, SeedPut, SeedGet,
     Commit, CommitRebaseline, CommitIncremental, CommitSnapshot, CommitNothing, Begin, Upload, Swap,
     Write, Validate, Close, Release, Exit, Crash, Die, Goto, Open, BootFits, localVars
<1>3. CASE Stamp(w)
  <2>1. PutsOn(w) /\ pc[w] = "stamp"
    <3>1. manifest' # manifest
      <4>1. PutManifest(w, [man[w] EXCEPT !.token = lz[w].token])
        BY <1>1, <1>3 DEF Stamp, Goto, Open
      <4>2. [man[w] EXCEPT !.token = lz[w].token] \in Manifests
        BY <1>1 DEF Manifests
      <4>3. manifest.etag \in Nat
        BY <1>1, ManifestFields DEF TypeOK, StoreTypeOK
      <4> QED
        BY <1>1, <4>1, <4>2, <4>3, ManifestPut
    <3> QED
      BY <1>3, <3>1, PutKind DEF Stamp
  <2>2. man'[w] = manifest' /\ manifest'.token \in Nat /\ \A t \in Nat : MayUse(w, t)' => t = manifest'.token
    BY <2>1, ManifestFields DEF PutsOn
  <2>3. \A s \in Nat : LeaseUses(w, s)' => MayUse(w, s)'
    BY DEF LeaseUses, MayUse
  <2> QED
    BY <2>2, <2>3 DEF UsesInOrder
<1>4. CASE Upgrade(w)
  <2>1. /\ \A c \in Call : call[w][c] = NoCall
        /\ pc[w] = "upgrade" /\ Held(w) /\ man' = man /\ pc'[w] = "serving"
    BY <1>1, <1>4 DEF Upgrade, BootFits, Booting, Goto, Open, Die, localVars
  <2>2. call' = call /\ lz'[w].token \in Nat /\ lz'[w].token > man[w].token /\ Held(w)'
    <3>1. CASE UNCHANGED leaseVars /\ lz[w].token > man[w].token
      BY <1>1, <2>1, <3>1 DEF leaseVars, Held
    <3>2. CASE UpgradeToken(w, man[w].token) /\ lz'[w].token > man[w].token
      <4>1. lz'[w].token = man[w].token + 1 /\ lz'[w].etag # 0 /\ call' = call
        BY <1>1, <3>2, UpgradeOutcome DEF GotLease, Null
      <4> QED
        BY <1>1, <3>2, <4>1 DEF Held
    <3>3. ~Die(w)
      BY <1>1, <2>1 DEF Die, Goto
    <3> QED
      BY <1>4, <3>1, <3>2, <3>3 DEF Upgrade
  <2>3. NoCall.at # "renew" /\ ~(Uploading(w)')
    BY <2>1 DEF NoCall, Uploading
  <2>4. \A t \in Nat : MayUse(w, t)' => t \in {lz'[w].token, man'[w].token}
    BY <2>1, <2>2, <2>3 DEF MayUse
  <2>5. \A t \in Nat : LeaseUses(w, t)' => t = lz'[w].token
    BY <2>1, <2>2, <2>3 DEF LeaseUses
  <2> QED
    BY <1>1, <2>1, <2>2, <2>4, <2>5 DEF UsesInOrder
<1> QED
  BY <1>2, <1>3, <1>4

(* It goes on serving.                                                     *)
LEMMA UsesServed ==
    ASSUME TrustedStore, ControlInv, FenceInv, TokenKept, NEW w \in Writer, StepOf(w),
           Open(w)', Open(w), UsesInOrder(w)
    PROVE  UsesInOrder(w)'
<1>1. /\ pc \in [Writer -> Pcs] /\ man \in [Writer -> Manifests] /\ TypeOK /\ LeaseInv
      /\ closing[w] /\ ~dirty[w] => pc[w] = "closing"
      /\ Null.etag = 0
  BY DEF ControlInv, TrashInv, TypeOK, ProcessTypeOK, ReleasesOwn, Null
<1>2. Commit(w) \/ Write(w) \/ Validate(w) \/ Close(w)
  BY <1>1 DEF StepOf, Boot, BootRead, BootLease, Reread, Restore, Upgrade, Stamp, StampGet, Seed,
     SeedPut, SeedGet, Release, Exit, Crash, Die, Goto, Open
<1>3. \A t \in Nat : LeaseUses(w, t)' => LeaseUses(w, t)
  <2>1. CASE Validate(w)
    <3>1. /\ Held(w)' => \/ Held(w) /\ lz'[w].token = lz[w].token
                         \/ \E c \in Call : call[w][c].at = "renew" /\ lz'[w].token = call[w][c].token
          /\ \A c \in Call : call'[w][c].at = "renew" =>
                \/ call'[w][c] = call[w][c]
                \/ Held(w) /\ call'[w][c].token = lz[w].token
      BY <1>1, <2>1, ValidateOutcome DEF Validate
    <3> QED
      BY <3>1 DEF LeaseUses
  <2>2. CASE ~Validate(w)
    <3>1. UNCHANGED <<lz, call>>
      BY <1>2, <2>2 DEF Commit, CommitRebaseline, CommitIncremental, CommitSnapshot, CommitNothing,
         Begin, Upload, Swap, Write, Close, leaseVars
    <3> QED
      BY <3>1 DEF LeaseUses, Held
  <2> QED
    BY <2>1, <2>2
<1>4. CASE manifest' = manifest
  <2>1. man' = man
    <3>1. CASE Swap(w)
      <4>1. pend[w].m \in Manifests /\ manifest.etag \in Nat
        BY <1>1, ManifestFields DEF TypeOK, ProcessTypeOK, StoreTypeOK, Commits
      <4> QED
        BY <1>1, <1>4, <3>1, <4>1, ManifestPut DEF Swap
    <3>2. CASE ~Swap(w)
      BY <1>2, <3>2 DEF Commit, CommitRebaseline, CommitIncremental, CommitSnapshot, CommitNothing,
         Begin, Upload, Write, Validate, Close, localVars
    <3> QED
      BY <3>1, <3>2
  <2>2. QuietFor(w)
    BY <1>2, <1>4, <2>1, CommitQuiet, ServeQuiet
  <2> QED
    BY <1>3, <2>1, <2>2 DEF UsesInOrder, QuietFor
<1>5. CASE manifest' # manifest
  <2>1. PutsOn(w) /\ pc[w] = "swapping"
    BY <1>5, PutKind DEF PutsOn, Open
  <2>2. /\ man'[w] = manifest' /\ manifest'.token \in Nat /\ MayUse(w, manifest'.token)
        /\ \A t \in Nat : MayUse(w, t)' => MayUse(w, t)
        /\ ~(Uploading(w)')
    BY <2>1, ManifestFields DEF PutsOn, Uploading
  <2>3. \A t \in Nat : MayUse(w, t)' => LeaseUses(w, t)' \/ t = manifest'.token
    BY <2>2 DEF MayUse, LeaseUses
  <2>4. \A s \in Nat : LeaseUses(w, s)' => manifest'.token <= s
    BY <1>3, <2>2 DEF UsesInOrder
  <2>5. \A t, s \in Nat : MayUse(w, t)' /\ LeaseUses(w, s)' => t <= s
    BY <1>3, <2>2 DEF UsesInOrder
  <2> QED
    BY <2>2, <2>3, <2>4, <2>5 DEF UsesInOrder
<1> QED
  BY <1>4, <1>5

LEMMA NextUses ==
    ASSUME TrustedStore, ControlInv, FenceInv, TokenKept, ServesAbove,
           (\E w \in Writer : StepOf(w)) \/ DeleteLands \/ TtlPasses \/ UNCHANGED vars
    PROVE  ServesAbove'
<1>1. ASSUME NEW w \in Writer, StepOf(w), NEW v \in Writer
      PROVE  UsesInOrder(v)'
  <2>1. CASE v # w
    <3>1. SameLease(v) /\ SameLocals(v)
      BY <1>1, <2>1, OthersSame DEF ControlInv, TrashInv
    <3> QED
      BY <3>1, UsesSame DEF ServesAbove
  <2>2. CASE v = w /\ ~(Open(v)')
    BY <2>2 DEF UsesInOrder
  <2>3. CASE v = w /\ Open(v)' /\ ~Open(v)
    BY <1>1, <2>3, UsesServing
  <2>4. CASE v = w /\ Open(v)' /\ Open(v)
    BY <1>1, <2>4, UsesServed DEF ServesAbove
  <2> QED
    BY <2>1, <2>2, <2>3, <2>4
<1>2. ASSUME DeleteLands \/ TtlPasses \/ UNCHANGED vars, NEW v \in Writer
      PROVE  UsesInOrder(v)'
  <2>1. UNCHANGED <<manifest, pc, localVars, lpc, lz, tookOver, floor, seen, call>>
    BY <1>2 DEF DeleteLands, TtlPasses, Expire, vars, leaseVars, storeVars
  <2>2. SameLease(v) /\ SameLocals(v)
    BY <2>1 DEF SameLease, SameLocals, localVars
  <2> QED
    BY <2>2, UsesSame DEF ServesAbove
<1> QED
  BY <1>1, <1>2 DEF ServesAbove

LEMMA SwappableAhead ==
    ASSUME ControlInv, ServesAbove, NEW w \in Writer, Uploading(w), CanSwap(w)
    PROVE  /\ pend[w].key \in Keys /\ Ahead(pend[w].key) /\ MayUse(w, pend[w].key.token)
<1>1. /\ pend[w].key \in Keys /\ man[w] = manifest /\ manifest.seq \in Nat
      /\ pend[w].key.token \in Nat /\ pend[w].key.seq = man[w].seq + 1 /\ Open(w)
  BY ManifestFields
     DEF ControlInv, TrashInv, ManifestsMatch, Current, CanSwap, PendExtends, Extends, TypeOK,
         StoreTypeOK, ProcessTypeOK, Commits, Keys, Uploading, Open
<1>2. MayUse(w, pend[w].key.token)
  BY DEF MayUse
<1> QED
  BY <1>1, <1>2 DEF ServesAbove, UsesInOrder, Ahead

----------------------------------------------------------------------------
(* The objects of the bucket.                                              *)
LEMMA ObjsStep ==
    ASSUME TrustedStore, ControlInv, NEW w \in Writer, StepOf(w)
    PROVE  \/ UNCHANGED objs /\ ~Upload(w)
           \/ /\ Upload(w) /\ DOMAIN objs' = DOMAIN objs \cup {pend[w].key}
              /\ pc'[w] = "swapping" /\ pend' = pend /\ UNCHANGED <<leaseVars, manifest, man>>
<1>1. CASE Upload(w)
  BY <1>1 DEF Upload, PutObj, Goto, TrustedStore, ControlInv, TrashInv, TypeOK, ProcessTypeOK
<1>2. CASE ~Upload(w)
  BY <1>2 DEF StepOf, Boot, BootRead, BootLease, Reread, Restore, Upgrade, Stamp, StampGet, Seed,
     SeedPut, SeedGet, Commit, CommitRebaseline, CommitIncremental, CommitSnapshot, CommitNothing,
     Begin, Swap, Write, Validate, Close, Release, Exit, Crash, storeVars, ControlInv, BootsInOrder,
     BootFits
<1> QED
  BY <1>1, <1>2

(* Who is about to put the manifest has just uploaded, or was before.      *)
LEMMA SwappingStep ==
    ASSUME TrustedStore, ControlInv, NEW w \in Writer, StepOf(w), NEW v \in Writer,
           pc'[v] = "swapping"
    PROVE  /\ pend'[v] = pend[v] /\ man'[v] = man[v]
           /\ pc[v] = "swapping" \/ (v = w /\ Upload(w))
<1>1. /\ pc \in [Writer -> Pcs] /\ TypeOK
      /\ next \in [Writer -> {"upgrade", "stamp", "serving", "dead"}]
  BY DEF ControlInv, TrashInv, TypeOK, ProcessTypeOK
<1>2. CASE v # w
  BY <1>1, <1>2, OthersSame DEF SameLocals
<1>3. CASE v = w
  <2>1. Upload(w) \/ Write(w) \/ Validate(w) \/ Close(w) \/ Release(w)
    BY <1>1, <1>3 DEF StepOf, Boot, BootRead, BootLease, Reread, Restore, Upgrade, Stamp, Replied,
       StampGet, Seed, SeedPut, SeedGet, Commit, CommitRebaseline, CommitIncremental, CommitSnapshot,
       CommitNothing, Begin, Swap, AfterCommit, Exit, Crash, Die, Goto, localVars,
       ControlInv, BootsInOrder, BootFits
  <2> QED
    BY <1>1, <1>3, <2>1 DEF Upload, Write, Validate, Close, Release, Goto, localVars, TrustedStore
<1> QED
  BY <1>2, <1>3

(* An upload is the right of one writer, so its token is spent on it.      *)
LEMMA UploadSpends ==
    ASSUME TrustedStore, ControlInv, FenceInv, NEW w \in Writer, StepOf(w), Upload(w)
    PROVE  Spent(pend[w].key)'
<1> DEFINE k == pend[w].key
<1>1. /\ pc'[w] = "swapping" /\ pend' = pend /\ UNCHANGED <<leaseVars, manifest, man>>
  BY ObjsStep
<1>2. /\ k.token \in Nat /\ manifest.token \in Nat /\ leaseObj.token \in Nat
      /\ leaseObj \in LeaseObject /\ MayUse(w, k.token) /\ TypeOK
  BY ManifestFields, ObjectFields
     DEF ControlInv, TrashInv, TypeOK, StoreTypeOK, ProcessTypeOK, LeaseTypeOK, Commits, Keys,
         MayUse, Uploading, Upload
<1>3. InSwap(w, k)'
  BY <1>1 DEF InSwap
<1>4. ASSUME NEW v \in Writer \ {w}, NEW t \in Nat
      PROVE  /\ MayUse(v, t)' <=> MayUse(v, t)
             /\ tookOver'[v] = tookOver[v]
  BY <1>2, OthersSame, SameUse DEF SameLease
<1> SUFFICES ASSUME Ahead(k)'
             PROVE  /\ leaseObj'.holder \in Writer /\ k.token <= leaseObj'.token
                    /\ \A v \in Writer : MayUse(v, k.token)' => InSwap(v, k)'
                    /\ \A v \in Writer, t \in Nat :
                          ~tookOver'[v] /\ MayUse(v, t)' /\ t > manifest'.token
                             => k.token > t \/ InSwap(v, k)'
  BY <1>1 DEF Spent, Ahead
<1>5. k.token >= manifest.token
  BY <1>1 DEF Ahead
<1>6. leaseObj'.holder \in Writer /\ k.token <= leaseObj'.token
  <2>1. CASE leaseObj.holder = w
    BY <1>1, <1>2, <2>1 DEF FenceInv, TokensBounded, leaseVars
  <2>2. CASE leaseObj.holder # w
    <3>1. k.token < leaseObj.token
      BY <1>2, <1>5, <2>2 DEF FenceInv, TokensBounded
    <3>2. leaseObj # Absent
      BY <1>2, <3>1 DEF Absent
    <3> QED
      BY <1>1, <1>2, <3>1, <3>2 DEF LeaseObject, leaseVars
  <2> QED
    BY <2>1, <2>2
<1>7. ASSUME NEW v \in Writer, MayUse(v, k.token)'
      PROVE  InSwap(v, k)'
  <2>1. CASE v # w
    <3>1. MayUse(v, k.token)
      BY <1>1, <1>2, <1>4, <1>7, <2>1
    <3>2. k.token < manifest.token
      BY <1>2, <2>1, <3>1 DEF FenceInv, TokensApart
    <3> QED
      BY <1>2, <1>5, <3>2
  <2> QED
    BY <1>3, <2>1
<1>8. ASSUME NEW v \in Writer, NEW t \in Nat, ~tookOver'[v], MayUse(v, t)', t > manifest'.token
      PROVE  k.token > t \/ InSwap(v, k)'
  <2>1. CASE v # w
    <3>1. ~tookOver[v] /\ MayUse(v, t) /\ t > manifest.token
      BY <1>1, <1>4, <1>8, <2>1
    <3>2. k.token < manifest.token \/ k.token > t
      BY <1>2, <2>1, <3>1 DEF FenceInv, GapBelow
    <3> QED
      BY <1>2, <1>5, <3>2
  <2> QED
    BY <1>3, <2>1
<1> QED
  BY <1>6, <1>7, <1>8

----------------------------------------------------------------------------
(* The collector: whatever lies in the bucket, or is to be deleted, is     *)
(* spent; what a commit has uploaded is young, and so is what has been     *)
(* named since the collector read the manifest, as long as it is listing.  *)
GcTyped == gc \in [at : {"idle", "list", "delete"}, refs : SUBSET Keys, todo : SUBSET Keys]

LyingSpent == \A k \in DOMAIN objs \cup gc.todo : Spent(k)

UploadsYoung ==
    \A w \in Writer : pc[w] = "swapping" /\ pend[w].key \in DOMAIN objs => pend[w].key \in young

NewRefsYoung ==
    gc.at = "list" => \A k \in Refs(manifest) \ gc.refs : k \in DOMAIN objs => k \in young

WritersInv == RestoreInv /\ FencedInv /\ ServesAbove

CollectInv ==
    /\ WritersInv /\ GcTyped
    /\ LyingSpent /\ UploadsYoung /\ NewRefsYoung /\ CollectsGarbage

(* What lies there and may yet be named is in the hands of its uploader.   *)
LEMMA NamedInSwap ==
    ASSUME ControlInv, ServesAbove, NEW k, Spent(k), NEW w \in Writer, Uploading(w), CanSwap(w),
           pend[w].key = k
    PROVE  InSwap(w, k)
BY SwappableAhead DEF Spent

(* The same of the next state.                                             *)
LEMMA NextNamedInSwap ==
    ASSUME ControlInv', ServesAbove', NEW k, Spent(k)', NEW w \in Writer, Uploading(w)',
           CanSwap(w)', pend'[w].key = k
    PROVE  InSwap(w, k)'
<1>1. /\ k \in Keys /\ man'[w] = manifest' /\ manifest'.seq \in Nat /\ manifest'.token \in Nat
      /\ k.token \in Nat /\ k.seq = man'[w].seq + 1 /\ Open(w)'
  BY ManifestFields
     DEF ControlInv, TrashInv, ManifestsMatch, Current, CanSwap, PendExtends, Extends, TypeOK,
         StoreTypeOK, ProcessTypeOK, Commits, Keys, Uploading, Open
<1>2. MayUse(w, k.token)'
  BY DEF MayUse
<1>3. Ahead(k)'
  BY <1>1, <1>2 DEF ServesAbove, UsesInOrder, Ahead
<1> QED
  BY <1>2, <1>3 DEF Spent

(* The writers keep their own invariants.                                  *)
LEMMA WritersStep ==
    ASSUME TrustedStore, WritersInv, TokenKept, [Next]_vars
    PROVE  WritersInv'
<1>1. /\ ControlInv /\ FenceInv /\ NoKeyClash
      /\ (\E w \in Writer : StepOf(w)) \/ DeleteLands \/ TtlPasses \/ UNCHANGED vars
  BY FenceKeepsKeysApart DEF WritersInv, FencedInv, Next, StepOf
<1>2. RestoreInv'
  BY <1>1, NextRestore DEF WritersInv
<1>3. ControlInv' /\ FenceInv'
  BY <1>1, NextFence DEF TokenKept
<1> QED
  BY <1>1, <1>2, <1>3, NextBehind, NextUses DEF WritersInv, FencedInv

LEMMA LyingStep ==
    ASSUME TrustedStore, CollectInv, TokenKept, WriterStep
    PROVE  LyingSpent'
<1>1. /\ FencedInv /\ ControlInv /\ FenceInv /\ DOMAIN objs \cup gc.todo \subseteq Keys /\ gc' = gc
      /\ Next
  BY DEF CollectInv, WritersInv, FencedInv, ControlInv, TrashInv, TypeOK, StoreTypeOK, GcTyped,
         WriterStep
<1>2. (\E w \in Writer : StepOf(w)) \/ DeleteLands \/ TtlPasses
  BY <1>1 DEF Next, StepOf
<1>3. ASSUME NEW k \in DOMAIN objs \cup gc.todo
      PROVE  Spent(k)'
  BY <1>1, <1>2, <1>3, SpentStays DEF CollectInv, LyingSpent
<1>4. \A k \in DOMAIN objs' : k \in DOMAIN objs \/ Spent(k)'
  <2>1. ASSUME NEW w \in Writer, StepOf(w), NEW k \in DOMAIN objs', k \notin DOMAIN objs
        PROVE  Spent(k)'
    BY <1>1, <2>1, ObjsStep, UploadSpends
  <2>2. DeleteLands \/ TtlPasses => DOMAIN objs' \subseteq DOMAIN objs
    BY DEF DeleteLands, TtlPasses, storeVars
  <2> QED
    BY <1>2, <2>1, <2>2
<1> QED
  BY <1>1, <1>3, <1>4 DEF LyingSpent

LEMMA YoungStep ==
    ASSUME TrustedStore, CollectInv, WriterStep
    PROVE  UploadsYoung' /\ NewRefsYoung'
<1>1. /\ ControlInv /\ FenceInv /\ Next /\ gc' = gc
      /\ young' = (young \cup JustPut) \cap DOMAIN objs'
  BY DEF CollectInv, WritersInv, FencedInv, WriterStep
<1>2. (\E w \in Writer : StepOf(w)) \/ DeleteLands \/ TtlPasses
  BY <1>1 DEF Next, StepOf
<1>3. ASSUME NEW w \in Writer, StepOf(w)
      PROVE  UploadsYoung' /\ NewRefsYoung'
  <2>1. ASSUME NEW k \in DOMAIN objs', k \notin DOMAIN objs \/ (Upload(w) /\ k = pend[w].key)
        PROVE  k \in young'
    <3>1. Upload(w) /\ k = pend[w].key /\ pc'[w] = "swapping" /\ pc[w] = "uploading"
      BY <1>1, <1>3, <2>1, ObjsStep DEF Upload
    <3>2. k \in JustPut
      BY <3>1 DEF JustPut
    <3> QED
      BY <1>1, <3>2
  <2>2. UploadsYoung'
    <3> SUFFICES ASSUME NEW v \in Writer, pc'[v] = "swapping", pend'[v].key \in DOMAIN objs'
                 PROVE  pend'[v].key \in young'
      BY DEF UploadsYoung
    <3>1. /\ pend'[v] = pend[v]
          /\ pc[v] = "swapping" \/ (v = w /\ Upload(w))
      BY <1>1, <1>3, SwappingStep
    <3>2. CASE pc[v] = "swapping" /\ pend[v].key \in DOMAIN objs
      BY <1>1, <3>1, <3>2 DEF CollectInv, UploadsYoung
    <3> QED
      BY <2>1, <3>1, <3>2
  <2>3. NewRefsYoung'
    <3> SUFFICES ASSUME gc.at = "list", NEW k \in Refs(manifest'), k \notin gc.refs,
                        k \in DOMAIN objs'
                 PROVE  k \in young'
      BY <1>1 DEF NewRefsYoung
    <3>1. CASE k \in DOMAIN objs /\ k \in Refs(manifest)
      BY <1>1, <3>1 DEF CollectInv, NewRefsYoung
    <3>2. CASE k \in DOMAIN objs /\ k \notin Refs(manifest)
      <4>1. PutsOn(w) /\ pc[w] = "swapping" /\ k = pend[w].key
        BY <1>1, <1>3, <3>2, PutKind DEF PutsOn
      <4> QED
        BY <1>1, <3>2, <4>1 DEF CollectInv, UploadsYoung
    <3> QED
      BY <2>1, <3>1, <3>2
  <2> QED
    BY <2>2, <2>3
<1>4. CASE DeleteLands \/ TtlPasses
  <2>1. DOMAIN objs' \subseteq DOMAIN objs /\ UNCHANGED <<manifest, pc, pend>>
    BY <1>4 DEF DeleteLands, TtlPasses, storeVars, localVars
  <2> QED
    BY <1>1, <2>1 DEF CollectInv, UploadsYoung, NewRefsYoung
<1> QED
  BY <1>2, <1>3, <1>4

LEMMA GarbageStep ==
    ASSUME TrustedStore, CollectInv, WriterStep, WritersInv', LyingSpent'
    PROVE  CollectsGarbage'
<1>1. /\ ControlInv /\ FenceInv /\ ServesAbove /\ Next /\ gc' = gc
      /\ ControlInv' /\ ServesAbove'
      /\ TypeOK /\ ManifestsMatch /\ man \in [Writer -> Manifests] /\ gc.todo \subseteq Keys
  BY DEF GcTyped, CollectInv, WritersInv, FencedInv, WriterStep, ControlInv, TrashInv, TypeOK, ProcessTypeOK
<1> SUFFICES ASSUME NEW k \in gc.todo
             PROVE  k \notin Refs(manifest') /\ ~(MayBeNamed(k)')
  BY <1>1 DEF CollectsGarbage
<1>2. k \notin Refs(manifest) /\ ~MayBeNamed(k) /\ Spent(k)'
  BY <1>1 DEF CollectInv, CollectsGarbage, LyingSpent
<1>3. (\E w \in Writer : StepOf(w)) \/ DeleteLands \/ TtlPasses
  BY <1>1 DEF Next, StepOf
<1>4. ASSUME NEW w \in Writer, StepOf(w)
      PROVE  k \notin Refs(manifest') /\ ~(MayBeNamed(k)')
  <2>1. k \notin Refs(manifest')
    <3> SUFFICES ASSUME k \in Refs(manifest')
                 PROVE  FALSE
      OBVIOUS
    <3>1. PutsOn(w) /\ pc[w] = "swapping" /\ k = pend[w].key /\ man[w] = manifest
      BY <1>1, <1>2, <1>4, PutKind DEF PutsOn
    <3> QED
      BY <1>2, <3>1 DEF MayBeNamed, Uploading, CanSwap
  <2>2. ~(MayBeNamed(k)')
    <3> SUFFICES ASSUME NEW v \in Writer, Uploading(v)', CanSwap(v)', pend'[v].key = k
                 PROVE  FALSE
      BY DEF MayBeNamed
    <3>1. pc'[v] = "swapping"
      BY <1>1, <1>2, NextNamedInSwap DEF InSwap
    <3>2. /\ pend'[v] = pend[v] /\ man'[v] = man[v] /\ Uploading(v)
      BY <1>1, <1>4, <3>1, SwappingStep DEF Uploading, Upload
    <3>3. CASE manifest' = manifest
      BY <1>2, <3>2, <3>3 DEF MayBeNamed, CanSwap
    <3>4. CASE manifest' # manifest
      <4>1. manifest'.etag = manifest.etag + 1
        BY <1>1, <1>4, <3>4, PutKind DEF PutsOn
      <4>2. man[v].etag <= manifest.etag /\ man[v].etag \in Nat /\ manifest.etag \in Nat
        BY <1>1, ManifestFields DEF ManifestsMatch, TypeOK, StoreTypeOK
      <4> QED
        BY <3>2, <4>1, <4>2 DEF CanSwap
    <3> QED
      BY <3>3, <3>4
  <2> QED
    BY <2>1, <2>2
<1>5. CASE DeleteLands \/ TtlPasses
  <2>1. UNCHANGED <<manifest, pc, pend, man>>
    BY <1>5 DEF DeleteLands, TtlPasses, storeVars, localVars
  <2> QED
    BY <1>2, <2>1 DEF MayBeNamed, Uploading, CanSwap
<1> QED
  BY <1>3, <1>4, <1>5

----------------------------------------------------------------------------
(* When the collector deletes an object, or any step of it or of a replica *)
(* is taken, the writers do not move.                                      *)
AllStand == UNCHANGED <<leaseVars, manifest, trash, pc, localVars, clientVars>>

LEMMA StandingSame ==
    ASSUME AllStand, NEW v \in Writer
    PROVE  SameLease(v) /\ SameLocals(v) /\ QuietFor(v)
<1>1. SameLease(v) /\ SameLocals(v)
  BY DEF AllStand, leaseVars, SameLease, SameLocals, localVars
<1> QED
  BY <1>1, SameUse

LEMMA StandingSpent ==
    ASSUME AllStand, NEW k \in Keys, Spent(k)
    PROVE  Spent(k)'
<1>1. /\ manifest' = manifest /\ leaseObj'.token = leaseObj.token
      /\ leaseObj'.holder = leaseObj.holder
  BY DEF AllStand, leaseVars
<1>2. \A v \in Writer : QuietFor(v)
  BY StandingSame
<1>3. \A v \in Writer : InSwap(v, k)' <=> InSwap(v, k)
  BY DEF AllStand, InSwap, localVars
<1> QED
  BY <1>1, <1>2, <1>3, SpentQuiet

(* Objects may go: the types stay as they are ...                          *)
LEMMA StandingType ==
    ASSUME TypeOK, AllStand,
           DOMAIN objs' \subseteq DOMAIN objs, \A k \in DOMAIN objs' : objs'[k] = objs[k]
    PROVE  TypeOK'
<1>1. LeaseTypeOK' /\ ClientTypeOK'
  BY LeaseSame, ClientSame DEF AllStand
<1>2. ProcessTypeOK'
  BY DEF AllStand, localVars, TypeOK, ProcessTypeOK
<1>3. StoreTypeOK'
  BY DEF AllStand, TypeOK, StoreTypeOK
<1> QED
  BY <1>1, <1>2, <1>3 DEF TypeOK

(* ... and so do the invariants that do not count the objects.             *)
LEMMA StandingCore ==
    ASSUME DurableInv, ControlInv, FenceInv, AllStand,
           DOMAIN objs' \subseteq DOMAIN objs, \A k \in DOMAIN objs' : objs'[k] = objs[k]
    PROVE  DurableInv' /\ ControlInv' /\ FenceInv'
<1>1. /\ TypeOK /\ TrashInv /\ ProcessInv /\ manifest.etag # 0 /\ manifest \in Manifests
      /\ manifest' = manifest
  BY DEF TrashInv, ControlInv, TypeOK, StoreTypeOK, AllStand
<1>2. TypeOK'
  BY <1>1, StandingType
<1>3. DurableInv'
  BY <1>1, <1>2, QuietDurable DEF AllStand, localVars, clientVars, DurableInv, NothingInvented
<1>4. TrashInv'
  <2>1. ManifestsMatch' /\ ManifestsWellFormed'
    BY <1>1 DEF TrashInv, AllStand, localVars, ManifestsMatch, Current, ManifestsWellFormed
  <2>2. PendExtends' /\ TrashIsOld' /\ TrashIsGarbage'
    BY <1>1 DEF TrashInv, AllStand, localVars, PendExtends, Uploading, TrashIsOld, TrashIsGarbage
  <2> QED
    BY <1>2, <2>1, <2>2 DEF TrashInv
<1>5. ProcessInv'
  BY <1>1 DEF ProcessInv, ClosingIsOpen, BootedHasManifest, Open, AllStand, localVars
<1>6. ControlInv'
  <2>1. LeaseInv'
    BY DEF AllStand, ControlInv, leaseVars, LeaseInv, LeaseTypeOK, EtagsDrawn, EtagMeansToken,
           RenewalsAreOwn, HeldAfterAcquire, Owns, Held
  <2>2. BootsInOrder' /\ TokensBehind' /\ HolderOwns' /\ ReleasesOwn'
    BY DEF ControlInv, BootsInOrder, BootFits, TokensBehind, HolderOwns, ReleasesOwn, Owns,
           Held, Releasing, AllStand, leaseVars, localVars
  <2> QED
    BY <1>1, <1>4, <1>5, <2>1, <2>2 DEF ControlInv
<1>7. FenceInv'
  <2>1. leaseObj' = leaseObj /\ \A v \in Writer : QuietFor(v)
    BY StandingSame DEF AllStand, leaseVars
  <2> QED
    BY <1>1, <2>1, QuietBounds, QuietFence DEF FenceInv
<1> QED
  BY <1>3, <1>6, <1>7

(* The objects that go are none that the manifest names or is to name.     *)
LEMMA StandingWriters ==
    ASSUME WritersInv, AllStand,
           DOMAIN objs' \subseteq DOMAIN objs, \A k \in DOMAIN objs' : objs'[k] = objs[k],
           \A k \in DOMAIN objs \ DOMAIN objs' : k \notin Refs(manifest) /\ ~MayBeNamed(k)
    PROVE  WritersInv'
<1> USE DEF WritersInv
<1>1. /\ RestoreInv /\ ControlInv /\ FenceInv /\ LaggardsBehind /\ ServesAbove /\ DurableInv
      /\ manifest.etag # 0 /\ manifest' = manifest
  BY DEF FencedInv, RestoreInv, ControlInv, AllStand
<1>2. DurableInv' /\ ControlInv' /\ FenceInv'
  BY <1>1, StandingCore
<1>3. ObjectsPresent'
  <2>1. manifest.snap \in Refs(manifest) /\ \A e \in manifest.segs : e.key \in Refs(manifest)
    BY DEF Refs, SegKeys
  <2> QED
    BY <1>1, <2>1 DEF RestoreInv, ObjectsPresent, RestoreOk
<1>4. SwapReady' /\ SeedReady'
  BY <1>1 DEF RestoreInv, SwapReady, SeedReady, Current, CanSwap, MayBeNamed, Uploading, AllStand,
              localVars
<1>5. RestoreInv'
  BY <1>2, <1>3, <1>4 DEF RestoreInv, ControlInv
<1>6. LaggardsBehind'
  <2> SUFFICES ASSUME NEW v \in Writer
               PROVE  Behind(v)'
    BY DEF LaggardsBehind
  <2>1. /\ \A t \in Nat : MayUse(v, t)' <=> MayUse(v, t)
        /\ Settled(v)' <=> Settled(v)
    BY StandingSame, SameUse
  <2>2. man' = man /\ Behind(v)
    BY <1>1 DEF AllStand, localVars, LaggardsBehind
  <2> QED
    BY <1>1, <2>1, <2>2 DEF Behind
<1>7. ServesAbove'
  BY <1>1, StandingSame, UsesSame DEF ServesAbove
<1> QED
  BY <1>2, <1>5, <1>6, <1>7 DEF FencedInv

(* What the collector and the replica leave alone.                         *)
LEMMA StandingNames ==
    ASSUME AllStand, NEW k
    PROVE  (MayBeNamed(k)' <=> MayBeNamed(k)) /\ Refs(manifest') = Refs(manifest)
<1>1. UNCHANGED <<manifest, pc, pend, man>>
  BY DEF AllStand, localVars
<1> QED
  BY <1>1 DEF MayBeNamed, Uploading, CanSwap

LEMMA StandingStep ==
    ASSUME UNCHANGED vars
    PROVE  AllStand /\ UNCHANGED objs
BY DEF AllStand, vars, storeVars

(* A step in which nobody deletes, and the young stay young.               *)
LEMMA IdleStep ==
    ASSUME CollectInv, UNCHANGED vars, UNCHANGED <<young, gc>>
    PROVE  CollectInv'
<1>1. AllStand /\ objs' = objs
  BY StandingStep
<1>2. WritersInv'
  BY <1>1, StandingWriters DEF CollectInv
<1>3. DOMAIN objs \cup gc.todo \subseteq Keys /\ GcTyped'
  BY DEF CollectInv, WritersInv, FencedInv, ControlInv, TrashInv, TypeOK, StoreTypeOK, GcTyped
<1>4. LyingSpent'
  BY <1>1, <1>3, StandingSpent DEF CollectInv, LyingSpent
<1>5. UNCHANGED <<manifest, pc, pend>>
  BY <1>1 DEF AllStand, localVars
<1>6. UploadsYoung' /\ NewRefsYoung'
  BY <1>1, <1>5 DEF CollectInv, UploadsYoung, NewRefsYoung
<1>7. CollectsGarbage'
  BY <1>1, StandingNames DEF CollectInv, CollectsGarbage
<1> QED
  BY <1>2, <1>3, <1>4, <1>6, <1>7 DEF CollectInv

(* The manifest has just been read: nothing has been named since.          *)
LEMMA ReadCollects ==
    ASSUME CollectInv, GcRead
    PROVE  CollectInv'
<1>1. AllStand /\ objs' = objs /\ young' = young
  BY StandingStep DEF GcRead
<1>2. WritersInv'
  BY <1>1, StandingWriters DEF CollectInv
<1>3. DOMAIN objs \cup gc.todo \subseteq Keys /\ Refs(manifest) \subseteq Keys
  BY ManifestFields
     DEF CollectInv, WritersInv, FencedInv, ControlInv, TrashInv, TypeOK, StoreTypeOK, GcTyped, Refs
<1>4. GcTyped' /\ gc'.at = "list" /\ gc'.refs = Refs(manifest) /\ gc'.todo = gc.todo
  BY <1>3 DEF GcRead, CollectInv, GcTyped
<1>5. LyingSpent'
  BY <1>1, <1>3, <1>4, StandingSpent DEF CollectInv, LyingSpent
<1>6. UNCHANGED <<manifest, pc, pend>>
  BY <1>1 DEF AllStand, localVars
<1>7. UploadsYoung' /\ NewRefsYoung'
  BY <1>1, <1>4, <1>6 DEF CollectInv, UploadsYoung, NewRefsYoung
<1>8. CollectsGarbage'
  BY <1>1, <1>4, StandingNames DEF CollectInv, CollectsGarbage
<1> QED
  BY <1>2, <1>4, <1>5, <1>7, <1>8 DEF CollectInv

(* What is old, and was not named then, is not named now, nor will be.     *)
LEMMA ListCollects ==
    ASSUME NumericEtags, CollectInv, GcList
    PROVE  CollectInv'
<1> DEFINE todo == {k \in DOMAIN objs \ gc.refs : ~Graced(k)}
<1>1. AllStand /\ objs' = objs /\ young' = young /\ gc.at = "list"
  BY StandingStep DEF GcList
<1>2. WritersInv'
  BY <1>1, StandingWriters DEF CollectInv
<1>3. DOMAIN objs \subseteq Keys
  BY DEF CollectInv, WritersInv, FencedInv, ControlInv, TrashInv, TypeOK, StoreTypeOK
<1>4. gc'.at # "list" /\ GcTyped' /\ gc'.todo \subseteq todo
  <2>1. CASE gc' = NoCollection
    BY <2>1 DEF NoCollection, GcTyped
  <2>2. CASE gc' = [gc EXCEPT !.at = "delete", !.todo = todo]
    BY <1>3, <2>2 DEF CollectInv, GcTyped
  <2> QED
    BY <2>1, <2>2 DEF GcList
<1>5. LyingSpent'
  BY <1>1, <1>3, <1>4, StandingSpent DEF CollectInv, LyingSpent
<1>6. UNCHANGED <<manifest, pc, pend>>
  BY <1>1 DEF AllStand, localVars
<1>7. UploadsYoung' /\ NewRefsYoung'
  BY <1>1, <1>4, <1>6 DEF CollectInv, UploadsYoung, NewRefsYoung
<1>8. ASSUME NEW k \in todo
      PROVE  k \notin Refs(manifest) /\ ~MayBeNamed(k)
  <2>1. k \in DOMAIN objs /\ k \notin gc.refs /\ k \notin young /\ Spent(k)
    BY DEF Graced, CollectInv, LyingSpent
  <2>2. k \notin Refs(manifest)
    BY <1>1, <2>1 DEF CollectInv, NewRefsYoung
  <2>3. ~MayBeNamed(k)
    <3> SUFFICES ASSUME NEW w \in Writer, Uploading(w), CanSwap(w), pend[w].key = k
                 PROVE  FALSE
      BY DEF MayBeNamed
    <3>1. InSwap(w, k)
      BY <2>1, NamedInSwap DEF CollectInv, WritersInv, FencedInv
    <3> QED
      BY <2>1, <3>1 DEF InSwap, CollectInv, UploadsYoung
  <2> QED
    BY <2>2, <2>3
<1>9. CollectsGarbage'
  BY <1>1, <1>4, <1>8, StandingNames DEF CollectsGarbage
<1> QED
  BY <1>2, <1>4, <1>5, <1>7, <1>9 DEF CollectInv

(* It is deleted, then.                                                    *)
LEMMA DeleteCollects ==
    ASSUME CollectInv, GcDelete
    PROVE  CollectInv'
<1>1. PICK k \in gc.todo :
         /\ objs' = [x \in DOMAIN objs \ {k} |-> objs[x]]
         /\ young' = young \ {k}
         /\ gc' = IF gc.todo = {k} THEN NoCollection ELSE [gc EXCEPT !.todo = @ \ {k}]
  BY DEF GcDelete
<1>2. AllStand /\ gc.at = "delete"
  BY DEF GcDelete, AllStand
<1>3. k \notin Refs(manifest) /\ ~MayBeNamed(k) /\ DOMAIN objs \cup gc.todo \subseteq Keys
  BY DEF CollectInv, CollectsGarbage, WritersInv, FencedInv, ControlInv, TrashInv, TypeOK,
         StoreTypeOK, GcTyped
<1>4. DOMAIN objs' = DOMAIN objs \ {k} /\ \A x \in DOMAIN objs' : objs'[x] = objs[x]
  BY <1>1
<1>5. WritersInv'
  BY <1>2, <1>3, <1>4, StandingWriters DEF CollectInv
<1>6. gc'.at # "list" /\ GcTyped' /\ gc'.todo \subseteq gc.todo
  <2>1. CASE gc' = NoCollection
    BY <2>1 DEF NoCollection, GcTyped
  <2>2. CASE gc' = [gc EXCEPT !.todo = @ \ {k}]
    BY <1>2, <2>2 DEF CollectInv, GcTyped
  <2> QED
    BY <1>1, <2>1, <2>2
<1>7. LyingSpent'
  BY <1>2, <1>3, <1>4, <1>6, StandingSpent DEF CollectInv, LyingSpent
<1>8. UNCHANGED <<manifest, pc, pend>>
  BY <1>2 DEF AllStand, localVars
<1>9. UploadsYoung' /\ NewRefsYoung'
  BY <1>1, <1>4, <1>6, <1>8 DEF CollectInv, UploadsYoung, NewRefsYoung
<1>10. CollectsGarbage'
  BY <1>2, <1>6, StandingNames DEF CollectInv, CollectsGarbage
<1> QED
  BY <1>5, <1>6, <1>7, <1>9, <1>10 DEF CollectInv

(* An object that a commit or a collection relies on stays young.          *)
LEMMA AgeCollects ==
    ASSUME Punctual, CollectInv, Age
    PROVE  CollectInv'
<1>1. PICK k \in young : gc.at = "idle" /\ ~InFlight(k) /\ young' = young \ {k}
  BY DEF Age
<1>2. AllStand /\ objs' = objs /\ gc' = gc
  BY StandingStep DEF Age
<1>3. WritersInv'
  BY <1>2, StandingWriters DEF CollectInv
<1>4. DOMAIN objs \cup gc.todo \subseteq Keys /\ GcTyped'
  BY <1>2
     DEF CollectInv, WritersInv, FencedInv, ControlInv, TrashInv, TypeOK, StoreTypeOK, GcTyped
<1>5. LyingSpent'
  BY <1>2, <1>4, StandingSpent DEF CollectInv, LyingSpent
<1>6. UNCHANGED <<manifest, pc, pend>>
  BY <1>2 DEF AllStand, localVars
<1>7. UploadsYoung'
  BY <1>1, <1>2, <1>6 DEF CollectInv, UploadsYoung, InFlight, Uploading
<1>8. NewRefsYoung' /\ CollectsGarbage'
  BY <1>1, <1>2, StandingNames DEF CollectInv, CollectsGarbage, NewRefsYoung
<1> QED
  BY <1>3, <1>4, <1>5, <1>7, <1>8 DEF CollectInv

(* The invariant holds initially ...                                       *)
LEMMA InitCollects == TrustedStore /\ ReadersInit => CollectInv
<1> SUFFICES ASSUME TrustedStore, ReadersInit
             PROVE  CollectInv
  OBVIOUS
<1>1. Init /\ gc = NoCollection /\ RestoreInv /\ ControlInv /\ FenceInv
  BY InitRestore, InitFence DEF ReadersInit
<1>2. \A w \in Writer : pc[w] = "off" /\ ~Settled(w) /\ ~Open(w)
  BY <1>1 DEF Init, Settled, Candidate, Open
<1>3. LaggardsBehind /\ ServesAbove /\ UploadsYoung
  BY <1>2 DEF LaggardsBehind, Behind, ServesAbove, UsesInOrder, UploadsYoung
<1>4. DOMAIN objs \cup gc.todo = {FirstKey} /\ FirstKey.seq = 0 /\ manifest.seq = 0
  BY <1>1 DEF Init, TrustedStore, NoCollection, FirstKey, Key, FirstManifest, NoManifest
<1>5. LyingSpent
  BY <1>4 DEF LyingSpent, Spent, Ahead
<1>6. GcTyped /\ NewRefsYoung /\ CollectsGarbage
  BY <1>1 DEF GcTyped, NewRefsYoung, CollectsGarbage, NoCollection
<1> QED
  BY <1>1, <1>3, <1>5, <1>6 DEF CollectInv, WritersInv, FencedInv

(* ... and every step keeps it that does not lower the manifest's token.   *)
LEMMA NextCollects ==
    ASSUME TrustedStore, NumericEtags, Punctual, CollectInv, [ReadersNext]_allVars,
           [TokenKept]_vars
    PROVE  CollectInv'
<1>1. TokenKept
  BY ManifestFields DEF TokenKept, vars, storeVars, CollectInv, WritersInv, FencedInv, ControlInv,
                        TrashInv, TypeOK, StoreTypeOK
<1>2. CASE WriterStep
  <2>1. WritersInv'
    BY <1>1, <1>2, WritersStep DEF CollectInv, WriterStep
  <2>2. GcTyped'
    BY <1>2 DEF WriterStep, CollectInv, GcTyped
  <2>3. LyingSpent'
    BY <1>1, <1>2, LyingStep
  <2>4. UploadsYoung' /\ NewRefsYoung'
    BY <1>2, YoungStep
  <2>5. CollectsGarbage'
    BY <1>2, <2>1, <2>3, GarbageStep
  <2> QED
    BY <2>1, <2>2, <2>3, <2>4, <2>5 DEF CollectInv
<1>3. CASE Collect
  BY <1>3, ReadCollects, ListCollects, DeleteCollects DEF Collect
<1>4. CASE Age
  BY <1>4, AgeCollects
<1>5. CASE Replica \/ UNCHANGED allVars
  <2>1. UNCHANGED vars /\ UNCHANGED <<young, gc>>
    BY <1>5 DEF Replica, ReplicaOpen, Refresh, RefreshStep, FetchSnapshot, FetchSegments,
                ReplicaClose, allVars, readerVars
  <2> QED
    BY <2>1, IdleStep
<1> QED
  BY <1>2, <1>3, <1>4, <1>5 DEF ReadersNext

LEMMA CollectInvariance ==
    ASSUME TrustedStore, NumericEtags, Punctual
    PROVE  ReadersSpec /\ TokenMonotone => []CollectInv
<1>1. ReadersInit => CollectInv
  BY InitCollects
<1>2. CollectInv /\ [ReadersNext]_allVars /\ [TokenKept]_vars => CollectInv'
  BY NextCollects
<1>3. TokenMonotone <=> [][TokenKept]_vars
  BY DEF TokenMonotone, TokenKept
<1> QED
  BY <1>1, <1>2, <1>3, PTL DEF ReadersSpec

(* The collector takes no lease and knows of no writer: the manifest it    *)
(* read some commits ago and the age of the objects are all it goes by.    *)
(* That is enough, on such a store and with etags that are numbers, as     *)
(* long as an upload and its CAS, and one collection, take less than       *)
(* graceMs: it never has on its list what the manifest names, or what a    *)
(* commit that will succeed has uploaded.                                  *)
THEOREM CollectorKeepsNamed ==
    ASSUME TrustedStore, NumericEtags, Punctual
    PROVE  ReadersSpec /\ TokenMonotone => []CollectsGarbage
<1>1. CollectInv => CollectsGarbage
  BY DEF CollectInv
<1> QED
  BY <1>1, CollectInvariance, PTL

(* What readers do is no step of the abstract log.                         *)
LEMMA ReadersKeepLog ==
    ASSUME DurableInv, DurableInv', [ReadersNext]_allVars
    PROVE  [Log!Next]_(Log!logVars)
<1>1. CASE WriterStep
  BY <1>1, NextIsLog DEF WriterStep
<1>2. CASE Age \/ Collect \/ Replica \/ UNCHANGED allVars
  <2>1. UNCHANGED <<manifest, clientVars>>
    BY <1>2 DEF Age, Collect, GcRead, GcList, GcDelete, Replica, ReplicaOpen, Refresh, RefreshStep,
                FetchSnapshot, FetchSegments, ReplicaClose, allVars, readerVars, vars, storeVars
  <2> QED
    BY <2>1 DEF clientVars, Log!logVars
<1> QED
  BY <1>1, <1>2 DEF ReadersNext

(* So the bucket survives it: beside the collector the writers still are   *)
(* the log of DurableLog, every acknowledged row stays, and whenever an    *)
(* object is deleted, the manifest can be restored.                        *)
THEOREM BucketSurvivesCollector ==
    ASSUME TrustedStore, NumericEtags, Punctual
    PROVE  ReadersSpec /\ TokenMonotone => ImplementsLog /\ []AckedDurable /\ []Restorable
<1>1. CollectInv => DurableInv /\ AckedDurable /\ Restorable
  BY RestoreInvRestorable DEF CollectInv, WritersInv, RestoreInv, DurableInv
<1>2. ReadersInit => Log!Init
  BY ContentEmpty DEF ReadersInit, Init, Log!Init
<1>3. DurableInv /\ DurableInv' /\ [ReadersNext]_allVars => [Log!Next]_(Log!logVars)
  BY ReadersKeepLog
<1> QED
  BY <1>1, <1>2, <1>3, CollectInvariance, PTL DEF ReadersSpec, ImplementsLog, Log!Spec

----------------------------------------------------------------------------
(* The replica.  The manifest it fetched has been in the bucket, and       *)
(* whatever it names is under no token that someone may still write a      *)
(* later object under: what is overwritten is none of it, so its snapshot  *)
(* is gone or as it was, and its segments are checked.                     *)
LaterForeign(m) ==
    \A w \in Writer : Settled(w) =>
        \A k \in Refs(m) : k.seq > man[w].seq => ~MayUse(w, k.token)

SnapHolds(m) == m.snap \in DOMAIN objs => objs[m.snap] = m.base

Past(m) ==
    /\ m \in Manifests /\ RefsInOrder(m)
    /\ m.seq <= manifest.seq /\ m.etag <= manifest.etag
    /\ Content(m) \subseteq Content(manifest)
    /\ SnapHolds(m) /\ LaterForeign(m)

ReplicaTyped ==
    /\ rep \in [at : {"off", "open", "closed"}, m : Manifests, rows : SUBSET Row,
                intact : BOOLEAN]
    /\ flight \in [Refresher -> [at : {"idle", "snap", "segs"},
                                 m : Manifests, rows : SUBSET Row]]

FlightsPast ==
    \A f \in Refresher, m \in Manifests : flight[f] # NoFlight /\ m = flight[f].m => Past(m)

OneFlight == \A f, g \in Refresher : flight[f] # NoFlight /\ flight[g] # NoFlight => f = g

SnapFetched == \A f \in Refresher : flight[f].at = "segs" => flight[f].rows = flight[f].m.base

RepPast ==
    rep.at = "open" => rep.m.etag <= manifest.etag /\ Content(rep.m) \subseteq Content(manifest)

FlightsAfter ==
    \A f \in Refresher : rep.at = "open" /\ flight[f] # NoFlight =>
        rep.m.etag <= flight[f].m.etag /\ Content(rep.m) \subseteq Content(flight[f].m)

RefreshInv ==
    /\ ReplicaTyped /\ FlightsPast /\ OneFlight /\ SnapFetched
    /\ RepPast /\ FlightsAfter /\ ReplicaServesCommits

ReplicaInv == DurableInv /\ ControlInv /\ FenceInv /\ RefreshInv

(* What is in the bucket is past.                                          *)
LEMMA PresentIsPast ==
    ASSUME DurableInv, ControlInv, FenceInv
    PROVE  Past(manifest)
<1>1. manifest \in Manifests /\ RefsInOrder(manifest)
  BY DEF ControlInv, TrashInv, TypeOK, StoreTypeOK, ManifestsWellFormed, WellFormed
<1>2. manifest.seq \in Nat /\ manifest.etag \in Nat
  BY <1>1, ManifestFields
<1>3. SnapHolds(manifest) /\ LaterForeign(manifest)
  BY DEF DurableInv, SnapIntact, SnapHolds, FenceInv, LaterRefsForeign, LaterForeign
<1> QED
  BY <1>1, <1>2, <1>3 DEF Past

(* A token that becomes someone's is one of a writer that has the manifest *)
(* of the bucket.                                                          *)
LEMMA ForeignQuiet ==
    ASSUME NEW m \in Manifests, LaterForeign(m), \A v \in Writer : QuietFor(v)
    PROVE  LaterForeign(m)'
<1> SUFFICES ASSUME NEW v \in Writer, Settled(v)', NEW k \in Refs(m), k.seq > man'[v].seq
             PROVE  ~(MayUse(v, k.token)')
  BY DEF LaterForeign, Refs, SegKeys
<1>1. k.token \in Nat
  BY ManifestFields DEF Refs, Keys
<1>2. Settled(v) /\ man'[v].seq = man[v].seq
  BY DEF QuietFor
<1>3. ~MayUse(v, k.token)
  BY <1>2 DEF LaterForeign
<1> QED
  BY <1>1, <1>3 DEF QuietFor

LEMMA ForeignStep ==
    ASSUME TrustedStore, ControlInv, FenceInv, NEW m \in Manifests, RefsInOrder(m),
           m.seq <= manifest.seq, LaterForeign(m), NEW w \in Writer, StepOf(w)
    PROVE  LaterForeign(m)'
<1>1. TypeOK /\ OthersAside(w) /\ manifest \in Manifests
  BY OthersSame DEF ControlInv, TrashInv, TypeOK, StoreTypeOK, OthersAside
<1>2. \A v \in Writer \ {w} : QuietFor(v)
  BY <1>1, SameUse DEF OthersAside
<1>3. CASE QuietFor(w)
  BY <1>2, <1>3, ForeignQuiet
<1>4. CASE Acquires(w) \/ Upgrades(w) \/ Outranks(w) \/ PutsOn(w)
  <2>1. Settled(w)' => man'[w].seq >= manifest.seq
    <3>1. manifest.seq \in Nat
      BY <1>1, ManifestFields
    <3>2. Acquires(w) => ~(Settled(w)')
      BY DEF Acquires, Settled, Candidate, Open
    <3>3. Upgrades(w) \/ Outranks(w) \/ PutsOn(w) => man'[w].seq >= manifest.seq
      BY <3>1 DEF Upgrades, Outranks, PutsOn
    <3> QED
      BY <1>4, <3>2, <3>3
  <2> SUFFICES ASSUME NEW v \in Writer, Settled(v)', NEW k \in Refs(m), k.seq > man'[v].seq
               PROVE  ~(MayUse(v, k.token)')
    BY DEF LaterForeign, Refs, SegKeys
  <2>2. k \in Keys /\ k.token \in Nat /\ k.seq \in Nat /\ m.seq \in Nat /\ manifest.seq \in Nat
    BY <1>1, ManifestFields DEF Refs, Keys
  <2>3. k.seq <= manifest.seq
    BY <2>2 DEF RefsInOrder
  <2>4. CASE v = w
    <3>1. man'[w].seq \in Nat
      <4>1. man' \in [Writer -> Manifests]
        BY <1>1, NextType DEF TypeOK, ProcessTypeOK, Next, StepOf
      <4> QED
        BY <4>1, ManifestFields
    <3> QED
      BY <2>1, <2>2, <2>3, <2>4, <3>1
  <2>5. CASE v # w
    BY <1>2, <2>2, <2>5 DEF QuietFor, LaterForeign
  <2> QED
    BY <2>4, <2>5
<1> QED
  BY <1>1, <1>3, <1>4, StepKinds DEF NoToken, Deletes

(* So a manifest that was once read stays past.                            *)
LEMMA PastStays ==
    ASSUME TrustedStore, DurableInv, ControlInv, FenceInv, TypeOK', NEW m, Past(m), Next
    PROVE  Past(m)'
<1>1. /\ manifest \in Manifests /\ manifest.seq \in Nat /\ manifest.etag \in Nat
      /\ m.seq \in Nat /\ m.etag \in Nat
  BY ManifestFields DEF ControlInv, TrashInv, TypeOK, StoreTypeOK, Past
<1>2. Content(m) \subseteq Content(manifest')
  BY StepGrows DEF Past
<1>3. ASSUME NEW w \in Writer, StepOf(w)
      PROVE  /\ m.seq <= manifest'.seq /\ m.etag <= manifest'.etag
             /\ SnapHolds(m)' /\ LaterForeign(m)'
  <2>1. m.seq <= manifest'.seq /\ m.etag <= manifest'.etag
    BY <1>1, <1>3, PutKind DEF PutsOn, Past
  <2>2. LaterForeign(m)'
    BY <1>3, ForeignStep DEF Past
  <2>3. SnapHolds(m)'
    <3>1. CASE Upload(w)
      <4>1. /\ Uploading(w) /\ Settled(w) /\ MayUse(w, pend[w].key.token)
            /\ pend[w].key.seq = man[w].seq + 1 /\ man[w].seq \in Nat
        BY <3>1, ManifestFields
           DEF Upload, Uploading, Settled, Open, MayUse, ControlInv, TrashInv, PendExtends, Extends,
               TypeOK, ProcessTypeOK
      <4>2. m.snap # pend[w].key
        BY <4>1 DEF Past, LaterForeign, Refs
      <4> QED
        BY <3>1, <4>2 DEF Upload, PutObj, Past, SnapHolds
    <3>2. CASE ~Upload(w)
      BY <1>3, <3>2, ObjsStep DEF Past, SnapHolds
    <3> QED
      BY <3>1, <3>2
  <2> QED
    BY <2>1, <2>2, <2>3
<1>4. CASE DeleteLands \/ TtlPasses
  <2>1. /\ manifest' = manifest
        /\ DOMAIN objs' \subseteq DOMAIN objs /\ \A k \in DOMAIN objs' : objs'[k] = objs[k]
    BY <1>4 DEF DeleteLands, TtlPasses, storeVars
  <2>2. UNCHANGED <<manifest, pc, localVars, lpc, lz, tookOver, floor, seen, call>>
    BY <1>4 DEF DeleteLands, TtlPasses, Expire, leaseVars, storeVars
  <2>3. \A v \in Writer : QuietFor(v)
    BY <2>2, SameUse DEF SameLease, SameLocals, localVars
  <2> QED
    BY <1>2, <2>1, <2>3, ForeignQuiet DEF Past, SnapHolds
<1> QED
  BY <1>2, <1>3, <1>4 DEF Past, Next, StepOf, RefsInOrder, Refs, SegKeys

LEMMA PastStands ==
    ASSUME AllStand, NEW m, Past(m),
           DOMAIN objs' \subseteq DOMAIN objs, \A k \in DOMAIN objs' : objs'[k] = objs[k]
    PROVE  Past(m)'
<1>1. manifest' = manifest /\ \A v \in Writer : QuietFor(v)
  BY StandingSame DEF AllStand
<1> QED
  BY <1>1, ForeignQuiet DEF Past, SnapHolds, RefsInOrder, Refs, SegKeys

LEMMA FlightTypes ==
    ASSUME ReplicaTyped, NEW f \in Refresher
    PROVE  /\ flight[f].at \in {"idle", "snap", "segs"} /\ flight[f].m \in Manifests
           /\ flight[f].rows \in SUBSET Row
           /\ rep.at \in {"off", "open", "closed"} /\ rep.m \in Manifests /\ rep.rows \in SUBSET Row
           /\ flight[f].at # "idle" => flight[f] # NoFlight
BY DEF ReplicaTyped, NoFlight

LEMMA ReplicaConstants ==
    /\ NoReplica \in [at : {"off", "open", "closed"}, m : Manifests, rows : SUBSET Row,
                      intact : BOOLEAN]
    /\ NoFlight \in [at : {"idle", "snap", "segs"}, m : Manifests, rows : SUBSET Row]
BY NoManifestType DEF NoReplica, NoFlight

(* The bucket goes on, the replica does nothing.                           *)
LEMMA RefreshRests ==
    ASSUME RefreshInv, UNCHANGED <<rep, flight>>, manifest \in Manifests, manifest' \in Manifests,
           manifest.etag <= manifest'.etag, Content(manifest) \subseteq Content(manifest'),
           \A m \in Manifests : Past(m) => Past(m)'
    PROVE  RefreshInv'
<1> USE DEF RefreshInv
<1>1. ReplicaTyped' /\ OneFlight' /\ SnapFetched' /\ FlightsAfter' /\ ReplicaServesCommits'
  BY DEF ReplicaTyped, OneFlight, SnapFetched, FlightsAfter, ReplicaServesCommits
<1>2. FlightsPast'
  BY DEF FlightsPast
<1>3. RepPast'
  <2>1. /\ rep.at = "open" => rep.m.etag \in Nat
        /\ manifest.etag \in Nat /\ manifest'.etag \in Nat
    BY ManifestFields DEF ReplicaTyped
  <2> QED
    BY <2>1 DEF RepPast
<1> QED
  BY <1>1, <1>2, <1>3

(* open() or refresh() fetches the manifest; nobody else refreshes.        *)
LEMMA FetchManifest ==
    ASSUME DurableInv, ControlInv, FenceInv, RefreshInv, NEW f \in Refresher,
           ReplicaOpen(f) \/ Refresh(f)
    PROVE  RefreshInv'
<1> USE DEF RefreshInv
<1>1. /\ \A g \in Refresher : flight[g] = NoFlight
      /\ Fly(f, [NoFlight EXCEPT !.at = "snap", !.m = manifest])
      /\ UNCHANGED <<vars, rep>>
  BY DEF ReplicaOpen, Refresh
<1>2. AllStand /\ objs' = objs /\ manifest' = manifest /\ Past(manifest) /\ manifest \in Manifests
  BY <1>1, StandingStep, PresentIsPast DEF AllStand, Past
<1>3. /\ flight'[f] = [at |-> "snap", m |-> manifest, rows |-> {}]
      /\ \A g \in Refresher : g # f => flight'[g] = NoFlight
      /\ flight' \in [Refresher -> [at : {"idle", "snap", "segs"}, m : Manifests, rows : SUBSET Row]]
  BY <1>1, <1>2, ReplicaConstants DEF Fly, NoFlight, ReplicaTyped
<1>4. ReplicaTyped' /\ OneFlight' /\ RepPast' /\ ReplicaServesCommits'
  BY <1>1, <1>2, <1>3 DEF ReplicaTyped, OneFlight, RepPast, ReplicaServesCommits
<1>5. SnapFetched'
  BY <1>3 DEF SnapFetched, NoFlight
<1>6. FlightsPast'
  <2> SUFFICES ASSUME NEW m \in Manifests, m = manifest
               PROVE  Past(m)'
    BY <1>3 DEF FlightsPast
  <2> QED
    BY <1>2, PastStands
<1>7. FlightsAfter'
  BY <1>1, <1>3 DEF FlightsAfter, RepPast
<1> QED
  BY <1>4, <1>5, <1>6, <1>7

(* The snapshot restores to what the manifest says, or the refresh fails.  *)
LEMMA SnapshotIsRight ==
    ASSUME RefreshInv, NEW f \in Refresher, FetchSnapshot(f), TypeOK
    PROVE  RefreshInv'
<1> USE DEF RefreshInv
<1>1. /\ UNCHANGED vars /\ flight[f].at = "snap" /\ flight[f] # NoFlight
      /\ rep' = [rep EXCEPT !.intact = @ /\ ~SameDir(f)]
      /\ Fly(f, IF flight[f].m.snap \in DOMAIN objs
                THEN [flight[f] EXCEPT !.at = "segs", !.rows = objs[flight[f].m.snap]]
                ELSE NoFlight)
  BY DEF FetchSnapshot, Landed, NoFlight
<1>2. AllStand /\ objs' = objs /\ manifest' = manifest
  BY <1>1, StandingStep DEF AllStand
<1>3. /\ rep'.at = rep.at /\ rep'.m = rep.m /\ rep'.rows = rep.rows
      /\ rep' \in [at : {"off", "open", "closed"}, m : Manifests, rows : SUBSET Row,
                   intact : BOOLEAN]
  <2>1. (rep.intact /\ ~SameDir(f)) \in BOOLEAN
    OBVIOUS
  <2> QED
    BY <1>1, <2>1 DEF ReplicaTyped
<1>4. Past(flight[f].m) /\ flight[f].m \in Manifests
  BY <1>1 DEF FlightsPast, ReplicaTyped
<1>5. /\ \A g \in Refresher : g # f => flight'[g] = flight[g]
      /\ \/ flight'[f] = NoFlight
         \/ flight'[f] = [at |-> "segs", m |-> flight[f].m, rows |-> flight[f].m.base]
  <2>1. flight[f].m.snap \in DOMAIN objs => objs[flight[f].m.snap] = flight[f].m.base
    BY <1>4 DEF Past, SnapHolds
  <2> QED
    BY <1>1, <2>1 DEF Fly, ReplicaTyped
<1>6. ReplicaTyped'
  <2>1. flight[f].m.base \in SUBSET Row
    BY <1>4, ManifestFields
  <2>2. flight'[f] \in [at : {"idle", "snap", "segs"}, m : Manifests, rows : SUBSET Row]
    BY <1>4, <1>5, <2>1, ReplicaConstants
  <2> QED
    BY <1>1, <1>3, <2>2 DEF ReplicaTyped, Fly
<1>7. \A g \in Refresher :
         flight'[g] # NoFlight => flight[g] # NoFlight /\ flight'[g].m = flight[g].m
  BY <1>1, <1>5
<1>8. FlightsPast'
  <2> SUFFICES ASSUME NEW g \in Refresher, NEW m \in Manifests, flight'[g] # NoFlight,
                      m = flight'[g].m
               PROVE  Past(m)'
    BY DEF FlightsPast
  <2>1. Past(m)
    BY <1>7 DEF FlightsPast
  <2> QED
    BY <1>2, <2>1, PastStands
<1>9. OneFlight' /\ SnapFetched'
  <2>1. OneFlight'
    BY <1>7 DEF OneFlight
  <2>2. flight'[f].at = "segs" => flight'[f].rows = flight'[f].m.base
    BY <1>5 DEF NoFlight
  <2>3. \A g \in Refresher : g # f /\ flight'[g].at = "segs" => flight'[g].rows = flight'[g].m.base
    BY <1>5 DEF SnapFetched
  <2> QED
    BY <2>1, <2>2, <2>3 DEF SnapFetched
<1>10. RepPast' /\ FlightsAfter' /\ ReplicaServesCommits'
  BY <1>2, <1>3, <1>7 DEF RepPast, FlightsAfter, ReplicaServesCommits
<1> QED
  BY <1>6, <1>8, <1>9, <1>10

(* Every segment is the manifest's, and so is what is served.              *)
LEMMA SegmentsAreRight ==
    ASSUME RefreshInv, NEW f \in Refresher, FetchSegments(f), TypeOK
    PROVE  /\ RefreshInv'
           /\ rep' = rep \/ (rep'.at = "open" /\ rep'.m = flight[f].m /\ flight[f] # NoFlight)
<1> USE DEF RefreshInv
<1>1. /\ UNCHANGED vars /\ flight[f].at = "segs" /\ flight[f] # NoFlight /\ Fly(f, NoFlight)
      /\ \/ rep' = rep
         \/ /\ SegmentsThere(flight[f].m)
            /\ rep' = [at |-> "open", m |-> flight[f].m, intact |-> ~SameDir(f),
                       rows |-> flight[f].rows \cup Replayed(flight[f].m)]
  BY DEF FetchSegments, Landed, NoFlight
<1>2. AllStand /\ objs' = objs /\ manifest' = manifest
  BY <1>1, StandingStep DEF AllStand
<1>3. Past(flight[f].m) /\ flight[f].m \in Manifests /\ flight[f].rows = flight[f].m.base
  BY <1>1 DEF FlightsPast, ReplicaTyped, SnapFetched
<1>4. /\ \A g \in Refresher : flight'[g] = NoFlight
      /\ flight' \in [Refresher -> [at : {"idle", "snap", "segs"}, m : Manifests, rows : SUBSET Row]]
  BY <1>1, ReplicaConstants DEF Fly, OneFlight, ReplicaTyped
<1>5. ASSUME SegmentsThere(flight[f].m)
      PROVE  flight[f].rows \cup Replayed(flight[f].m) = Content(flight[f].m)
  <2>1. \A e \in flight[f].m.segs : e.key \in DOMAIN objs /\ objs[e.key] = e.body
    BY <1>5 DEF SegmentsThere
  <2>2. \A k \in SegKeys(flight[f].m) \cap DOMAIN objs :
           \E e \in flight[f].m.segs : e.key = k /\ objs[k] = e.body
    BY <2>1 DEF SegKeys
  <2>3. \A e \in flight[f].m.segs : e.key \in SegKeys(flight[f].m) \cap DOMAIN objs
    BY <2>1 DEF SegKeys
  <2>4. Replayed(flight[f].m) = UNION {e.body : e \in flight[f].m.segs}
    BY <2>1, <2>2, <2>3 DEF Replayed
  <2> QED
    BY <1>3, <2>4 DEF Content
<1>6. /\ rep' \in [at : {"off", "open", "closed"}, m : Manifests, rows : SUBSET Row,
                   intact : BOOLEAN]
      /\ RepPast' /\ ReplicaServesCommits'
  <2>1. CASE rep' = rep
    BY <1>2, <2>1 DEF ReplicaTyped, RepPast, ReplicaServesCommits
  <2>2. CASE /\ SegmentsThere(flight[f].m)
             /\ rep' = [at |-> "open", m |-> flight[f].m, intact |-> ~SameDir(f),
                        rows |-> flight[f].rows \cup Replayed(flight[f].m)]
    <3>1. Content(flight[f].m) \in SUBSET Row /\ (~SameDir(f)) \in BOOLEAN
      BY <1>3, ManifestFields
    <3>2. rep'.at = "open" /\ rep'.m = flight[f].m /\ rep'.rows = Content(flight[f].m)
      BY <1>5, <2>2
    <3> QED
      BY <1>2, <1>3, <1>5, <2>2, <3>1, <3>2 DEF RepPast, ReplicaServesCommits, Past
  <2> QED
    BY <1>1, <2>1, <2>2
<1>7. ReplicaTyped' /\ FlightsPast' /\ OneFlight' /\ SnapFetched' /\ FlightsAfter'
  BY <1>4, <1>6 DEF ReplicaTyped, FlightsPast, OneFlight, SnapFetched, FlightsAfter, NoFlight
<1> QED
  BY <1>1, <1>6, <1>7

LEMMA CloseIsQuiet ==
    ASSUME RefreshInv, ReplicaClose
    PROVE  RefreshInv'
<1>1. rep'.at = "closed" /\ ReplicaTyped' /\ UNCHANGED <<vars, flight>>
  BY ReplicaConstants DEF ReplicaClose, NoReplica, RefreshInv, ReplicaTyped
<1>2. \A f \in Refresher : flight'[f] = NoFlight
  BY DEF ReplicaClose
<1> QED
  BY <1>1, <1>2 DEF RefreshInv, FlightsPast, OneFlight, SnapFetched, FlightsAfter, RepPast,
                    ReplicaServesCommits, NoFlight

LEMMA NextReplicaInv ==
    ASSUME TrustedStore, ReplicaInv, [ReadersNext]_allVars, [TokenKept]_vars
    PROVE  ReplicaInv'
<1>1. /\ DurableInv /\ ControlInv /\ FenceInv /\ RefreshInv /\ TypeOK
      /\ manifest \in Manifests /\ manifest.etag \in Nat
  BY ManifestFields DEF ReplicaInv, ControlInv, TrashInv, TypeOK, StoreTypeOK
<1>2. TokenKept
  BY <1>1, ManifestFields DEF TokenKept, vars, storeVars
<1>3. CASE WriterStep
  <2>1. Next /\ UNCHANGED <<rep, flight>>
    BY <1>3 DEF WriterStep
  <2>2. ControlInv' /\ FenceInv'
    BY <1>1, <1>2, <2>1, NextFence
  <2>3. DurableInv'
    BY <1>1, <2>1, NextDurable, FenceKeepsKeysApart
  <2>4. TypeOK' /\ manifest' \in Manifests
    BY <2>3 DEF DurableInv, TypeOK, StoreTypeOK
  <2>5. /\ Past(manifest)
        /\ \A m \in Manifests : Past(m) => Past(m)'
    BY <1>1, <2>1, <2>4, PastStays, PresentIsPast
  <2>6. manifest.etag <= manifest'.etag /\ Content(manifest) \subseteq Content(manifest')
    <3>1. \A m \in Manifests : m = manifest => Past(m)'
      BY <2>5
    <3> QED
      BY <1>1, <3>1 DEF Past
  <2> QED
    BY <1>1, <2>1, <2>2, <2>3, <2>4, <2>5, <2>6, RefreshRests DEF ReplicaInv
<1>4. CASE Age \/ Collect \/ UNCHANGED allVars
  <2>1. /\ AllStand /\ UNCHANGED <<rep, flight>>
        /\ DOMAIN objs' \subseteq DOMAIN objs /\ \A k \in DOMAIN objs' : objs'[k] = objs[k]
    BY <1>4, StandingStep DEF Age, Collect, GcRead, GcList, GcDelete, allVars, readerVars, AllStand
  <2>2. DurableInv' /\ ControlInv' /\ FenceInv'
    BY <1>1, <2>1, StandingCore
  <2>3. manifest' = manifest /\ \A m \in Manifests : Past(m) => Past(m)'
    BY <2>1, PastStands DEF AllStand
  <2> QED
    BY <1>1, <2>1, <2>2, <2>3, RefreshRests DEF ReplicaInv
<1>5. CASE Replica
  <2>1. AllStand /\ objs' = objs
    BY <1>5, StandingStep DEF Replica, ReplicaOpen, Refresh, RefreshStep, FetchSnapshot,
                              FetchSegments, ReplicaClose
  <2>2. DurableInv' /\ ControlInv' /\ FenceInv'
    BY <1>1, <2>1, StandingCore
  <2>3. RefreshInv'
    BY <1>1, <1>5, FetchManifest, SnapshotIsRight, SegmentsAreRight, CloseIsQuiet
       DEF Replica, RefreshStep
  <2> QED
    BY <2>2, <2>3 DEF ReplicaInv
<1> QED
  BY <1>3, <1>4, <1>5 DEF ReadersNext

LEMMA InitReplicaInv == TrustedStore /\ ReadersInit => ReplicaInv
<1> SUFFICES ASSUME TrustedStore, ReadersInit
             PROVE  ReplicaInv
  OBVIOUS
<1>1. DurableInv /\ ControlInv /\ FenceInv
  BY InitDurable, InitFence DEF ReadersInit
<1>2. \A f \in Refresher : flight[f] = NoFlight
  BY DEF ReadersInit
<1>3. ReplicaTyped /\ rep.at = "off"
  BY ReplicaConstants DEF ReadersInit, ReplicaTyped, NoReplica
<1>4. RefreshInv
  BY <1>2, <1>3 DEF RefreshInv, FlightsPast, OneFlight, SnapFetched, RepPast, FlightsAfter,
                    ReplicaServesCommits, NoFlight
<1> QED
  BY <1>1, <1>4 DEF ReplicaInv

LEMMA ReplicaInvariance ==
    ASSUME TrustedStore
    PROVE  ReadersSpec /\ TokenMonotone => []ReplicaInv
<1>1. ReadersInit => ReplicaInv
  BY InitReplicaInv
<1>2. ReplicaInv /\ [ReadersNext]_allVars /\ [TokenKept]_vars => ReplicaInv'
  BY NextReplicaInv
<1>3. TokenMonotone <=> [][TokenKept]_vars
  BY DEF TokenMonotone, TokenKept
<1> QED
  BY <1>1, <1>2, <1>3, PTL DEF ReadersSpec

(* A replica takes no part in anything: it reads one object after another  *)
(* of a bucket that is written, cleaned up and collected meanwhile, by the *)
(* clock or against it.  Still, what it serves is the contents of one      *)
(* manifest that was committed, whole (materialize of replica.ts).         *)
THEOREM ReplicaIsCommitted ==
    ASSUME TrustedStore
    PROVE  ReadersSpec /\ TokenMonotone => []ReplicaServesCommits
<1>1. ReplicaInv => ReplicaServesCommits
  BY DEF ReplicaInv, RefreshInv
<1> QED
  BY <1>1, ReplicaInvariance, PTL

(* And from one refresh to the next it only goes forward, because callers  *)
(* join the refresh under way (refresh of replica.ts) instead of starting  *)
(* one each.                                                               *)
THEOREM ReplicaMovesOn ==
    ASSUME TrustedStore
    PROVE  ReadersSpec /\ TokenMonotone => ReplicaNeverBack
<1>1. ReplicaInv /\ ReplicaInv' /\ [ReadersNext]_allVars =>
         [rep.at = "open" /\ rep'.at = "open" => rep.rows \subseteq rep'.rows
                                                 /\ rep.m.etag <= rep'.m.etag]_allVars
  <2> SUFFICES ASSUME ReplicaInv, ReplicaInv', ReadersNext, rep.at = "open", rep'.at = "open"
               PROVE  rep.rows \subseteq rep'.rows /\ rep.m.etag <= rep'.m.etag
    OBVIOUS
  <2>1. RefreshInv /\ RefreshInv' /\ TypeOK /\ rep.m.etag \in Nat
    BY ManifestFields DEF ReplicaInv, ControlInv, TrashInv, RefreshInv, ReplicaTyped
  <2>2. CASE rep'.rows = rep.rows /\ rep'.m = rep.m
    BY <2>1, <2>2
  <2>3. ASSUME NEW f \in Refresher, FetchSegments(f)
        PROVE  rep.rows \subseteq rep'.rows /\ rep.m.etag <= rep'.m.etag
    <3>1. rep' = rep \/ (rep'.m = flight[f].m /\ flight[f] # NoFlight)
      BY <2>1, <2>3, SegmentsAreRight
    <3>2. rep.rows = Content(rep.m) /\ rep'.rows = Content(rep'.m)
      BY <2>1 DEF RefreshInv, ReplicaServesCommits
    <3>3. CASE rep'.m = flight[f].m /\ flight[f] # NoFlight
      <4>1. rep.m.etag <= flight[f].m.etag /\ Content(rep.m) \subseteq Content(flight[f].m)
        BY <2>1, <3>3 DEF RefreshInv, FlightsAfter
      <4> QED
        BY <3>2, <3>3, <4>1
    <3> QED
      BY <2>2, <3>1, <3>3
  <2>4. \/ \E f \in Refresher : FetchSegments(f)
        \/ rep'.rows = rep.rows /\ rep'.m = rep.m
    BY <2>1 DEF ReadersNext, WriterStep, Age, Collect, GcRead, GcList, GcDelete, Replica, ReplicaOpen,
                Refresh, RefreshStep, FetchSnapshot, ReplicaClose, NoReplica, RefreshInv, ReplicaTyped
  <2> QED
    BY <2>2, <2>3, <2>4
<1> QED
  BY <1>1, ReplicaInvariance, PTL DEF ReadersSpec, ReplicaNeverBack

----------------------------------------------------------------------------
(* The types, of whatever store and collector.                             *)
BucketTyped == TypeOK /\ ReadersTypeOK

(* The variables of the collector and of the replica have the types of     *)
(* ReadersTypeOK, and those of the writers stay in theirs.                 *)
THEOREM ReadersTypeCorrect == ReadersSpec => [](TypeOK /\ ReadersTypeOK)
<1>1. ReadersInit => BucketTyped
  <2> SUFFICES ASSUME ReadersInit
               PROVE  BucketTyped
    OBVIOUS
  <2>1. TypeOK
    BY InitType DEF ReadersInit
  <2>2. ReplicaTyped
    BY ReplicaConstants DEF ReadersInit, ReplicaTyped
  <2>3. young \subseteq DOMAIN objs /\ GcTyped
    BY DEF ReadersInit, GcTyped, NoCollection
  <2> QED
    BY <2>1, <2>2, <2>3 DEF BucketTyped, ReadersTypeOK, ReplicaTyped, GcTyped
<1>2. BucketTyped /\ [ReadersNext]_allVars => BucketTyped'
  <2> SUFFICES ASSUME BucketTyped, [ReadersNext]_allVars
               PROVE  BucketTyped'
    OBVIOUS
  <2>1. /\ TypeOK /\ ReplicaTyped /\ GcTyped /\ young \subseteq DOMAIN objs /\ manifest \in Manifests
        /\ DOMAIN objs \subseteq Keys /\ \A k \in DOMAIN objs : objs[k] \in SUBSET Row
    BY DEF BucketTyped, ReadersTypeOK, ReplicaTyped, GcTyped, TypeOK, StoreTypeOK
  <2>2. CASE WriterStep
    <3>1. TypeOK'
      BY <2>1, <2>2, NextType DEF WriterStep
    <3>2. young' \subseteq DOMAIN objs' /\ UNCHANGED <<gc, rep, flight>>
      BY <2>2 DEF WriterStep
    <3> QED
      BY <2>1, <3>1, <3>2 DEF BucketTyped, ReadersTypeOK, ReplicaTyped, GcTyped
  <2>3. CASE Age \/ UNCHANGED allVars
    <3>1. young' \subseteq young /\ UNCHANGED <<vars, gc, rep, flight>>
      BY <2>3 DEF Age, allVars, readerVars
    <3>2. TypeOK' /\ objs' = objs
      BY <2>1, <3>1, NextType DEF vars, storeVars
    <3> QED
      BY <2>1, <3>1, <3>2 DEF BucketTyped, ReadersTypeOK, ReplicaTyped, GcTyped
  <2>4. CASE Collect
    <3>1. /\ AllStand /\ UNCHANGED <<rep, flight>>
          /\ young' \subseteq DOMAIN objs'
          /\ DOMAIN objs' \subseteq DOMAIN objs /\ \A k \in DOMAIN objs' : objs'[k] = objs[k]
      BY <2>1, <2>4, StandingStep DEF Collect, GcRead, GcList, GcDelete, AllStand
    <3>2. TypeOK'
      BY <2>1, <3>1, StandingType
    <3>3. Refs(manifest) \in SUBSET Keys
      BY <2>1, ManifestFields DEF Refs
    <3>4. GcTyped'
      <4>1. CASE GcRead
        BY <2>1, <3>3, <4>1 DEF GcRead, GcTyped
      <4>2. CASE GcList
        <5>1. {k \in DOMAIN objs \ gc.refs : ~Graced(k)} \in SUBSET Keys
          BY <2>1
        <5> QED
          BY <2>1, <4>2, <5>1 DEF GcList, GcTyped, NoCollection
      <4>3. CASE GcDelete
        <5>1. \A k : gc.todo \ {k} \in SUBSET Keys
          BY <2>1 DEF GcTyped
        <5> QED
          BY <2>1, <4>3, <5>1 DEF GcDelete, GcTyped, NoCollection
      <4> QED
        BY <2>4, <4>1, <4>2, <4>3 DEF Collect
    <3> QED
      <4>1. ReplicaTyped'
        BY <2>1, <3>1 DEF ReplicaTyped
      <4> QED
        BY <3>1, <3>2, <3>4, <4>1 DEF BucketTyped, ReadersTypeOK, ReplicaTyped, GcTyped
  <2>5. CASE Replica
    <3>1. UNCHANGED <<vars, young, gc>>
      BY <2>5 DEF Replica, ReplicaOpen, Refresh, RefreshStep, FetchSnapshot, FetchSegments,
                  ReplicaClose
    <3>2. TypeOK' /\ objs' = objs
      BY <2>1, <3>1, NextType DEF vars, storeVars
    <3>3. ReplicaTyped'
      <4>1. ASSUME NEW f \in Refresher, ReplicaOpen(f) \/ Refresh(f)
            PROVE  ReplicaTyped'
        <5>1. rep' = rep /\ Fly(f, [NoFlight EXCEPT !.at = "snap", !.m = manifest])
          BY <4>1 DEF ReplicaOpen, Refresh
        <5>2. [NoFlight EXCEPT !.at = "snap", !.m = manifest]
                 \in [at : {"idle", "snap", "segs"}, m : Manifests, rows : SUBSET Row]
          BY <2>1 DEF NoFlight
        <5> QED
          BY <2>1, <5>1, <5>2 DEF Fly, ReplicaTyped
      <4>2. ASSUME NEW f \in Refresher, FetchSnapshot(f)
            PROVE  ReplicaTyped'
        <5>1. rep' = [rep EXCEPT !.intact = @ /\ ~SameDir(f)]
          BY <4>2 DEF FetchSnapshot
        <5>2. Fly(f, IF flight[f].m.snap \in DOMAIN objs
                     THEN [flight[f] EXCEPT !.at = "segs", !.rows = objs[flight[f].m.snap]]
                     ELSE NoFlight)
          BY <4>2 DEF FetchSnapshot, Landed
        <5>3. flight[f].m.snap \in DOMAIN objs =>
                 [flight[f] EXCEPT !.at = "segs", !.rows = objs[flight[f].m.snap]]
                    \in [at : {"idle", "snap", "segs"}, m : Manifests, rows : SUBSET Row]
          BY <2>1 DEF ReplicaTyped
        <5>4. flight' \in [Refresher -> [at : {"idle", "snap", "segs"},
                                         m : Manifests, rows : SUBSET Row]]
          BY <2>1, <5>2, <5>3, ReplicaConstants DEF Fly, ReplicaTyped
        <5>5. rep' \in [at : {"off", "open", "closed"}, m : Manifests, rows : SUBSET Row,
                        intact : BOOLEAN]
          <6>1. (rep.intact /\ ~SameDir(f)) \in BOOLEAN
            OBVIOUS
          <6> QED
            BY <2>1, <5>1, <6>1 DEF ReplicaTyped
        <5> QED
          BY <5>4, <5>5 DEF ReplicaTyped
      <4>3. ASSUME NEW f \in Refresher, FetchSegments(f)
            PROVE  ReplicaTyped'
        <5>1. (~SameDir(f)) \in BOOLEAN /\ Replayed(flight[f].m) \in SUBSET Row
          BY <2>1 DEF Replayed
        <5>2. Fly(f, NoFlight)
          BY <4>3 DEF FetchSegments, Landed
        <5>3. flight' \in [Refresher -> [at : {"idle", "snap", "segs"},
                                         m : Manifests, rows : SUBSET Row]]
          BY <2>1, <5>2, ReplicaConstants DEF Fly, ReplicaTyped
        <5>4. flight[f].m \in Manifests /\ flight[f].rows \cup Replayed(flight[f].m) \in SUBSET Row
          BY <2>1, <5>1 DEF ReplicaTyped
        <5>5. rep' \in [at : {"off", "open", "closed"}, m : Manifests, rows : SUBSET Row,
                        intact : BOOLEAN]
          <6>1. \/ rep' = rep
                \/ rep' = [at |-> "open", m |-> flight[f].m, intact |-> ~SameDir(f),
                           rows |-> flight[f].rows \cup Replayed(flight[f].m)]
            BY <4>3 DEF FetchSegments
          <6>2. rep \in [at : {"off", "open", "closed"}, m : Manifests, rows : SUBSET Row,
                         intact : BOOLEAN]
            BY <2>1 DEF ReplicaTyped
          <6>3. [at |-> "open", m |-> flight[f].m, intact |-> ~SameDir(f),
                 rows |-> flight[f].rows \cup Replayed(flight[f].m)]
                   \in [at : {"off", "open", "closed"}, m : Manifests, rows : SUBSET Row,
                        intact : BOOLEAN]
            BY <5>1, <5>4
          <6> QED
            BY <6>1, <6>2, <6>3
        <5> QED
          BY <5>3, <5>5 DEF ReplicaTyped
      <4>4. CASE ReplicaClose
        BY <2>1, <4>4, ReplicaConstants DEF ReplicaClose, NoReplica, ReplicaTyped
      <4> QED
        BY <2>5, <4>1, <4>2, <4>3, <4>4 DEF Replica, RefreshStep
    <3> QED
      BY <2>1, <3>1, <3>2, <3>3 DEF BucketTyped, ReadersTypeOK, ReplicaTyped, GcTyped
  <2> QED
    BY <2>2, <2>3, <2>4, <2>5 DEF ReadersNext
<1>3. BucketTyped <=> TypeOK /\ ReadersTypeOK
  BY DEF BucketTyped
<1> QED
  BY <1>1, <1>2, <1>3, PTL DEF ReadersSpec
=============================================================================
