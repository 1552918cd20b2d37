---------------------------- MODULE ColdArchive ----------------------------
(***************************************************************************)
(* Backups of one bucket in a second, colder store                         *)
(* (src/packages/objectstore-fs/src/archive.ts): runs of backupOnce() take *)
(* the committed point of the primary, put it as one object under a key of *)
(* its own, and append an entry to backups/index.json by CAS; runs of      *)
(* applyRetention() delete what a policy does not keep, then rewrite the   *)
(* index by CAS.  Nothing keeps runs from overlapping, and any of them may *)
(* die anywhere.                                                           *)
(*                                                                         *)
(* Times are days.  A body is the number of the commit it holds.           *)
(***************************************************************************)
EXTENDS Integers, FiniteSets

CONSTANTS
    Archiver,      \* runs of backupOnce()
    Sweeper,       \* runs of applyRetention()
    Policy,        \* the retention policies to choose from; 0 turns a part off
    MinDays,       \* minStorageDurationDays of the cold store
    BucketDays,    \* length of a bucket of gfs
    MaxAttempts,   \* attempts of appendToIndex() (5 in the code)
    Skewed,        \* may a writer's clock be wrong?
    Reseeded,      \* may the primary be created anew, its commitSeq from 0?
    MaxCommits,    \* bound: commits of the primary
    MaxDay         \* bound: days

ASSUME ArchiveAssumption ==
    /\ Policy \subseteq [keepLast : Nat, maxAge : Nat, gfs : Nat]
    /\ MinDays \in Nat
    /\ BucketDays \in Nat \ {0}
    /\ MaxAttempts \in Nat \ {0}
    /\ Skewed \in BOOLEAN
    /\ Reseeded \in BOOLEAN
    /\ MaxCommits \in Nat
    /\ MaxDay \in Nat

VARIABLES
    policy,      \* the retention policy in use
    today,       \* the clock of the archivers
    primary,     \* the committed point: commitSeq, committedAt, number of the commit
    cold,        \* the backup objects: key -> number of the commit
    index,       \* backups/index.json, with its etag
    run,         \* the runs of backupOnce()
    sweep,       \* the runs of applyRetention()
    told,        \* the keys a backupOnce() has returned
    condemned    \* the keys an applyRetention() has deleted

vars == <<policy, today, primary, cold, index, run, sweep, told, condemned>>

(* backupKey(), to the second in the code.                                 *)
Key(e) == [seq |-> e.seq, at |-> e.at]
KeysOf(list) == {Key(e) : e \in list}

NoCommit == [seq |-> 0, at |-> 0, n |-> 0]
NoIndex == [etag |-> 0, list |-> {}]
NoRun == [at |-> "idle", m |-> NoCommit, made |-> 0, idx |-> NoIndex, attempt |-> 0]
NoSweep == [at |-> "idle", idx |-> NoIndex, todo |-> {}, doomed |-> {}]

Init ==
    /\ policy \in Policy
    /\ today = 1
    /\ primary = NoCommit
    /\ cold = [k \in {} |-> 0]
    /\ index = NoIndex
    /\ run = [a \in Archiver |-> NoRun]
    /\ sweep = [s \in Sweeper |-> NoSweep]
    /\ told = {}
    /\ condemned = {}

----------------------------------------------------------------------------
(* The writer of the primary commits; a primary that is created anew       *)
(* counts from 0 again.                                                    *)
Commit ==
    /\ primary.n < MaxCommits
    /\ \E at \in IF Skewed THEN 1 .. MaxDay ELSE {today} :
       \E seq \in {primary.seq + 1} \cup IF Reseeded THEN {0} ELSE {} :
          primary' = [seq |-> seq, at |-> at, n |-> primary.n + 1]
    /\ UNCHANGED <<policy, today, cold, index, run, sweep, told, condemned>>

DayPasses ==
    /\ today < MaxDay
    /\ today' = today + 1
    /\ UNCHANGED <<policy, primary, cold, index, run, sweep, told, condemned>>

----------------------------------------------------------------------------
(* retain()                                                                *)
Later(e, f) == e.at > f.at \/ (e.at = f.at /\ e.seq > f.seq)

LaterOnes(list, e) == {f \in list : Later(f, e)}

Bucket(e) == e.at \div BucketDays

GfsKeep(list, limit) ==
    {e \in list :
        /\ \A f \in list : Bucket(f) = Bucket(e) => ~Later(f, e)
        /\ Cardinality({b \in {Bucket(f) : f \in list} : b > Bucket(e)}) < limit}

(* Wrong: the newest is kept only if the policy says so.                   *)
RetainByPolicy(list, t) ==
    {e \in list :
        \/ Cardinality(LaterOnes(list, e)) < policy.keepLast
        \/ policy.maxAge > 0 /\ e.at >= t - policy.maxAge
        \/ e \in GfsKeep(list, policy.gfs)}

Retain(list, t) ==
    {e \in list :
        \/ LaterOnes(list, e) = {}
        \/ Cardinality(LaterOnes(list, e)) < policy.keepLast
        \/ policy.maxAge > 0 /\ e.at >= t - policy.maxAge
        \/ e \in GfsKeep(list, policy.gfs)}

----------------------------------------------------------------------------
Run(a, r) == run' = [run EXCEPT ![a] = r]

(* Wrong: the entry is recorded before the object is put.                  *)
IndexFirst(a) ==
    /\ run[a] = NoRun
    /\ primary.n > 0
    /\ Run(a, [NoRun EXCEPT !.at = "get", !.m = primary])
    /\ UNCHANGED <<policy, today, primary, cold, index, sweep, told, condemned>>

(* backupOnce(): get the manifest and restore what it names, which may     *)
(* fail (BackupDies); an empty primary is nothing to back up.              *)
BackupStart(a) ==
    /\ run[a] = NoRun
    /\ primary.n > 0
    /\ Run(a, [NoRun EXCEPT !.at = "put", !.m = primary])
    /\ UNCHANGED <<policy, today, primary, cold, index, sweep, told, condemned>>

(* Put the object, if it is absent.                                        *)
BackupPut(a) ==
    /\ run[a].at = "put"
    /\ \/ /\ Key(run[a].m) \notin DOMAIN cold
          /\ cold' = [k \in DOMAIN cold \cup {Key(run[a].m)} |->
                         IF k = Key(run[a].m) THEN run[a].m.n ELSE cold[k]]
          /\ Run(a, [run[a] EXCEPT !.at = "get", !.made = today])
       \/ /\ Key(run[a].m) \in DOMAIN cold
          /\ Run(a, [run[a] EXCEPT !.at = "adopt"])
          /\ UNCHANGED cold
    /\ UNCHANGED <<policy, today, primary, index, sweep, told, condemned>>

Done(a) == Run(a, NoRun) /\ told' = told \cup {Key(run[a].m)}

(* Wrong: an object that is there is taken for recorded.                   *)
AdoptUnseen(a) ==
    /\ run[a].at = "adopt"
    /\ Done(a)
    /\ UNCHANGED <<policy, today, primary, cold, index, sweep, condemned>>

(* adoptExisting(): in the index, it is recorded; else it is the orphan of *)
(* a run that died ...                                                     *)
Adopt(a) ==
    /\ run[a].at = "adopt"
    /\ \/ Key(run[a].m) \in KeysOf(index.list) /\ Done(a)
       \/ /\ Key(run[a].m) \notin KeysOf(index.list)
          /\ Run(a, [run[a] EXCEPT !.at = "head"])
          /\ UNCHANGED told
    /\ UNCHANGED <<policy, today, primary, cold, index, sweep, condemned>>

(* ... if it is still there.                                               *)
AdoptHead(a) ==
    /\ run[a].at = "head"
    /\ Run(a, IF Key(run[a].m) \in DOMAIN cold
              THEN [run[a] EXCEPT !.at = "get", !.made = today] ELSE NoRun)
    /\ UNCHANGED <<policy, today, primary, cold, index, sweep, told, condemned>>

(* appendToIndex(): read the index ...                                     *)
AppendGet(a) ==
    /\ run[a].at = "get"
    /\ \/ Key(run[a].m) \in KeysOf(index.list) /\ Done(a)
       \/ /\ Key(run[a].m) \notin KeysOf(index.list)
          /\ Run(a, [run[a] EXCEPT !.at = "cas", !.idx = index])
          /\ UNCHANGED told
    /\ UNCHANGED <<policy, today, primary, cold, index, sweep, condemned>>

Entry(r) == [seq |-> r.m.seq, at |-> r.m.at, n |-> r.m.n, made |-> r.made]

(* Wrong: the index is written whoever has written it meanwhile.           *)
IndexPutBlind(idx) == TRUE

(* The precondition of a put of the index: none there, or the one read.    *)
IndexUnmoved(idx) == index.etag = idx.etag

(* ... and put it with the entry; on a lost race do both again, then give  *)
(* up and leave the object.                                                *)
AppendCas(a) ==
    /\ run[a].at = "cas"
    /\ \/ /\ IndexUnmoved(run[a].idx)
          /\ index' = [etag |-> index.etag + 1, list |-> run[a].idx.list \cup {Entry(run[a])}]
          /\ Done(a)
       \/ /\ ~IndexUnmoved(run[a].idx)
          /\ Run(a, IF run[a].attempt + 1 < MaxAttempts
                    THEN [run[a] EXCEPT !.at = "get", !.attempt = @ + 1, !.idx = NoIndex]
                    ELSE NoRun)
          /\ UNCHANGED <<index, told>>
    /\ UNCHANGED <<policy, today, primary, cold, sweep, condemned>>

BackupDies(a) ==
    /\ run[a] # NoRun
    /\ Run(a, NoRun)
    /\ UNCHANGED <<policy, today, primary, cold, index, sweep, told, condemned>>

----------------------------------------------------------------------------
Sweep(s, r) == sweep' = [sweep EXCEPT ![s] = r]

(* Too young for the cold store to delete without a fee.                   *)
Blocked(e) == today - e.made < MinDays

(* Wrong: an age is counted in days begun.                                 *)
DoomedEarly(list) == (list \ Retain(list, today + 1)) \ {e \in list : Blocked(e)}

Doomed(list) == (list \ Retain(list, today)) \ {e \in list : Blocked(e)}

(* applyRetention(): what the policy does not keep, and may be deleted.    *)
SweepRead(s) ==
    /\ sweep[s] = NoSweep
    /\ index.etag # 0
    /\ Doomed(index.list) # {}
    /\ Sweep(s, [at |-> "delete", idx |-> index, todo |-> Doomed(index.list),
                 doomed |-> Doomed(index.list)])
    /\ UNCHANGED <<policy, today, primary, cold, index, run, told, condemned>>

(* The objects go first, one after the other ...                           *)
SweepDelete(s) ==
    /\ sweep[s].at = "delete"
    /\ \E e \in sweep[s].todo :
          /\ cold' = [k \in DOMAIN cold \ {Key(e)} |-> cold[k]]
          /\ condemned' = condemned \cup {Key(e)}
          /\ Sweep(s, [sweep[s] EXCEPT !.todo = @ \ {e}])
    /\ UNCHANGED <<policy, today, primary, index, run, told>>

(* ... and then the entries, unless the index has moved: that is an error, *)
(* and the index stays as it is.                                           *)
SweepCas(s) ==
    /\ sweep[s].at = "delete"
    /\ sweep[s].todo = {}
    /\ Sweep(s, NoSweep)
    /\ index' = IF IndexUnmoved(sweep[s].idx)
                THEN [etag |-> index.etag + 1, list |-> sweep[s].idx.list \ sweep[s].doomed]
                ELSE index
    /\ UNCHANGED <<policy, today, primary, cold, run, told, condemned>>

SweepDies(s) ==
    /\ sweep[s] # NoSweep
    /\ Sweep(s, NoSweep)
    /\ UNCHANGED <<policy, today, primary, cold, index, run, told, condemned>>

----------------------------------------------------------------------------
Backup(a) ==
    \/ BackupStart(a) \/ BackupPut(a) \/ Adopt(a) \/ AdoptHead(a)
    \/ AppendGet(a) \/ AppendCas(a) \/ BackupDies(a)

Retention(s) == SweepRead(s) \/ SweepDelete(s) \/ SweepCas(s) \/ SweepDies(s)

Next ==
    \/ Commit
    \/ DayPasses
    \/ \E a \in Archiver : Backup(a)
    \/ \E s \in Sweeper : Retention(s)

Spec == Init /\ [][Next]_vars

----------------------------------------------------------------------------
Commits == [seq : Nat, at : Nat, n : Nat]
Keys == [seq : Nat, at : Nat]
Entries == [seq : Nat, at : Nat, n : Nat, made : Nat]
Indexes == [etag : Nat, list : SUBSET Entries]

TypeOK ==
    /\ policy \in Policy
    /\ today \in Nat
    /\ primary \in Commits
    /\ DOMAIN cold \subseteq Keys
    /\ \A k \in DOMAIN cold : cold[k] \in Nat
    /\ index \in Indexes
    /\ run \in [Archiver -> [at : {"idle", "put", "adopt", "head", "get", "cas"}, m : Commits,
                             made : Nat, idx : Indexes, attempt : Nat]]
    /\ sweep \in [Sweeper -> [at : {"idle", "delete"}, idx : Indexes, todo : SUBSET Entries, doomed : SUBSET Entries]]
    /\ told \subseteq Keys
    /\ condemned \subseteq Keys

(* What restoreFromBackup() takes when it is not told a commitSeq: the last*)
(* of the index, which appendToIndex() sorts by commitSeq.                 *)
Newest(list) == {e \in list : \A f \in list : f.seq <= e.seq}

(* The archive never goes empty, and a restore gets the latest commit it   *)
(* holds: the entry that restoreFromBackup() takes is of the latest commit *)
(* in the index, and its object is there, whatever sweeps and runs overlap *)
(* and die ("the newest backup is ALWAYS kept regardless of policy",       *)
(* retain).                                                                *)
RestoreGetsLatest ==
    \A e \in Newest(index.list) :
        /\ Key(e) \in DOMAIN cold
        /\ cold[Key(e)] = e.n
        /\ \A f \in index.list : f.n <= e.n

(* A backup that has been reported is in the index, until a retention has  *)
(* deleted it: neither two runs appending at once nor a sweep rewriting    *)
(* the index loses an entry, and the orphan of a dead run is recorded when *)
(* the run is repeated.                                                    *)
ToldIsKept == told \subseteq KeysOf(index.list) \cup condemned

(* An entry without its object is one a retention deleted and could not    *)
(* take out of the index, for it died or the index had moved.              *)
DanglingIsCondemned ==
    \A k \in KeysOf(index.list) : k \in DOMAIN cold \/ k \in condemned

(* What a sweep deletes, its policy would not keep by now.                 *)
DeletesWhatIsDue ==
    \A s \in Sweeper :
        SweepDelete(s) =>
            \A e \in sweep[s].todo \ sweep'[s].todo :
                e \notin Retain(index.list, today) /\ ~Blocked(e)

(* A sweep deletes nothing its policy would keep, given the index as it is *)
(* by now and not as it was when the sweep began, nor anything too young.  *)
SweepSpares == [][DeletesWhatIsDue]_vars

(* Every object is in the index, or on its way there: a snapshot whose run *)
(* lost the index race "is either adopted or GC'd as an orphan"            *)
(* (docs/D-COLD-BACKUP.md).                                                *)
OrphanOnItsWay ==
    \A k \in DOMAIN cold :
        \/ k \in KeysOf(index.list)
        \/ k = Key(primary)
        \/ \E a \in Archiver : run[a].at \in {"get", "cas", "head", "adopt"} /\ Key(run[a].m) = k
=============================================================================
