---------------------------- MODULE LeaderProofs ----------------------------
(***************************************************************************)
(* Theorems about the lock file of a local data directory and about who    *)
(* opens the engine on it, for any number of callers and of processes.     *)
(*                                                                         *)
(* What a caller does to the lock is a step of DatadirLock, whoever calls, *)
(* so the lock is proved first and on its own (LockNext), and what is      *)
(* proved of it holds of every step of LocalLeader.  Throughout, nobody    *)
(* pauses beyond PENDING_MS or CLAIM_STALE_MS between two of his steps:    *)
(* the code takes such a caller for a dead one.                            *)
(***************************************************************************)
EXTENDS LocalLeader, TLAPS

Prompt == "stall" \notin Faults

(* The file is, or should be, that of a caller at one of these stages.     *)
Owner(c) == Live(c) /\ lk[c] \in {"token", "held", "rewrite", "release", "unlinkown"}

(* No name, no file; a file that grew old has no record, and nobody is     *)
(* about to write one; whoever has written his record and has still the    *)
(* file has a full one; whoever let go has not.                            *)
FileSound ==
    /\ lockFile.by = None => lockFile = NoFile
    /\ lockFile.old => ~lockFile.full /\ \A c \in Caller : lockFile.by = c => ~Writing(c)
    /\ \A c \in Caller : lockFile.by = c =>
          /\ Live(c) /\ lk[c] \in {"held", "release", "unlinkown"} => lockFile.full
          /\ lk[c] # "done"

(* The file is that of its owner, the mutex that of the caller inside it,  *)
(* and what this caller is about to unlink is still that of nobody.        *)
Exclusive ==
    /\ \A c \in Caller : Owner(c) => lockFile.by = c
    /\ \A c \in Caller : Live(c) /\ Claiming(c) => claim.by = c
    /\ \A c \in Caller : At(c, "unlink") => View = "reclaimable"

LockInv ==
    /\ LockTypeOK
    /\ FileSound
    /\ Unguarded \/ Exclusive

(* If nobody dies inside the mutex, whoever made it is still inside.       *)
MutexHeld ==
    /\ ~swept
    /\ ~claim.old
    /\ claim.by = None => claim = NoClaim
    /\ \A c \in Caller :
          /\ claim.by = c => Live(c) /\ Claiming(c)
          /\ lk[c] \notin {"unclaim", "stuck"}

----------------------------------------------------------------------------
(* An engine is open only in a caller that has the lock, as far as he      *)
(* knows.                                                                  *)
EngineHeld ==
    \A c \in engine :
        /\ Live(c)
        /\ lk[c] \in {"held", "rewrite", "stuck"}
        /\ role[c] \in {"publish", "open", "stop", "failed"}

(* What is pinned has been opened by a connectFile() of the process.       *)
PinHeld ==
    \A p \in Process, c \in Caller : pin[p] = c =>
        c \in engine /\ Home[c] = p /\ c \notin elect /\ role[c] = "open"

(* A leader that is closing has the lock or has let it go.                 *)
RolesHold ==
    \A c \in Caller :
        /\ role[c] \in {"open", "stop"} => lk[c] = "held"
        /\ role[c] = "release" => lk[c] \in {"release", "unlinkown", "done"}
        /\ c \in elect => c \in Resolver

OneLeaderEach == \A c, d \in Resolver : Home[c] = Home[d] => c = d

(* The record names none of the leaders of p that were asked to close.     *)
RecordGone(p) ==
    \A c \in elect : Home[c] = p /\ role[c] \in {"stop", "release"} => lockFile.by # c

ExitSound ==
    \A p \in Process :
        /\ exit[p] \in {"clean", "early"} => ~alive[p]
        /\ exit[p] = "clean" => RecordGone(p) \/ (Unguarded /\ ~OneLeaderEach)
        /\ alive[p] /\ Exiting(p) => RecordGone(p) \/ (Unguarded /\ ~OneLeaderEach)

LeaderInv == TypeOK /\ LockInv /\ EngineHeld /\ PinHeld /\ RolesHold /\ ExitSound

----------------------------------------------------------------------------
(* Records of the file and of the mutex, and what changing a field makes   *)
(* of them.                                                                *)
LEMMA Fields ==
    ASSUME LockTypeOK
    PROVE  /\ lockFile.by \in Caller \cup {None}
           /\ lockFile.full \in BOOLEAN /\ lockFile.old \in BOOLEAN
           /\ claim.by \in Caller \cup {None} /\ claim.old \in BOOLEAN
           /\ NoFile.by = None /\ ~NoFile.full /\ ~NoFile.old
           /\ NoClaim.by = None /\ ~NoClaim.old
           /\ None \notin Caller /\ Home \in [Caller -> Process]
  BY LockAssumption DEF LockTypeOK, NoFile, NoClaim

(* The type invariant of the lock is inductive.                            *)
LEMMA LockTypeStep ==
    ASSUME LockTypeOK, LockNext
    PROVE  LockTypeOK'
<1>1. \A c \in Caller : \A l \in Stages : Move(c, l) => lk' \in [Caller -> Stages]
  BY DEF LockTypeOK, Move
<1>2. NoFile \in [by : Caller \cup {None}, full : BOOLEAN, port : BOOLEAN, old : BOOLEAN]
      /\ NoClaim \in [by : Caller \cup {None}, old : BOOLEAN]
  BY DEF NoFile, NoClaim
<1>3. ASSUME NEW c \in Caller, Begin(c) \/ Inspect(c) \/ StatClaim(c) \/ Recheck(c) \/ Release(c) \/ ReleaseLook(c)
      PROVE  LockTypeOK'
  BY <1>1, <1>3 DEF LockTypeOK, Begin, Inspect, StatClaim, Recheck, Release, ReleaseLook, Again, Stages
<1>4. ASSUME NEW c \in Caller, Create(c) \/ WriteToken(c) \/ Unlink(c) \/ Truncate(c) \/ Rewrite(c) \/ ReleaseUnlink(c)
      PROVE  LockTypeOK'
  <2>1. /\ \E l \in Stages : Move(c, l)
        /\ UNCHANGED <<claim, alive, swept>>
    BY <1>4 DEF Create, WriteToken, Unlink, Truncate, Rewrite, ReleaseUnlink, Stages
  <2>2. \/ lockFile' \in {NoFile, lockFile, [NoFile EXCEPT !.by = c]}
        \/ lockFile' = [lockFile EXCEPT !.full = TRUE, !.old = FALSE]
        \/ lockFile' = [lockFile EXCEPT !.full = TRUE, !.port = TRUE, !.old = FALSE]
    BY <1>4 DEF Create, WriteToken, Unlink, Truncate, Rewrite, ReleaseUnlink
  <2>3. lockFile' \in [by : Caller \cup {None}, full : BOOLEAN, port : BOOLEAN, old : BOOLEAN]
    BY <1>2, <2>2 DEF LockTypeOK
  <2> QED
    BY <1>1, <2>1, <2>3 DEF LockTypeOK
<1>5. ASSUME NEW c \in Caller, Claim(c) \/ Unclaim(c) \/ RemoveClaim(c)
      PROVE  LockTypeOK'
  <2>1. /\ \E l \in Stages : Move(c, l)
        /\ UNCHANGED <<lockFile, alive>>
    BY <1>5 DEF Claim, Unclaim, RemoveClaim, Again, Stages
  <2>2. /\ claim' \in {NoClaim, claim, [NoClaim EXCEPT !.by = c]}
        /\ swept' \in BOOLEAN
    BY <1>5 DEF Claim, Unclaim, RemoveClaim, RemoveMutex, LockTypeOK
  <2> QED
    BY <1>1, <1>2, <2>1, <2>2 DEF LockTypeOK
<1>6. ASSUME NEW p \in Process, Crash(p)
      PROVE  LockTypeOK'
  BY <1>6 DEF LockTypeOK, Crash
<1>7. ASSUME TimePasses
      PROVE  LockTypeOK'
  BY <1>7 DEF LockTypeOK, TimePasses, FileAges, ClaimAges
<1> QED
  BY <1>3, <1>4, <1>5, <1>6, <1>7 DEF LockNext, AcquireStep, ReleaseStep


(* inspect() in terms of the fields.                                       *)
LEMMA ViewMeans ==
    ASSUME LockTypeOK, lockFile.by = None => lockFile = NoFile
    PROVE  /\ View = "reclaimable" <=>
                 /\ lockFile.by # None
                 /\ \/ lockFile.full /\ ~Live(lockFile.by)
                    \/ ~lockFile.full /\ lockFile.old
           /\ View = "live" <=> lockFile.by # None /\ lockFile.full /\ Live(lockFile.by)
  BY Fields DEF View

(* Once the lock is unguarded it stays so: the mutex that was swept and    *)
(* the holder that is stuck do not come back.                              *)
LEMMA UnguardedStays ==
    ASSUME LockTypeOK, LockNext, Unguarded
    PROVE  Unguarded'
<1>1. ASSUME swept
      PROVE  swept'
  BY <1>1 DEF LockNext, Begin, AcquireStep, ReleaseStep, Create, WriteToken, Inspect, Claim, StatClaim, Unclaim,
     Recheck, Unlink, RemoveClaim, Truncate, Rewrite, Release, ReleaseLook, ReleaseUnlink, Crash, TimePasses,
     FileAges, ClaimAges, RemoveMutex
<1>2. ASSUME NEW d \in Caller, lk[d] = "stuck"
      PROVE  lk'[d] = "stuck"
  <2>1. ASSUME NEW c \in Caller, NEW l, Move(c, l), lk[c] # "stuck"
        PROVE  lk'[d] = "stuck"
    BY <1>2, <2>1 DEF Move, LockTypeOK
  <2> QED
    BY <1>2, <2>1 DEF LockNext, Begin, AcquireStep, ReleaseStep, Create, WriteToken, Inspect, Claim, StatClaim, Unclaim,
     Recheck, Unlink, RemoveClaim, Truncate, Rewrite, Release, ReleaseLook, ReleaseUnlink, Crash, TimePasses,
     FileAges, ClaimAges, Again, At
<1> QED
  BY <1>1, <1>2 DEF Unguarded

(* What is known of the file survives every operation.                     *)
LEMMA FileStep ==
    ASSUME Prompt, LockInv, LockNext
    PROVE  FileSound'
<1> USE DEF LockInv
<1>1. LockTypeOK' /\ LockTypeOK
  BY LockTypeStep
<1>2. ASSUME NEW c \in Caller, Begin(c) \/ Inspect(c) \/ StatClaim(c) \/ Recheck(c) \/ Claim(c) \/ Unclaim(c) \/ RemoveClaim(c) \/ Release(c)
      PROVE  FileSound'
  <2>1. lockFile' = lockFile /\ alive' = alive
    BY <1>2 DEF Begin, Inspect, StatClaim, Recheck, Claim, Unclaim, RemoveClaim, Release
  <2>2. PICK l \in Stages : Move(c, l) /\ (l = "release" => lk[c] = "held") /\ l \notin {"token", "rewrite", "held", "unlinkown", "done"}
    BY <1>2 DEF Begin, Inspect, StatClaim, Recheck, Claim, Unclaim, RemoveClaim, Release, At, Again, Stages
  <2>3. \A d \in Caller : lk'[d] = (IF d = c THEN l ELSE lk[d])
    BY <2>2 DEF Move, LockTypeOK
  <2> QED
    BY <2>1, <2>2, <2>3 DEF FileSound, Writing, Live
<1>3. ASSUME NEW c \in Caller, Create(c)
      PROVE  FileSound'
  BY <1>1, <1>3, Fields DEF FileSound, Create, Move, At, LockTypeOK, NoFile, Writing, Live
<1>4. ASSUME NEW c \in Caller, WriteToken(c)
      PROVE  FileSound'
  <2>1. /\ lk[c] = "token" /\ alive' = alive
        /\ \/ /\ lockFile' = IF lockFile.by = c THEN [lockFile EXCEPT !.full = TRUE, !.old = FALSE] ELSE lockFile
              /\ Move(c, "held")
           \/ Move(c, "gaveup") /\ lockFile' = lockFile
    BY <1>4 DEF WriteToken, At
  <2>2. PICK l \in {"held", "gaveup"} : Move(c, l) /\ (l = "held" /\ lockFile.by = c => lockFile'.full)
    BY <1>1, <2>1 DEF LockTypeOK
  <2>3. \A d \in Caller : lk'[d] = (IF d = c THEN l ELSE lk[d])
    BY <1>1, <2>2 DEF Move, LockTypeOK
  <2>4. /\ lockFile'.by = lockFile.by
        /\ lockFile' = lockFile \/ (lockFile.by = c /\ lockFile'.full /\ ~lockFile'.old)
    BY <1>1, <2>1 DEF LockTypeOK
  <2>5. lockFile'.by = None => lockFile' = NoFile
    BY <1>1, <2>4, Fields DEF FileSound
  <2>6. lockFile'.old => ~lockFile'.full /\ \A d \in Caller : lockFile'.by = d => ~Writing(d)'
    <3>1. \A d \in Caller : Writing(d)' => Writing(d)
      BY <2>1, <2>2, <2>3 DEF Writing, Live
    <3>2. lockFile.old => ~lockFile.full /\ \A d \in Caller : lockFile.by = d => ~Writing(d)
      BY DEF FileSound
    <3> QED BY <2>4, <3>1, <3>2
  <2>7. \A d \in Caller : lockFile'.by = d =>
          /\ Live(d)' /\ lk'[d] \in {"held", "release", "unlinkown"} => lockFile'.full
          /\ lk'[d] # "done"
    BY <2>1, <2>2, <2>3, <2>4 DEF FileSound, Live
  <2> QED BY <2>5, <2>6, <2>7 DEF FileSound
<1>5. ASSUME NEW c \in Caller, Unlink(c) \/ ReleaseUnlink(c)
      PROVE  FileSound'
  BY <1>1, <1>5, Fields DEF FileSound, Unlink, ReleaseUnlink
<1>6. ASSUME NEW c \in Caller, Truncate(c)
      PROVE  FileSound'
  BY <1>1, <1>6, Fields DEF FileSound, Truncate, Move, At, LockTypeOK, NoFile, Writing, Live
<1>7. ASSUME NEW c \in Caller, Rewrite(c)
      PROVE  FileSound'
  <2>1. CASE lockFile' = lockFile /\ Move(c, "stuck")
    BY <1>7, <2>1, Fields DEF FileSound, Rewrite, Move, At, LockTypeOK, Writing, Live
  <2>2. CASE lockFile.by # c /\ lockFile' = lockFile /\ Move(c, "held")
    BY <1>7, <2>2, Fields DEF FileSound, Rewrite, Move, At, LockTypeOK, Writing, Live
  <2>3. CASE /\ lockFile.by = c /\ Move(c, "held")
             /\ lockFile' = [lockFile EXCEPT !.full = TRUE, !.port = TRUE, !.old = FALSE]
    <3>1. lockFile'.by = c /\ lockFile'.full /\ ~lockFile'.old
      BY <2>3, Fields DEF LockTypeOK
    <3> QED
      BY <1>7, <2>3, <3>1, Fields DEF FileSound, Rewrite, Move, At, LockTypeOK
  <2> QED
    BY <1>7, <2>1, <2>2, <2>3 DEF Rewrite
<1>8. ASSUME NEW c \in Caller, ReleaseLook(c)
      PROVE  FileSound'
  <2>1. lockFile.by = c => View = "live"
    BY <1>8, ViewMeans, Fields DEF FileSound, ReleaseLook, At
  <2> QED
    BY <1>1, <1>8, <2>1, Fields DEF FileSound, ReleaseLook, Move, At, LockTypeOK, Writing, Live
<1>9. ASSUME NEW p \in Process, Crash(p)
      PROVE  FileSound'
  BY <1>1, <1>9, Fields DEF FileSound, Crash, Writing, Live, LockTypeOK
<1>10. ASSUME TimePasses
      PROVE  FileSound'
  BY <1>1, <1>10, Fields DEF FileSound, TimePasses, FileAges, ClaimAges, Writing, Live, LockTypeOK, Prompt
<1> QED
  BY <1>2, <1>3, <1>4, <1>5, <1>6, <1>7, <1>8, <1>9, <1>10 DEF LockNext, AcquireStep, ReleaseStep

(* Every operation keeps the file with its owner and the mutex with the    *)
(* caller inside it, or leaves the lock unguarded.                         *)
LEMMA ExclusiveStep ==
    ASSUME Prompt, LockInv, LockNext, ~Unguarded'
    PROVE  Exclusive'
<1> USE DEF LockInv
<1>1. LockTypeOK' /\ LockTypeOK /\ FileSound' /\ FileSound /\ Exclusive /\ ~Unguarded
  BY LockTypeStep, FileStep, UnguardedStays
<1>a. /\ View = "reclaimable" <=>
            /\ lockFile.by # None
            /\ \/ lockFile.full /\ ~Live(lockFile.by)
               \/ ~lockFile.full /\ lockFile.old
      /\ View' = "reclaimable" <=>
            /\ lockFile'.by # None
            /\ \/ lockFile'.full /\ ~Live(lockFile.by)'
               \/ ~lockFile'.full /\ lockFile'.old
      /\ View = "live" <=> lockFile.by # None /\ lockFile.full /\ Live(lockFile.by)
  <2>1. /\ View' = "reclaimable" <=>
            /\ lockFile'.by # None
            /\ \/ lockFile'.full /\ ~Live(lockFile.by)'
               \/ ~lockFile'.full /\ lockFile'.old
    BY <1>1, Fields DEF FileSound, View, Live
  <2> QED
    BY <1>1, <2>1, ViewMeans DEF FileSound
<1>2. ASSUME NEW c \in Caller, Begin(c) \/ Inspect(c) \/ StatClaim(c) \/ Release(c)
      PROVE  Exclusive'
  <2>1. UNCHANGED <<lockFile, claim, alive>> /\ View' = View
    BY <1>2 DEF Begin, Inspect, StatClaim, Release, View, Live
  <2>2. PICK l \in Stages : Move(c, l) /\ (l = "release" => lk[c] = "held") /\ Live(c)
                         /\ l \notin {"token", "rewrite", "held", "unlinkown", "recheck", "unlink", "rmclaim"}
    BY <1>2 DEF Begin, Inspect, StatClaim, Release, At, Again, Stages
  <2>3. \A d \in Caller : lk'[d] = (IF d = c THEN l ELSE lk[d])
    BY <2>2 DEF Move, LockTypeOK
  <2> QED
    BY <1>1, <2>1, <2>2, <2>3 DEF Exclusive, Owner, Claiming, At, Live
<1>3. ASSUME NEW c \in Caller, Create(c)
      PROVE  Exclusive'
  BY <1>1, <1>a, <1>3, Fields DEF Exclusive, Create, Move, At, LockTypeOK, NoFile, Owner, Claiming, Live
<1>4. ASSUME NEW c \in Caller, WriteToken(c) \/ Rewrite(c)
      PROVE  Exclusive'
  <2>1. /\ lockFile.by = c /\ Owner(c) /\ Writing(c)
        /\ UNCHANGED <<claim, alive, swept>>
    BY <1>1, <1>4 DEF WriteToken, Rewrite, Exclusive, Owner, At, Writing, Live
  <2>2. /\ lockFile'.by = c
        /\ \E l \in {"held", "gaveup", "stuck"} : Move(c, l)
    BY <1>4, <2>1, Fields DEF WriteToken, Rewrite, LockTypeOK
  <2>3. \A d \in Caller : Owner(d)' => d = c
    BY <1>1, <2>1, <2>2 DEF Exclusive, Owner, Move, LockTypeOK, Live
  <2>4. \A d \in Caller : ~At(d, "unlink")
    BY <1>1, <1>a, <2>1 DEF Exclusive, FileSound, Writing, Live
  <2> QED
    BY <1>1, <2>1, <2>2, <2>3, <2>4 DEF Exclusive, Claiming, At, Move, LockTypeOK, Live
<1>5. ASSUME NEW c \in Caller, Claim(c)
      PROVE  Exclusive'
  BY <1>1, <1>a, <1>5, Fields DEF Exclusive, Claim, Move, At, LockTypeOK, NoClaim, Owner, Claiming, Live
<1>6. ASSUME NEW c \in Caller, Unclaim(c) \/ RemoveClaim(c)
      PROVE  Exclusive'
  <2>1. \A d \in Caller : d # c => ~(Claiming(d) /\ Live(d))
    BY <1>1, <1>6 DEF Unclaim, RemoveClaim, RemoveMutex, Unguarded, Exclusive
  <2> QED
    BY <1>1, <1>a, <1>6, <2>1, Fields DEF Exclusive, Unclaim, RemoveClaim, Again, Move, At, LockTypeOK, Owner, Claiming, Live
<1>7. ASSUME NEW c \in Caller, Recheck(c)
      PROVE  Exclusive'
  BY <1>1, <1>a, <1>7, Fields DEF Exclusive, Recheck, Move, At, LockTypeOK, Owner, Claiming, Live
<1>8. ASSUME NEW c \in Caller, Unlink(c)
      PROVE  Exclusive'
  <2>1. \A d \in Caller : ~Owner(d)
    BY <1>1, <1>a, <1>8 DEF Unlink, Exclusive, FileSound, Owner, At, Writing, Live
  <2>2. \A d \in Caller : At(d, "unlink") => d = c
    BY <1>1, <1>8 DEF Unlink, Exclusive, At, Claiming
  <2> QED
    BY <1>1, <1>8, <2>1, <2>2, Fields DEF Exclusive, Unlink, Move, At, LockTypeOK, Owner, Claiming, Live
<1>9. ASSUME NEW c \in Caller, Truncate(c)
      PROVE  Exclusive'
  BY <1>1, <1>a, <1>9, Fields DEF Exclusive, FileSound, Truncate, Move, At, LockTypeOK, NoFile, Owner, Claiming, Live
<1>10. ASSUME NEW c \in Caller, ReleaseLook(c)
      PROVE  Exclusive'
  BY <1>1, <1>a, <1>10, Fields DEF Exclusive, ReleaseLook, Move, At, LockTypeOK, Owner, Claiming, Live
<1>11. ASSUME NEW c \in Caller, ReleaseUnlink(c)
      PROVE  Exclusive'
  BY <1>1, <1>a, <1>11, Fields DEF Exclusive, FileSound, ReleaseUnlink, Move, At, LockTypeOK, Owner, Claiming, Live
<1>12. ASSUME NEW p \in Process, Crash(p)
      PROVE  Exclusive'
  BY <1>1, <1>a, <1>12, Fields DEF Exclusive, FileSound, Crash, At, LockTypeOK, Owner, Claiming, Live
<1>13. ASSUME TimePasses
      PROVE  Exclusive'
  BY <1>1, <1>a, <1>13, Fields DEF Exclusive, FileSound, TimePasses, FileAges, ClaimAges, At, LockTypeOK, Owner, Claiming, Live
<1> QED
  BY <1>2, <1>3, <1>4, <1>5, <1>6, <1>7, <1>8, <1>9, <1>10, <1>11, <1>12, <1>13 DEF LockNext, AcquireStep, ReleaseStep

LEMMA LockInvStep ==
    ASSUME Prompt, LockInv, [LockNext]_lockVars
    PROVE  LockInv'
<1>1. CASE LockNext
  BY <1>1, LockTypeStep, FileStep, ExclusiveStep DEF LockInv
<1>2. CASE UNCHANGED lockVars
  BY <1>2 DEF LockInv, lockVars, LockTypeOK, FileSound, Unguarded, Exclusive, Owner, Live, Claiming, Writing, At, View
<1> QED
  BY <1>1, <1>2

LEMMA LockInvInit ==
    ASSUME LockInit
    PROVE  LockInv
  BY LockAssumption, Fields DEF LockInit, LockInv, LockTypeOK, FileSound, Unguarded, Exclusive, Owner, Live, Claiming,
     Writing, At, Stages, NoFile, NoClaim

(* Whoever holds the lock has the file.                                    *)
LEMMA HoldersHaveFile ==
    ASSUME LockInv, ~Unguarded, NEW c \in Caller, Holds(c)
    PROVE  lockFile.by = c
  BY DEF LockInv, Unguarded, Exclusive, Owner, Holds

(* At most one live caller holds the lock, whatever callers race to create *)
(* it, to reclaim it from a dead holder and to release it, and whoever     *)
(* dies at any step of it, unless a mutex was removed under the feet of    *)
(* the caller inside it or a holder could not rewrite its record           *)
(* (acquireDatadirLock(), tryReclaim() and release() of lockfile.ts).      *)
THEOREM LockOwners ==
    ASSUME Prompt
    PROVE  LockSpec => []OwnersExplained
<1>1. LockInit => LockInv
  BY LockInvInit
<1>2. LockInv /\ [LockNext]_lockVars => LockInv'
  BY LockInvStep
<1>3. LockInv => OwnersExplained
  BY HoldersHaveFile DEF OwnersExplained, OneOwner
<1> QED
  BY <1>1, <1>2, <1>3, PTL DEF LockSpec

(* If nobody dies inside the mutex, nobody finds one that has grown old.   *)
LEMMA MutexStep ==
    ASSUME Faults \cap {"stall", "claim", "rewrite"} = {}, LockInv, MutexHeld, [LockNext]_lockVars
    PROVE  MutexHeld'
<1> USE DEF LockInv
<1>1. LockTypeOK /\ Exclusive /\ "stall" \notin Faults /\ "claim" \notin Faults /\ "rewrite" \notin Faults
  BY DEF MutexHeld, Unguarded
<1>2. ASSUME NEW c \in Caller, Begin(c) \/ Create(c) \/ WriteToken(c) \/ Inspect(c) \/ StatClaim(c) \/ Recheck(c)
                    \/ Unlink(c) \/ Truncate(c) \/ Rewrite(c) \/ Release(c) \/ ReleaseLook(c) \/ ReleaseUnlink(c)
      PROVE  MutexHeld'
  <2>1. UNCHANGED <<claim, alive, swept>>
    BY <1>2 DEF Begin, Create, WriteToken, Inspect, StatClaim, Recheck, Unlink, Truncate, Rewrite, Release,
       ReleaseLook, ReleaseUnlink
  <2>2. PICK l \in Stages : /\ Move(c, l)
                            /\ Claiming(c) => l \in {"unlink", "rmclaim"}
                            /\ l \notin {"unclaim", "stuck"}
    BY <1>1, <1>2 DEF Begin, Create, WriteToken, Inspect, StatClaim, Recheck, Unlink, Truncate, Rewrite, Release,
       ReleaseLook, ReleaseUnlink, At, Again, Stages, Claiming, MutexHeld
  <2> QED
    BY <1>1, <2>1, <2>2 DEF MutexHeld, Claiming, Move, LockTypeOK, Live
<1>3. ASSUME NEW c \in Caller, Claim(c)
      PROVE  MutexHeld'
  BY <1>1, <1>3, Fields DEF MutexHeld, Claim, Claiming, At, Move, LockTypeOK, NoClaim, Live
<1>4. ASSUME NEW c \in Caller, Unclaim(c) \/ RemoveClaim(c)
      PROVE  MutexHeld'
  <2>1. RemoveClaim(c) /\ claim.by = c
    BY <1>1, <1>4 DEF MutexHeld, Unclaim, RemoveClaim, Exclusive, At, Claiming
  <2>2. ~swept' /\ claim' = NoClaim /\ alive' = alive
    BY <2>1, Fields DEF MutexHeld, RemoveClaim, RemoveMutex
  <2>3. \E l \in {"create", "gaveup"} : Move(c, l)
    BY <2>1 DEF RemoveClaim, Again
  <2> QED
    BY <1>1, <2>2, <2>3, Fields DEF MutexHeld, Move, LockTypeOK
<1>5. ASSUME NEW p \in Process, Crash(p)
      PROVE  MutexHeld'
  BY <1>1, <1>5 DEF MutexHeld, Crash, Claiming, LockTypeOK, Live
<1>6. ASSUME TimePasses
      PROVE  MutexHeld'
  BY <1>1, <1>6, Fields DEF MutexHeld, TimePasses, FileAges, ClaimAges, Claiming, LockTypeOK, Live
<1>7. CASE UNCHANGED lockVars
  BY <1>7 DEF MutexHeld, lockVars, Claiming, Live
<1> QED
  BY <1>2, <1>3, <1>4, <1>5, <1>6, <1>7 DEF LockNext, AcquireStep, ReleaseStep

(* The two excuses are the only ones: if nobody dies inside the mutex and  *)
(* no write of the port fails, at most one live caller holds the lock.     *)
THEOREM LockIsExclusive ==
    ASSUME Faults \cap {"stall", "claim", "rewrite"} = {}
    PROVE  LockSpec => []OneOwner
<1> Prompt
  BY DEF Prompt
<1>1. LockInit => LockInv /\ MutexHeld
  BY LockInvInit, Fields DEF LockInit, LockInv, MutexHeld
<1>2. LockInv /\ MutexHeld /\ [LockNext]_lockVars => (LockInv /\ MutexHeld)'
  BY LockInvStep, MutexStep
<1>3. LockInv /\ MutexHeld => OneOwner
  BY HoldersHaveFile DEF OneOwner, MutexHeld, Unguarded
<1> QED
  BY <1>1, <1>2, <1>3, PTL DEF LockSpec

----------------------------------------------------------------------------
(* What a caller does moves nobody else, kills nobody and asks nobody to   *)
(* exit.                                                                   *)
LEMMA CallerMoves ==
    ASSUME TypeOK, NEW c \in Caller, CallerStep(c)
    PROVE  /\ \A d \in Caller : d # c => lk'[d] = lk[d] /\ role'[d] = role[d]
           /\ alive' = alive /\ exit' = exit
           /\ \A d \in Caller : d # c => (d \in elect <=> d \in elect')
           /\ role[c] # "new" => elect' = elect
           /\ Live(c) /\ ~Exiting(Home[c])
<1>1. ASSUME NEW l, Move(c, l)
      PROVE  \A d \in Caller : d # c => lk'[d] = lk[d]
  BY <1>1 DEF Move, TypeOK, LockTypeOK
<1>2. ASSUME NEW r, Become(c, r)
      PROVE  \A d \in Caller : d # c => role'[d] = role[d]
  BY <1>2 DEF Become, TypeOK
<1>3. CASE Resolve(c) \/ Reuse(c) \/ Connect(c)
  BY <1>1, <1>2, <1>3 DEF Resolve, Reuse, Connect, Begin, lockVars, Is
<1>4. CASE Electing(c)
  BY <1>1, <1>2, <1>4 DEF Electing, Follow, Tire, Stand, Lose, Begin, lockVars, Is
<1>5. CASE Acquiring(c)
  BY <1>1, <1>5 DEF Acquiring, localVars, Is, AcquireStep, Create, WriteToken, Inspect, Claim, StatClaim, Unclaim,
     Recheck, Unlink, RemoveClaim, Again
<1>6. CASE Opening(c)
  BY <1>1, <1>2, <1>6 DEF Opening, Open, OpenFails, Publish, Truncate, Rewrite, Release, lockVars, Is
<1>7. CASE Close(c) \/ Closing(c)
  BY <1>1, <1>2, <1>7 DEF Close, Closing, Shut, Releasing, Release, ReleaseStep, ReleaseLook, ReleaseUnlink,
     lockVars, localVars, Is
<1> QED
  BY <1>3, <1>4, <1>5, <1>6, <1>7 DEF CallerStep

(* Whatever happens is a step of the lock, or leaves it alone.             *)
LEMMA LeaderMovesLock ==
    ASSUME Next
    PROVE  [LockNext]_lockVars
<1>1. ASSUME NEW c \in Caller, CallerStep(c)
      PROVE  [LockNext]_lockVars
  <2>1. CASE Resolve(c) \/ Reuse(c) \/ Connect(c) \/ Electing(c)
    BY <2>1 DEF Resolve, Reuse, Connect, Electing, Follow, Tire, Stand, Lose, LockNext
  <2>2. CASE Acquiring(c)
    BY <2>2 DEF Acquiring, LockNext
  <2>3. CASE Opening(c)
    BY <2>3 DEF Opening, Open, OpenFails, Publish, LockNext
  <2>4. CASE Close(c) \/ Closing(c)
    BY <2>4 DEF Close, Closing, Shut, Releasing, LockNext
  <2> QED
    BY <1>1, <2>1, <2>2, <2>3, <2>4 DEF CallerStep
<1>2. ASSUME NEW p \in Process, ProcessStep(p)
      PROVE  [LockNext]_lockVars
  BY <1>2 DEF ProcessStep, Killed, Signal, SignalTooLate, Quit, Dies, LockNext
<1>3. CASE Ages
  BY <1>3 DEF Ages, LockNext
<1> QED
  BY <1>1, <1>2, <1>3 DEF Next

(* The type invariant is inductive.                                        *)
LEMMA LeaderTypeStep ==
    ASSUME TypeOK, Next
    PROVE  TypeOK'
<1>1. LockTypeOK'
  BY LockTypeStep, LeaderMovesLock DEF TypeOK, lockVars, LockTypeOK
<1>2. ASSUME NEW c \in Caller, CallerStep(c)
      PROVE  TypeOK'
  <2>1. CASE Resolve(c) \/ Reuse(c) \/ Connect(c) \/ Electing(c)
    BY <1>1, <2>1 DEF TypeOK, Resolve, Reuse, Connect, Electing, Follow, Tire, Stand, Lose, Become, Roles
  <2>2. CASE Acquiring(c)
    BY <1>1, <2>2 DEF TypeOK, Acquiring, localVars
  <2>3. CASE Opening(c)
    BY <1>1, <2>3 DEF TypeOK, Opening, Open, OpenFails, Publish, Become, Roles
  <2>4. CASE Close(c) \/ Closing(c)
    BY <1>1, <2>4 DEF TypeOK, Close, Closing, Shut, Releasing, Become, Roles, Unpin, localVars
  <2> QED
    BY <1>2, <2>1, <2>2, <2>3, <2>4 DEF CallerStep
<1>3. ASSUME NEW p \in Process, ProcessStep(p)
      PROVE  TypeOK'
  BY <1>1, <1>3 DEF TypeOK, ProcessStep, Killed, Signal, SignalTooLate, Quit, Dies, Roles
<1>4. CASE Ages
  BY <1>1, <1>4 DEF TypeOK, Ages, localVars
<1> QED
  BY <1>2, <1>3, <1>4 DEF Next

(* The stage of the lock a caller who is not acquiring it passes to.       *)
LEMMA RolesHoldStep ==
    ASSUME TypeOK, RolesHold, Next
    PROVE  RolesHold'
<1>1. ASSUME NEW c \in Caller, CallerStep(c)
      PROVE  RolesHold'
  <2>1. /\ role'[c] \in {"open", "stop"} => lk'[c] = "held"
        /\ role'[c] = "release" => lk'[c] \in {"release", "unlinkown", "done"}
        /\ elect' \subseteq elect \cup (Resolver \cap {c})
    <3>1. CASE Resolve(c) \/ Reuse(c) \/ Connect(c) \/ Electing(c)
      BY <3>1 DEF TypeOK, Resolve, Reuse, Connect, Electing, Follow, Tire, Stand, Lose, Become
    <3>2. CASE Acquiring(c)
      BY <3>2 DEF Acquiring, localVars, Is
    <3>3. CASE Opening(c)
      <4>1. CASE Open(c) \/ OpenFails(c)
        BY <4>1 DEF TypeOK, RolesHold, Open, OpenFails, Become, Is, lockVars
      <4>2. CASE Publish(c)
        BY <4>2 DEF TypeOK, Publish, Become, Is
      <4> QED
        BY <3>3, <4>1, <4>2 DEF Opening
    <3>4. CASE Close(c) \/ Closing(c)
      BY <3>4 DEF TypeOK, LockTypeOK, RolesHold, Close, Closing, Shut, Releasing, Become, localVars, lockVars, Is, Release,
         ReleaseStep, ReleaseLook, ReleaseUnlink, Move
    <3> QED
      BY <1>1, <3>1, <3>2, <3>3, <3>4 DEF CallerStep
  <2> QED
    BY <1>1, <2>1, CallerMoves DEF RolesHold
<1>2. ASSUME NEW p \in Process, ProcessStep(p)
      PROVE  RolesHold'
  BY <1>2 DEF TypeOK, LockTypeOK, RolesHold, ProcessStep, Killed, Signal, SignalTooLate, Quit, Dies, Crash, lockVars, Handles
<1>3. CASE Ages
  BY <1>3 DEF RolesHold, Ages, TimePasses, FileAges, ClaimAges, localVars
<1> QED
  BY <1>1, <1>2, <1>3 DEF Next

(* The engine of a caller stays open under the lock it was opened under.   *)
LEMMA EngineStep ==
    ASSUME TypeOK, EngineHeld, Next
    PROVE  EngineHeld'
<1>1. ASSUME NEW c \in Caller, CallerStep(c)
      PROVE  EngineHeld'
  <2>1. /\ engine' \subseteq engine \cup {c}
        /\ c \in engine' => /\ lk'[c] \in {"held", "rewrite", "stuck"}
                             /\ role'[c] \in {"publish", "open", "stop", "failed"}
    <3>1. CASE Resolve(c) \/ Reuse(c) \/ Connect(c) \/ Electing(c)
      BY <3>1 DEF EngineHeld, Resolve, Reuse, Connect, Electing, Follow, Tire, Stand, Lose, Is
    <3>2. CASE Acquiring(c)
      BY <3>2 DEF EngineHeld, Acquiring, localVars, Is
    <3>3. CASE Opening(c)
      BY <3>3 DEF TypeOK, LockTypeOK, EngineHeld, Opening, Open, OpenFails, Publish, Become, Is, Truncate, Rewrite, Move, lockVars
    <3>4. CASE Close(c) \/ Closing(c)
      BY <3>4 DEF TypeOK, EngineHeld, Close, Closing, Shut, Releasing, Become, localVars, lockVars, Is
    <3> QED
      BY <1>1, <3>1, <3>2, <3>3, <3>4 DEF CallerStep
  <2>2. /\ \A d \in Caller : d # c => lk'[d] = lk[d] /\ role'[d] = role[d]
        /\ alive' = alive /\ Live(c)
    BY <1>1, CallerMoves
  <2> QED
    BY <2>1, <2>2 DEF EngineHeld, TypeOK, Live
<1>2. ASSUME NEW p \in Process, ProcessStep(p)
      PROVE  EngineHeld'
  <2>1. CASE Signal(p)
    BY <2>1 DEF TypeOK, EngineHeld, Signal, lockVars, Live
  <2>2. CASE Dies(p)
    BY <2>2, LockAssumption DEF TypeOK, LockTypeOK, EngineHeld, Dies, Crash, Live
  <2> QED
    BY <1>2, <2>1, <2>2 DEF ProcessStep, Killed, SignalTooLate, Quit
<1>3. CASE Ages
  BY <1>3 DEF EngineHeld, Ages, TimePasses, FileAges, ClaimAges, localVars, Live
<1> QED
  BY <1>1, <1>2, <1>3 DEF Next

(* What is pinned stays open.                                              *)
LEMMA PinStep ==
    ASSUME TypeOK, PinHeld, EngineHeld, Next
    PROVE  PinHeld'
<1>1. ASSUME NEW c \in Caller, CallerStep(c)
      PROVE  PinHeld'
  <2>1. CASE Resolve(c) \/ Reuse(c) \/ Connect(c) \/ Electing(c)
    BY <2>1 DEF TypeOK, PinHeld, Resolve, Reuse, Connect, Electing, Follow, Tire, Stand, Lose, Become, Is
  <2>2. CASE Acquiring(c)
    BY <2>2 DEF PinHeld, Acquiring, localVars
  <2>3. CASE Opening(c)
    BY <2>3, LockAssumption DEF TypeOK, PinHeld, Opening, Open, OpenFails, Publish, Become, Is
  <2>4. CASE Close(c) \/ Closing(c)
    BY <2>4, LockAssumption DEF TypeOK, PinHeld, Close, Closing, Shut, Releasing, Become, Unpin, localVars, Is
  <2> QED
    BY <1>1, <2>1, <2>2, <2>3, <2>4 DEF CallerStep
<1>2. ASSUME NEW p \in Process, ProcessStep(p)
      PROVE  PinHeld'
  <2>1. CASE Signal(p)
    BY <2>1 DEF TypeOK, PinHeld, Signal, Handles
  <2>2. CASE Dies(p)
    BY <2>2, LockAssumption DEF TypeOK, PinHeld, Dies
  <2> QED
    BY <1>2, <2>1, <2>2 DEF ProcessStep, Killed, SignalTooLate, Quit
<1>3. CASE Ages
  BY <1>3 DEF PinHeld, Ages, localVars
<1> QED
  BY <1>1, <1>2, <1>3 DEF Next

(* The exit of a process, signalled or not, frees its lock.                *)
LEMMA ExitStep ==
    ASSUME Prompt, TypeOK, LockInv, RolesHold, ExitSound, Next
    PROVE  ExitSound'
<1>1. /\ TypeOK' /\ LockInv' /\ RolesHold'
      /\ Unguarded => Unguarded'
      /\ LockTypeOK
  BY LeaderTypeStep, RolesHoldStep, LeaderMovesLock, LockInvStep, UnguardedStays
     DEF LockInv, lockVars, Unguarded
<1>2. ASSUME NEW c \in Caller, CallerStep(c)
      PROVE  ExitSound'
  <2>1. /\ \A d \in Caller : d # c => lk'[d] = lk[d] /\ role'[d] = role[d]
        /\ alive' = alive /\ exit' = exit
        /\ \A d \in Caller : d # c => (d \in elect <=> d \in elect')
        /\ Live(c) /\ ~Exiting(Home[c])
    BY <1>2, CallerMoves
  <2>2. \A d \in Caller : d # c /\ lockFile.by # d => lockFile'.by # d
    <3>1. lockFile'.by \in {lockFile.by, c, None}
      BY <1>2, <1>1, Fields DEF CallerStep, Resolve, Reuse, Connect, Electing, Follow, Tire, Stand, Lose, Begin, Acquiring,
         AcquireStep, Create, WriteToken, Inspect, Claim, StatClaim, Unclaim, Recheck, Unlink, RemoveClaim,
         Opening, Open, OpenFails, Publish, Truncate, Rewrite, Release, Close, Closing, Shut, Releasing,
         ReleaseStep, ReleaseLook, ReleaseUnlink, lockVars, LockTypeOK, NoFile
    <3> QED
      BY <3>1, LockAssumption
  <2>3. ASSUME NEW p \in Process, p # Home[c]
        PROVE  /\ RecordGone(p) => RecordGone(p)'
               /\ Exiting(p)' => Exiting(p)
    <3>1. \A d \in elect' : Home[d] = p => d \in elect /\ d \in Caller /\ d # c
      BY <1>1, <2>1, <2>3 DEF TypeOK
    <3> QED
      BY <2>1, <2>2, <3>1 DEF RecordGone, Exiting, Handles
  <2>4. ASSUME NEW p \in Process, p = Home[c], Exiting(p)', OneLeaderEach
        PROVE  RecordGone(p)'
    BY <1>1, <2>4 DEF Exiting, Handles, OneLeaderEach, RolesHold, RecordGone, LockInv, FileSound, TypeOK
  <2>5. ASSUME NEW p \in Process, p = Home[c], Exiting(p)', ~Unguarded
        PROVE  RecordGone(p)'
    <3>1. PICK d \in elect' : Home[d] = p /\ role'[d] = "release" /\ lk'[d] = "done"
      BY <2>5 DEF Exiting, Handles
    <3>2. d = c
      BY <1>1, <2>1, <2>5, <3>1 DEF Exiting, Handles, TypeOK
    <3>3. Releasing(c)
      <4>1. ~(Resolve(c) \/ Reuse(c) \/ Connect(c) \/ Electing(c))
        BY <3>1, <3>2 DEF TypeOK, Resolve, Reuse, Connect, Electing, Follow, Tire, Stand, Lose, Become
      <4>2. ~Acquiring(c)
        BY <3>1, <3>2 DEF Acquiring, localVars, Is
      <4>3. ~Opening(c)
        BY <3>1, <3>2 DEF TypeOK, Opening, Open, OpenFails, Publish, Become, Is
      <4>4. ~Close(c) /\ ~Shut(c)
        BY <3>1, <3>2 DEF TypeOK, LockTypeOK, Close, Shut, Release, Become, Move, Is
      <4> QED
        BY <1>2, <4>1, <4>2, <4>3, <4>4 DEF CallerStep, Closing
    <3>4. Owner(c) => lockFile.by = c
      BY <2>5 DEF LockInv, Exclusive
    <3>5. ~ReleaseLook(c)
      <4>1. SUFFICES ASSUME ReleaseLook(c) PROVE FALSE
        OBVIOUS
      <4>2. lockFile.by = c /\ lockFile.full /\ Live(c)
        BY <3>4, <4>1 DEF ReleaseLook, At, Owner, LockInv, FileSound
      <4>3. View = "live"
        BY <4>2, ViewMeans, Fields DEF LockInv, FileSound
      <4>4. lk'[c] = "unlinkown"
        BY <1>1, <4>1, <4>2, <4>3 DEF ReleaseLook, Move, LockTypeOK
      <4> QED
        BY <3>1, <3>2, <4>4
    <3>6. lockFile'.by = None
      BY <1>1, <3>3, <3>5, Fields DEF Releasing, ReleaseStep, ReleaseUnlink
    <3> QED
      BY <1>1, <3>6, LockAssumption DEF RecordGone, TypeOK
  <2>6. /\ Home[c] \in Process
        /\ exit[Home[c]] \notin {"clean", "early"} /\ alive[Home[c]]
    BY <2>1, LockAssumption DEF ExitSound, Live
  <2>7. ASSUME NEW q \in Process
        PROVE  /\ exit'[q] \in {"clean", "early"} => ~alive'[q]
               /\ exit'[q] = "clean" => RecordGone(q)' \/ (Unguarded' /\ ~OneLeaderEach)
               /\ alive'[q] /\ Exiting(q)' => RecordGone(q)' \/ (Unguarded' /\ ~OneLeaderEach)
    <3>1. CASE q = Home[c]
      BY <1>1, <2>1, <2>4, <2>5, <2>6, <3>1
    <3>2. CASE q # Home[c]
      BY <1>1, <2>1, <2>3, <3>2 DEF ExitSound
    <3> QED
      BY <3>1, <3>2
  <2> QED
    BY <2>7 DEF ExitSound
<1>3. ASSUME NEW p \in Process, Dies(p), \A q \in Process : q # p => exit'[q] = exit[q],
             exit'[p] = "clean" => RecordGone(p) \/ (Unguarded /\ ~OneLeaderEach)
      PROVE  ExitSound'
  <2>1. \A q \in Process : RecordGone(q) <=> RecordGone(q)'
    BY <1>3 DEF RecordGone, Dies, Crash
  <2>2. ~alive'[p] /\ \A q \in Process : q # p => alive'[q] = alive[q] /\ (Exiting(q) <=> Exiting(q)')
    BY <1>1, <1>3 DEF Dies, Crash, LockTypeOK, Exiting, Handles
  <2> QED
    BY <1>1, <1>3, <2>1, <2>2 DEF ExitSound
<1>4. ASSUME NEW p \in Process, Signal(p)
      PROVE  ExitSound'
  <2>1. /\ exit[p] = "no" /\ exit'[p] = "asked"
        /\ \A q \in Process : q # p => exit'[q] = exit[q]
        /\ UNCHANGED <<alive, lk, elect, lockFile>>
    BY <1>4 DEF Signal, TypeOK, lockVars
  <2>2. ASSUME NEW d \in elect
        PROVE  /\ Home[d] # p => role'[d] = role[d]
               /\ Home[d] = p => role'[d] # "release"
    BY <1>4 DEF Signal, Handles, TypeOK
  <2>3. ASSUME NEW q \in Process, q # p
        PROVE  /\ RecordGone(q) <=> RecordGone(q)'
               /\ Exiting(q) <=> Exiting(q)'
    BY <2>1, <2>2, <2>3 DEF RecordGone, Exiting, Handles
  <2>4. ~Exiting(p)'
    BY <2>1, <2>2 DEF Exiting, Handles
  <2>5. ASSUME NEW q \in Process
        PROVE  /\ exit'[q] \in {"clean", "early"} => ~alive'[q]
               /\ exit'[q] = "clean" => RecordGone(q)' \/ (Unguarded' /\ ~OneLeaderEach)
               /\ alive'[q] /\ Exiting(q)' => RecordGone(q)' \/ (Unguarded' /\ ~OneLeaderEach)
    <3>1. CASE q = p
      BY <2>1, <2>4, <3>1
    <3>2. CASE q # p
      BY <1>1, <2>1, <2>3, <3>2 DEF ExitSound
    <3> QED
      BY <3>1, <3>2
  <2> QED
    BY <2>5 DEF ExitSound
<1>5. CASE Ages
  <2>1. lockFile'.by = lockFile.by /\ UNCHANGED <<role, elect, exit, lk, alive>>
    BY <1>1, <1>5 DEF Ages, TimePasses, FileAges, ClaimAges, localVars, LockTypeOK
  <2> QED
    BY <1>1, <2>1 DEF ExitSound, RecordGone, Exiting, Handles
<1>6. ASSUME NEW p \in Process, ProcessStep(p)
      PROVE  ExitSound'
  <2>1. CASE Killed(p)
    BY <1>3, <2>1 DEF Killed, ExitSound
  <2>2. CASE SignalTooLate(p)
    BY <1>3, <2>2 DEF SignalTooLate, TypeOK
  <2>3. CASE Quit(p)
    BY <1>3, <2>3 DEF Quit, TypeOK, ExitSound, Dies, Crash
  <2> QED
    BY <1>4, <1>6, <2>1, <2>2, <2>3 DEF ProcessStep
<1> QED
  BY <1>2, <1>5, <1>6 DEF Next

LEMMA LeaderInit ==
    ASSUME Init
    PROVE  LeaderInv
<1>1. LockInv
  BY LockInvInit DEF Init
<1>2. TypeOK
  BY <1>1 DEF LockInv, Init, TypeOK, Roles
<1>3. RolesHold
  BY DEF Init, RolesHold
<1>4. ExitSound
  BY DEF Init, ExitSound, Exiting
<1>5. EngineHeld /\ PinHeld
  BY LockAssumption DEF Init, EngineHeld, PinHeld
<1> QED
  BY <1>1, <1>2, <1>3, <1>4, <1>5 DEF LeaderInv

LEMMA LeaderStep ==
    ASSUME Prompt, LeaderInv, [Next]_vars
    PROVE  LeaderInv'
<1>1. CASE Next
  BY <1>1, LeaderTypeStep, LeaderMovesLock, LockInvStep, EngineStep, PinStep, RolesHoldStep, ExitStep DEF LeaderInv
<1>2. CASE UNCHANGED vars
  <2>1. LockInv'
    BY <1>2, LockInvStep DEF LeaderInv, vars
  <2>2. UNCHANGED <<lockFile, claim, lk, alive, swept, role, elect, engine, pin, exit>>
    BY <1>2 DEF vars, lockVars, localVars
  <2>3. TypeOK' /\ EngineHeld' /\ PinHeld' /\ RolesHold'
    BY <2>2 DEF LeaderInv, TypeOK, LockTypeOK, EngineHeld, PinHeld, RolesHold, Live
  <2>4. ExitSound'
    BY <2>2 DEF LeaderInv, ExitSound, RecordGone, Exiting, Handles, Unguarded
  <2> QED
    BY <2>1, <2>3, <2>4 DEF LeaderInv
<1> QED
  BY <1>1, <1>2

(* The inductive invariant of the election, of the pins and of the exits.  *)
THEOREM LeaderInvariance ==
    ASSUME Prompt
    PROVE  Spec => []LeaderInv
<1>1. Init => LeaderInv
  BY LeaderInit
<1>2. LeaderInv /\ [Next]_vars => LeaderInv'
  BY LeaderStep
<1> QED
  BY <1>1, <1>2, PTL DEF Spec

(* However many leaders are elected, die and are replaced, and however     *)
(* many clients open the directory besides, at most one live caller holds  *)
(* the lock (resolveDatabaseUrl() and connectFile()).                      *)
THEOREM LeaderOwners ==
    ASSUME Prompt
    PROVE  Spec => []OwnersExplained
<1>1. LeaderInv => OwnersExplained
  BY HoldersHaveFile DEF LeaderInv, OwnersExplained, OneOwner
<1> QED
  BY <1>1, LeaderInvariance, PTL

(* From before it is opened until after it is closed an engine has the     *)
(* record of its own caller on the directory: two never have it open.      *)
THEOREM EnginesAreGuarded ==
    ASSUME Prompt
    PROVE  Spec => []EngineGuarded
<1>1. LeaderInv => EngineGuarded
  <2>1. SUFFICES ASSUME LeaderInv, ~Unguarded, NEW c \in engine
                 PROVE  lockFile.by = c
    BY DEF EngineGuarded
  <2>2. c \in Caller /\ Holds(c)
    BY <2>1 DEF LeaderInv, EngineHeld, TypeOK, Holds
  <2> QED
    BY <2>1, <2>2, HoldersHaveFile DEF LeaderInv
<1> QED
  BY <1>1, LeaderInvariance, PTL

(* What a process has pinned for its next module reload is open.           *)
THEOREM PinsAreOpen ==
    ASSUME Prompt
    PROVE  Spec => []PinIsOpen
<1>1. LeaderInv => PinIsOpen
  BY DEF LeaderInv, PinHeld, PinIsOpen, TypeOK
<1> QED
  BY <1>1, LeaderInvariance, PTL

(* A process that a signal ends takes its record with it, if it has one    *)
(* leader, and no leader of it had been closed before (the listeners of    *)
(* resolveDatabaseUrl()).                                                  *)
THEOREM ExitsAreClean ==
    ASSUME Prompt, OneLeaderEach
    PROVE  Spec => []ExitExplained
<1>1. LeaderInv => ExitExplained
  BY LockAssumption DEF LeaderInv, ExitSound, RecordGone, ExitExplained, ExitFreesLock, TypeOK
<1> QED
  BY <1>1, LeaderInvariance, PTL

(* With any number of leaders in a process, it does so while the lock is   *)
(* guarded.                                                                *)
THEOREM ExitsAreCleanGuarded ==
    ASSUME Prompt
    PROVE  Spec => [](ExitExplained \/ Unguarded)
<1>1. LeaderInv => ExitExplained \/ Unguarded
  BY LockAssumption DEF LeaderInv, ExitSound, RecordGone, ExitExplained, ExitFreesLock, TypeOK
<1> QED
  BY <1>1, LeaderInvariance, PTL

(* The election and the clients that open the directory do to the lock     *)
(* file what lockfile.ts does to it, and nothing else.                     *)
THEOREM LeaderRefinesLock == Spec => LockSpec
<1>1. Init => LockInit
  BY DEF Init
<1>2. [Next]_vars => [LockNext]_lockVars
  BY LeaderMovesLock DEF vars
<1> QED
  BY <1>1, <1>2, PTL DEF Spec, LockSpec

(* Two processes never have the engine open on one directory if nobody     *)
(* dies inside the mutex and no write of the port fails.                   *)
THEOREM OneEngine ==
    ASSUME Faults \cap {"stall", "claim", "rewrite"} = {}
    PROVE  Spec => [](\A c, d \in engine : c = d)
<1> Prompt
  BY DEF Prompt
<1>1. LeaderInv /\ OneOwner => \A c, d \in engine : c = d
  <2>1. SUFFICES ASSUME LeaderInv, OneOwner, NEW c \in engine, NEW d \in engine
                 PROVE  c = d
    OBVIOUS
  <2>2. c \in Caller /\ Holds(c) /\ d \in Caller /\ Holds(d)
    BY <2>1 DEF LeaderInv, EngineHeld, TypeOK, Holds
  <2> QED
    BY <2>1, <2>2 DEF OneOwner
<1> QED
  BY <1>1, LeaderInvariance, LeaderRefinesLock, LockIsExclusive, PTL
=============================================================================
