---------------------------- MODULE DatadirLock ----------------------------
(***************************************************************************)
(* The lock file of a local data directory                                 *)
(* (src/packages/client/src/lockfile.ts): created with O_EXCL, filled with *)
(* the holder's pid in a second step, reclaimed from a dead holder under a *)
(* mutex (a directory), removed by its holder.                             *)
(*                                                                         *)
(* An action is one operation on the file system.  inspect() reads the     *)
(* file and, if it finds no record in it, looks at its age; what it        *)
(* answers is what it would have answered at the one moment or the other,  *)
(* so it is one step.  A caller is one acquireDatadirLock() and what       *)
(* becomes of it; several of them may be calls of one process, and a       *)
(* process that is restarted is another process.                           *)
(***************************************************************************)
EXTENDS FiniteSets

CONSTANTS
    Caller,    \* calls of acquireDatadirLock()
    Process,   \* processes on this host, each with a pid
    Home,      \* the process of each caller
    None,      \* no caller
    Faults     \* what else may go wrong: "token" or "rewrite", a failed write;
               \* "claim", a crash inside the mutex; "stall", a pause beyond
               \* PENDING_MS or CLAIM_STALE_MS

ASSUME LockAssumption ==
    /\ Home \in [Caller -> Process]
    /\ None \notin Caller
    /\ Faults \subseteq {"token", "rewrite", "claim", "stall"}

VARIABLES
    lockFile,   \* whose record it has or is to have; is the record there, with a
                \* port; is it older than PENDING_MS?
    claim,      \* the mutex directory: who made it, is it older than CLAIM_STALE_MS?
    lk,         \* where each caller stands
    alive,      \* which processes live
    swept       \* has a mutex been removed while another caller was inside it?

lockVars == <<lockFile, claim, lk, alive, swept>>

NoFile == [by |-> None, full |-> FALSE, port |-> FALSE, old |-> FALSE]
NoClaim == [by |-> None, old |-> FALSE]

LockInit ==
    /\ lockFile = NoFile
    /\ claim = NoClaim
    /\ lk = [c \in Caller |-> "idle"]
    /\ alive = [p \in Process |-> TRUE]
    /\ swept = FALSE

----------------------------------------------------------------------------
Live(c) == alive[Home[c]]

At(c, l) == lk[c] = l /\ Live(c)

Move(c, l) == lk' = [lk EXCEPT ![c] = l]

(* The end of an iteration: try again, unless the deadline has passed.     *)
Again(c) == Move(c, "create") \/ Move(c, "gaveup")

Claiming(c) == lk[c] \in {"recheck", "unlink", "rmclaim"}

(* rmdir of the mutex, by a caller who is not asked whether it is his.     *)
RemoveMutex(c) ==
    /\ claim' = NoClaim
    /\ swept' = (swept \/ \E d \in Caller \ {c} : claim.by = d /\ Claiming(d) /\ Live(d))

(* Wrong: a record that cannot be read yet is that of nobody.              *)
ImpatientView ==
    IF lockFile = NoFile THEN "gone"
    ELSE IF lockFile.full /\ Live(lockFile.by) THEN "live" ELSE "reclaimable"

(* inspect()                                                               *)
View ==
    IF lockFile = NoFile THEN "gone"
    ELSE IF lockFile.full THEN IF Live(lockFile.by) THEN "live" ELSE "reclaimable"
    ELSE IF lockFile.old THEN "reclaimable" ELSE "pending"

(* acquireDatadirLock() is called.                                         *)
Begin(c) ==
    /\ lk[c] \in {"idle", "gaveup"}
    /\ Live(c)
    /\ Move(c, "create")
    /\ UNCHANGED <<lockFile, claim, alive, swept>>

(* open(lockPath, 'wx')                                                    *)
Create(c) ==
    /\ At(c, "create")
    /\ \/ /\ lockFile = NoFile
          /\ lockFile' = [NoFile EXCEPT !.by = c]
          /\ Move(c, "token")
       \/ /\ lockFile # NoFile
          /\ Move(c, "inspect")
          /\ UNCHANGED lockFile
    /\ UNCHANGED <<claim, alive, swept>>

(* The token is written to the file that was opened, if that is still      *)
(* there.  A write that fails throws, and leaves the empty file behind.    *)
WriteToken(c) ==
    /\ At(c, "token")
    /\ \/ /\ lockFile' = IF lockFile.by = c THEN [lockFile EXCEPT !.full = TRUE, !.old = FALSE]
                                            ELSE lockFile
          /\ Move(c, "held")
       \/ /\ "token" \in Faults
          /\ Move(c, "gaveup")
          /\ UNCHANGED lockFile
    /\ UNCHANGED <<claim, alive, swept>>

(* A free lock is raced for, a live or a pending one waited for, a dead    *)
(* one reclaimed.                                                          *)
Inspect(c) ==
    /\ At(c, "inspect")
    /\ \/ View = "reclaimable" /\ Move(c, "claim")
       \/ View # "reclaimable" /\ Again(c)
    /\ UNCHANGED <<lockFile, claim, alive, swept>>

(* tryReclaim(): mkdir of the mutex ...                                    *)
Claim(c) ==
    /\ At(c, "claim")
    /\ \/ /\ claim = NoClaim
          /\ claim' = [NoClaim EXCEPT !.by = c]
          /\ Move(c, "recheck")
       \/ /\ claim # NoClaim
          /\ Move(c, "statclaim")
          /\ UNCHANGED claim
    /\ UNCHANGED <<lockFile, alive, swept>>

(* Wrong: the mutex of a crashed caller is waited for.                     *)
WaitClaim(c) ==
    /\ At(c, "statclaim")
    /\ Again(c)
    /\ UNCHANGED <<lockFile, claim, alive, swept>>

(* ... which another caller has: is it that of a crashed one?              *)
StatClaim(c) ==
    /\ At(c, "statclaim")
    /\ \/ claim.old /\ Move(c, "unclaim")
       \/ ~claim.old /\ Again(c)
    /\ UNCHANGED <<lockFile, claim, alive, swept>>

(* Then remove it: whichever is there by now.                              *)
Unclaim(c) ==
    /\ At(c, "unclaim")
    /\ RemoveMutex(c)
    /\ Again(c)
    /\ UNCHANGED <<lockFile, alive>>

(* Wrong: what inspect() said before the mutex was taken still holds.      *)
UncheckedRecheck(c) ==
    /\ At(c, "recheck")
    /\ Move(c, "unlink")
    /\ UNCHANGED <<lockFile, claim, alive, swept>>

(* Under the mutex, look again.                                            *)
Recheck(c) ==
    /\ At(c, "recheck")
    /\ Move(c, IF View = "reclaimable" THEN "unlink" ELSE "rmclaim")
    /\ UNCHANGED <<lockFile, claim, alive, swept>>

Unlink(c) ==
    /\ At(c, "unlink")
    /\ lockFile' = NoFile
    /\ Move(c, "rmclaim")
    /\ UNCHANGED <<claim, alive, swept>>

(* The finally block removes the mutex, whoever made the one that is there.*)
RemoveClaim(c) ==
    /\ At(c, "rmclaim")
    /\ RemoveMutex(c)
    /\ Again(c)
    /\ UNCHANGED <<lockFile, alive>>

----------------------------------------------------------------------------
(* The holder writes its record anew, with a port: writeFile() truncates   *)
(* the file, or creates it ...                                             *)
Truncate(c) ==
    /\ At(c, "held")
    /\ lockFile' = [NoFile EXCEPT !.by = c]
    /\ Move(c, "rewrite")
    /\ UNCHANGED <<claim, alive, swept>>

(* ... and then fills it.  If that fails the holder does not let go.       *)
Rewrite(c) ==
    /\ At(c, "rewrite")
    /\ \/ /\ lockFile' = IF lockFile.by = c
                         THEN [lockFile EXCEPT !.full = TRUE, !.port = TRUE, !.old = FALSE]
                         ELSE lockFile
          /\ Move(c, "held")
       \/ /\ "rewrite" \in Faults
          /\ Move(c, "stuck")
          /\ UNCHANGED lockFile
    /\ UNCHANGED <<claim, alive, swept>>

(* release(): inspect() ...                                                *)
Release(c) ==
    /\ At(c, "held")
    /\ Move(c, "release")
    /\ UNCHANGED <<lockFile, claim, alive, swept>>

ReleaseLook(c) ==
    /\ At(c, "release")
    /\ Move(c, IF View = "live" /\ Home[lockFile.by] = Home[c] THEN "unlinkown" ELSE "done")
    /\ UNCHANGED <<lockFile, claim, alive, swept>>

(* ... and unlink the file if it names this process.                       *)
ReleaseUnlink(c) ==
    /\ At(c, "unlinkown")
    /\ lockFile' = NoFile
    /\ Move(c, "done")
    /\ UNCHANGED <<claim, alive, swept>>

----------------------------------------------------------------------------
(* A process dies, with every call it has under way.                       *)
Crash(p) ==
    /\ alive[p]
    /\ "claim" \in Faults \/ \A c \in Caller : Home[c] = p => ~Claiming(c)
    /\ alive' = [alive EXCEPT ![p] = FALSE]
    /\ UNCHANGED <<lockFile, claim, lk, swept>>

Writing(c) == lk[c] \in {"token", "rewrite"} /\ Live(c)

(* PENDING_MS pass with no record in the file.                             *)
FileAges ==
    /\ lockFile # NoFile
    /\ ~lockFile.full
    /\ ~lockFile.old
    /\ "stall" \in Faults \/ ~Writing(lockFile.by)
    /\ lockFile' = [lockFile EXCEPT !.old = TRUE]
    /\ UNCHANGED <<claim, lk, alive, swept>>

(* CLAIM_STALE_MS pass with the mutex in place.                            *)
ClaimAges ==
    /\ claim # NoClaim
    /\ ~claim.old
    /\ "stall" \in Faults \/ ~(Claiming(claim.by) /\ Live(claim.by))
    /\ claim' = [claim EXCEPT !.old = TRUE]
    /\ UNCHANGED <<lockFile, lk, alive, swept>>

TimePasses == FileAges \/ ClaimAges

AcquireStep(c) ==
    \/ Create(c) \/ WriteToken(c) \/ Inspect(c)
    \/ Claim(c) \/ StatClaim(c) \/ Unclaim(c) \/ Recheck(c) \/ Unlink(c) \/ RemoveClaim(c)

ReleaseStep(c) == ReleaseLook(c) \/ ReleaseUnlink(c)

LockNext ==
    \/ \E c \in Caller :
          \/ Begin(c) \/ AcquireStep(c) \/ Truncate(c) \/ Rewrite(c)
          \/ Release(c) \/ ReleaseStep(c)
    \/ \E p \in Process : Crash(p)
    \/ TimePasses

LockSpec == LockInit /\ [][LockNext]_lockVars

----------------------------------------------------------------------------
Stages == {"idle", "create", "token", "inspect", "claim", "statclaim", "unclaim", "recheck",
           "unlink", "rmclaim", "held", "rewrite", "stuck", "release", "unlinkown", "done",
           "gaveup"}

LockTypeOK ==
    /\ lockFile \in [by : Caller \cup {None}, full : BOOLEAN, port : BOOLEAN, old : BOOLEAN]
    /\ claim \in [by : Caller \cup {None}, old : BOOLEAN]
    /\ lk \in [Caller -> Stages]
    /\ alive \in [Process -> BOOLEAN]
    /\ swept \in BOOLEAN

(* Holding begins when acquireDatadirLock() returns and ends when          *)
(* release() unlinks the file.                                             *)
Holds(c) == Live(c) /\ lk[c] \in {"held", "rewrite", "stuck", "release", "unlinkown"}

OneOwner == \A c, d \in Caller : Holds(c) /\ Holds(d) => c = d

(* What the lock does not protect from: a mutex removed under the feet of  *)
(* the caller inside it, and a holder that could not rewrite its record.   *)
Unguarded == swept \/ \E c \in Caller : lk[c] = "stuck"

(* At most one live caller holds the lock, whatever callers race to create *)
(* it, to reclaim it from a dead holder and to release it ("two reclaimers *)
(* can never both delete and recreate", tryReclaim), but for the two holes *)
(* named above.                                                            *)
OwnersExplained == OneOwner \/ Unguarded
=============================================================================
