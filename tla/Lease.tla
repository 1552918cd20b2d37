------------------------------- MODULE Lease -------------------------------
(***************************************************************************)
(* The writer lease of src/packages/lease/src/index.ts: one object,        *)
(* lease.json, that processes create, take over, renew and delete through  *)
(* the conditional writes of the object store.  A writer is one process    *)
(* life (one `new Lease`): it acquires at most once, and a restarted       *)
(* process is another writer.                                              *)
(*                                                                         *)
(* Every request to the store is one action, so that other writers, and    *)
(* other calls of the same writer, run between any two of them.  What a    *)
(* method reads before an await it keeps (`seen`, `call`), what it reads   *)
(* after the await is the state of that moment.                            *)
(*                                                                         *)
(* Time is the flag `expired` of the object, which Expire may raise at any *)
(* moment: that covers every TTL and every skew between clocks.            *)
(***************************************************************************)
EXTENDS Naturals

CONSTANTS
    Writer,      \* process lives
    NoOne,       \* the holder of an absent object
    Call,        \* concurrent validateLease() calls a writer may have under way
    Floor,       \* values of the manifest's fencingToken an acquire may start from
    MaxRetries,  \* maxTakeoverRetries (5 in the code)
    LostReplies, \* may a PUT land and its reply be lost (a thrown network error)?
    Resends,     \* may the store's client send a PUT again that has landed (under a 5xx)?
    SlowRelease, \* may a take-over land between release()'s head() and its delete()?
    MaxEtag,     \* bound: number of PUTs of lease.json
    MaxRenewed   \* bound: the last of them that may be a renewal

ASSUME LeaseAssumption ==
    /\ NoOne \notin Writer
    /\ Floor \subseteq Nat
    /\ MaxRetries \in Nat \ {0}
    /\ LostReplies \in BOOLEAN
    /\ Resends \in BOOLEAN
    /\ SlowRelease \in BOOLEAN
    /\ MaxEtag \in Nat
    /\ MaxRenewed \in Nat

VARIABLES
    leaseObj,    \* lease.json in the bucket
    leaseClock,  \* the store's last etag for lease.json
    lpc,         \* where each writer's Lease object stands
    lz,          \* its private fields: etag and body.fencingToken (0: null)
    tookOver,    \* acquiredByTakeover
    floor,       \* opts.tokenFloor
    seen,        \* the object version read by the last get() of acquire()
    tries,       \* attempt, the loop counter of acquire()
    call         \* the validateLease() calls under way

leaseVars == <<leaseObj, leaseClock, lpc, lz, tookOver, floor, seen, tries, call>>

----------------------------------------------------------------------------
Absent == [etag |-> 0, token |-> 0, holder |-> NoOne, expired |-> FALSE]
Null   == [etag |-> 0, token |-> 0]
NoCall == [at |-> "idle", etag |-> 0, token |-> 0]

Pos == Nat \ {0}

LeaseObject ==
    {Absent} \cup [etag : Pos, token : Pos, holder : Writer, expired : BOOLEAN]

LeasePc == {"idle", "create", "inspect", "recreate", "takeover", "locked", "held",
            "releasing", "deleting", "released", "failed", "crashed"}

CallState == {NoCall} \cup [at : {"headed"}, etag : Nat, token : {0}]
                      \cup [at : {"renew"}, etag : Pos, token : Pos]

LeaseTypeOK ==
    /\ leaseObj \in LeaseObject
    /\ leaseClock \in Nat
    /\ lpc \in [Writer -> LeasePc]
    /\ lz \in [Writer -> {Null} \cup [etag : Pos, token : Pos]]
    /\ tookOver \in [Writer -> BOOLEAN]
    /\ floor \in [Writer -> Nat]
    /\ seen \in [Writer -> LeaseObject]
    /\ tries \in [Writer -> Nat]
    /\ call \in [Writer -> [Call -> CallState]]

LeaseInit ==
    /\ leaseObj = Absent
    /\ leaseClock = 0
    /\ lpc = [w \in Writer |-> "idle"]
    /\ lz = [w \in Writer |-> Null]
    /\ tookOver = [w \in Writer |-> FALSE]
    /\ floor = [w \in Writer |-> 0]
    /\ seen = [w \in Writer |-> Absent]
    /\ tries = [w \in Writer |-> 0]
    /\ call = [w \in Writer |-> [c \in Call |-> NoCall]]

Larger(a, b) == IF a >= b THEN a ELSE b

Held(w) == lz[w].etag # 0          \* `held`: body !== null

Owns(w) == Held(w) /\ lz[w].etag = leaseObj.etag

----------------------------------------------------------------------------
(* A PUT of lease.json whose precondition holds.                           *)
PutLease(w, token) ==
    /\ leaseClock < MaxEtag
    /\ leaseClock' = leaseClock + 1
    /\ leaseObj' = [etag |-> leaseClock + 1, token |-> token, holder |-> w, expired |-> FALSE]

(* A PUT answered 412: its precondition fails, or it had landed when the    *)
(* store answered 5xx, which put() takes for a clean rejection and sends   *)
(* again.                                                                  *)
Refused(w, holds, token) ==
    \/ ~holds /\ UNCHANGED <<leaseObj, leaseClock>>
    \/ Resends /\ holds /\ PutLease(w, token)

(* The reply arrives: the method stores the new etag and body.             *)
Keep(w, token) == lz' = [lz EXCEPT ![w] = [etag |-> leaseClock + 1, token |-> token]]

(* Wrong: the version is cleared and the body kept.                        *)
DropEtagOnly(w) == lz' = [lz EXCEPT ![w].etag = 0]

Drop(w) == lz' = [lz EXCEPT ![w] = Null]

(* The local variables of acquire() end with the call.                     *)
AcquireEnds(w) ==
    /\ seen' = [seen EXCEPT ![w] = Absent]
    /\ tries' = [tries EXCEPT ![w] = 0]

(* An acquiring PUT.  With its reply lost the network error propagates out *)
(* of acquire(): the object is there and nobody knows it is theirs.        *)
AcquirePut(w, token, byTakeover) ==
    /\ PutLease(w, token)
    /\ AcquireEnds(w)
    /\ \/ /\ Keep(w, token)
          /\ lpc' = [lpc EXCEPT ![w] = "held"]
          /\ tookOver' = [tookOver EXCEPT ![w] = byTakeover]
       \/ /\ LostReplies
          /\ lpc' = [lpc EXCEPT ![w] = "failed"]
          /\ UNCHANGED <<lz, tookOver>>

(* `continue` in the loop of acquire(): the next attempt, or giving up.    *)
NextAttempt(w) ==
    \/ /\ tries[w] + 1 < MaxRetries
       /\ tries' = [tries EXCEPT ![w] = @ + 1]
       /\ lpc' = [lpc EXCEPT ![w] = "inspect"]
       /\ UNCHANGED seen
    \/ /\ tries[w] + 1 >= MaxRetries
       /\ lpc' = [lpc EXCEPT ![w] = "failed"]
       /\ AcquireEnds(w)

AcquireStart(w, f) ==
    /\ lpc[w] = "idle"
    /\ lpc' = [lpc EXCEPT ![w] = "create"]
    /\ floor' = [floor EXCEPT ![w] = f]
    /\ UNCHANGED <<leaseObj, leaseClock, lz, tookOver, seen, tries, call>>

(* The fast path: create-if-absent.                                        *)
Create(w) ==
    /\ lpc[w] = "create"
    /\ \/ /\ leaseObj.etag = 0
          /\ AcquirePut(w, floor[w] + 1, FALSE)
       \/ /\ Refused(w, leaseObj.etag = 0, floor[w] + 1)
          /\ lpc' = [lpc EXCEPT ![w] = "inspect"]
          /\ UNCHANGED <<lz, tookOver, seen, tries>>
    /\ UNCHANGED <<floor, call>>

(* Wrong: an expired lease counts as locked.                               *)
InspectNeverExpired(w) ==
    /\ lpc[w] = "inspect"
    /\ seen' = [seen EXCEPT ![w] = leaseObj]
    /\ lpc' = [lpc EXCEPT ![w] = IF leaseObj.etag = 0 THEN "recreate" ELSE "locked"]
    /\ UNCHANGED <<leaseObj, leaseClock, lz, tookOver, floor, tries, call>>

(* get(): vanished, held by a live writer (LockedError) or expired.        *)
Inspect(w) ==
    /\ lpc[w] = "inspect"
    /\ seen' = [seen EXCEPT ![w] = leaseObj]
    /\ lpc' = [lpc EXCEPT ![w] = IF leaseObj.etag = 0 THEN "recreate"
                                 ELSE IF leaseObj.expired THEN "takeover" ELSE "locked"]
    /\ UNCHANGED <<leaseObj, leaseClock, lz, tookOver, floor, tries, call>>

Recreate(w) ==
    /\ lpc[w] = "recreate"
    /\ \/ leaseObj.etag = 0 /\ AcquirePut(w, floor[w] + 1, FALSE)
       \/ /\ Refused(w, leaseObj.etag = 0, floor[w] + 1)
          /\ NextAttempt(w)
          /\ UNCHANGED <<lz, tookOver>>
    /\ UNCHANGED <<floor, call>>

(* Wrong: the successor takes the token it has seen.                       *)
SameTakeoverToken(w) == Larger(seen[w].token, floor[w])

(* Wrong: only the manifest's token counts.                                *)
FloorTakeoverToken(w) == floor[w] + 1

TakeoverToken(w) == Larger(seen[w].token, floor[w]) + 1

Releasing(w) == lpc[w] \in {"releasing", "deleting"}

(* CAS on the version just read; a lost race re-evaluates.                 *)
TakeOver(w) ==
    /\ lpc[w] = "takeover"
    /\ SlowRelease \/ \A v \in Writer : ~Releasing(v)
    /\ \/ /\ leaseObj.etag = seen[w].etag
          /\ AcquirePut(w, TakeoverToken(w), TRUE)
       \/ /\ Refused(w, leaseObj.etag = seen[w].etag, TakeoverToken(w))
          /\ NextAttempt(w)
          /\ UNCHANGED <<lz, tookOver>>
    /\ UNCHANGED <<floor, call>>

(* The boot loop around acquire(): a LockedError is retried until the      *)
(* deadline, then thrown.                                                  *)
Retry(w) ==
    /\ lpc[w] = "locked"
    /\ \/ lpc' = [lpc EXCEPT ![w] = "create"]
       \/ lpc' = [lpc EXCEPT ![w] = "failed"]
    /\ AcquireEnds(w)
    /\ UNCHANGED <<leaseObj, leaseClock, lz, tookOver, floor, call>>

----------------------------------------------------------------------------
(* Wrong: renews whatever is there.                                        *)
PutHeldAnyway(w, etag, token) ==
    PutLease(w, token) /\ Keep(w, token)

(* Wrong: does not keep the new version.                                   *)
CasHeldForgets(w, etag, token) ==
    \/ leaseObj.etag = etag /\ PutLease(w, token) /\ UNCHANGED lz
    \/ leaseObj.etag # etag /\ Drop(w) /\ UNCHANGED <<leaseObj, leaseClock>>

(* A CAS of the held lease on the version `etag`, with the given token.    *)
CasHeld(w, etag, token) ==
    \/ /\ leaseObj.etag = etag
       /\ PutLease(w, token)
       /\ \/ Keep(w, token)
          \/ LostReplies /\ UNCHANGED lz
    \/ Refused(w, leaseObj.etag = etag, token) /\ Drop(w)     \* FencedError

(* upgradeToken(min), when the held token is not already above min.  boot() *)
(* calls it before anybody can call validateLease().                       *)
UpgradeToken(w, min) ==
    /\ lpc[w] = "held"
    /\ Held(w)
    /\ \A c \in Call : call[w][c] = NoCall
    /\ lz[w].token <= min
    /\ CasHeld(w, lz[w].etag, min + 1)
    /\ UNCHANGED <<lpc, tookOver, floor, seen, tries, call>>

(* validateLease(): validate() asks for the object's version ...           *)
ValidateHead(w, c) ==
    /\ lpc[w] = "held"
    /\ Held(w)
    /\ call[w][c].at = "idle"
    /\ call' = [call EXCEPT ![w][c] = [at |-> "headed", etag |-> leaseObj.etag, token |-> 0]]
    /\ UNCHANGED <<leaseObj, leaseClock, lpc, lz, tookOver, floor, seen, tries>>

(* ... and compares the answer with the etag of the moment it arrives.     *)
(* An expired lease, and one past its half-life, goes on to renew(); a     *)
(* lease another call has dropped makes the call throw.                    *)
ValidateCheck(w, c) ==
    /\ call[w][c].at = "headed"
    /\ \/ /\ Held(w)
          /\ call[w][c].etag = lz[w].etag
          /\ \/ call' = [call EXCEPT ![w][c] = NoCall]
             \/ call' = [call EXCEPT ![w][c] = 
                    [at |-> "renew", etag |-> lz[w].etag, token |-> lz[w].token]]
          /\ UNCHANGED lz
       \/ /\ ~Held(w) \/ call[w][c].etag # lz[w].etag
          /\ Drop(w)
          /\ call' = [call EXCEPT ![w][c] = NoCall]
    /\ UNCHANGED <<leaseObj, leaseClock, lpc, tookOver, floor, seen, tries>>

(* renew(): the PUT carries the etag and the token of the call's start.    *)
RenewPut(w, c) ==
    /\ call[w][c].at = "renew"
    /\ leaseClock < MaxRenewed \/ leaseObj.etag # call[w][c].etag
    /\ CasHeld(w, call[w][c].etag, call[w][c].token)
    /\ call' = [call EXCEPT ![w][c] = NoCall]
    /\ UNCHANGED <<lpc, tookOver, floor, seen, tries>>

----------------------------------------------------------------------------
(* release(), called by close(): nothing to do for a dropped lease, else a *)
(* head() ...                                                              *)
ReleaseHead(w) ==
    /\ lpc[w] = "held"
    /\ \/ /\ Held(w)
          /\ seen' = [seen EXCEPT ![w] = leaseObj]
          /\ lpc' = [lpc EXCEPT ![w] = "releasing"]
       \/ /\ ~Held(w)
          /\ lpc' = [lpc EXCEPT ![w] = "released"]
          /\ UNCHANGED seen
    /\ UNCHANGED <<leaseObj, leaseClock, lz, tookOver, floor, tries, call>>

(* ... whose answer is compared with our version when it arrives ...       *)
ReleaseCompare(w) ==
    /\ lpc[w] = "releasing"
    /\ \/ /\ seen[w].etag # 0 /\ seen[w].etag = lz[w].etag
          /\ lpc' = [lpc EXCEPT ![w] = "deleting"]
          /\ UNCHANGED lz
       \/ /\ seen[w].etag = 0 \/ seen[w].etag # lz[w].etag
          /\ lpc' = [lpc EXCEPT ![w] = "released"]
          /\ Drop(w)
    /\ UNCHANGED <<leaseObj, leaseClock, tookOver, floor, seen, tries, call>>

(* ... then a delete(), which is unconditional.                            *)
ReleaseDelete(w) ==
    /\ lpc[w] = "deleting"
    /\ lpc' = [lpc EXCEPT ![w] = "released"]
    /\ leaseObj' = Absent
    /\ Drop(w)
    /\ UNCHANGED <<leaseClock, tookOver, floor, seen, tries, call>>

Ended == {"released", "failed", "crashed"}

LeaseCrash(w) ==
    /\ lpc[w] \notin Ended
    /\ lpc' = [lpc EXCEPT ![w] = "crashed"]
    /\ Drop(w)
    /\ AcquireEnds(w)
    /\ floor' = [floor EXCEPT ![w] = 0]
    /\ tookOver' = [tookOver EXCEPT ![w] = FALSE]
    /\ call' = [call EXCEPT ![w] = [c \in Call |-> NoCall]]
    /\ UNCHANGED <<leaseObj, leaseClock>>

(* The TTL of the current object passes.                                   *)
Expire ==
    /\ leaseObj.etag # 0
    /\ ~leaseObj.expired
    /\ leaseObj' = [leaseObj EXCEPT !.expired = TRUE]
    /\ UNCHANGED <<leaseClock, lpc, lz, tookOver, floor, seen, tries, call>>

----------------------------------------------------------------------------
AcquireStep(w) == Create(w) \/ Inspect(w) \/ Recreate(w) \/ TakeOver(w) \/ Retry(w)

ValidateStep(w) ==
    \E c \in Call : ValidateHead(w, c) \/ ValidateCheck(w, c) \/ RenewPut(w, c)

ReleaseStep(w) == ReleaseHead(w) \/ ReleaseCompare(w) \/ ReleaseDelete(w)

LeaseNext ==
    \/ \E w \in Writer :
          \/ \E f \in Floor : AcquireStart(w, f) \/ UpgradeToken(w, f)
          \/ AcquireStep(w)
          \/ ValidateStep(w)
          \/ ReleaseStep(w)
          \/ LeaseCrash(w)
    \/ Expire

LeaseSpec == LeaseInit /\ [][LeaseNext]_leaseVars

(* A process under way keeps running until it ends or crashes, and a TTL   *)
(* that nobody renews passes.                                              *)
LeaseFairSpec ==
    /\ LeaseSpec
    /\ \A w \in Writer : WF_leaseVars(AcquireStep(w))
    /\ WF_leaseVars(Expire)

----------------------------------------------------------------------------
(* The fencing token of the object never falls while the object exists,    *)
(* and rises strictly when the holder changes: the successor of an expired *)
(* holder always outranks it (header comment, index.ts:14-16).             *)
TokenRises ==
    [][leaseObj.etag # 0 /\ leaseObj'.etag # 0
         => /\ leaseObj'.token >= leaseObj.token
            /\ leaseObj'.holder # leaseObj.holder => leaseObj'.token > leaseObj.token]_leaseVars

(* A writer whose version of the lease has been replaced or deleted never  *)
(* owns the object again, whatever renewals and releases it still sends:   *)
(* being a zombie is for good.                                             *)
StaysZombie(w) == Held(w) /\ ~Owns(w) => ~(Owns(w)')

ZombieForGood == [][\A w \in Writer : StaysZombie(w)]_leaseVars

(* A writer gives up its lease as fenced only when the object is somebody  *)
(* else's or gone: "Throws FencedError if taken over" (zeropg.ts,          *)
(* validateLease).                                                         *)
FencedOnlyIfTakenOver ==
    [][\A w \in Writer :
         lpc[w] = "held" /\ lpc'[w] = "held" /\ Held(w) /\ ~(Held(w)')
           => leaseObj.holder # w]_leaseVars

(* release() removes the caller's own lease and nobody else's: "CAS-       *)
(* guarded: if we no longer own it, we are already fenced and there is     *)
(* nothing to release" (release).                                          *)
ReleaseRemovesOwn ==
    [][\A w \in Writer :
         ReleaseDelete(w) => leaseObj.holder \in {w, NoOne}]_leaseVars

(* A crashed holder does not lock the database for good: a writer that is  *)
(* acquiring gets past it (or stops asking), because the TTL passes.       *)
DeadHolderReplaced ==
    \A u, w \in Writer :
        (leaseObj.holder = u /\ lpc[u] = "crashed" /\ lpc[w] = "create")
            ~> (leaseObj.holder # u \/ lpc[w] \in Ended)
=============================================================================
