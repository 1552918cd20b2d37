---------------------------- MODULE ZeroPGProofs ----------------------------
(***************************************************************************)
(* Theorems about any number of writers on one bucket.  The first part is  *)
(* about the writer lease alone (module Lease), for any number of writers  *)
(* and of concurrent calls, with lost replies and with the slow release:   *)
(* its type invariant, that the token of the object never falls, and that  *)
(* a writer whose lease has been replaced never owns it again.             *)
(*                                                                         *)
(* The second part is about the whole writer (module ZeroPG): its type     *)
(* invariant, and that as long as no two commits share an object key the   *)
(* bucket is the log of module DurableLog: it never loses a row, least of  *)
(* all an acknowledged one, whatever writers are fenced, lose replies, or  *)
(* crash in between.                                                       *)
(***************************************************************************)
EXTENDS ZeroPG, TLAPS

----------------------------------------------------------------------------
(* The lease alone.                                                        *)

(* What one writer may do.  `f` is the manifest token it goes by; Floor    *)
(* need not hold it, so that the lemmas serve module ZeroPG as well.       *)
Move(w, f) ==
    \/ AcquireStart(w, f) \/ UpgradeToken(w, f)
    \/ AcquireStep(w) \/ ValidateStep(w) \/ ReleaseStep(w) \/ LeaseCrash(w)

(* Etags are drawn from the clock, and the object that is there has the    *)
(* latest.                                                                 *)
EtagsDrawn ==
    /\ leaseObj.etag \in {0, leaseClock}
    /\ \A w \in Writer : lz[w].etag <= leaseClock /\ seen[w].etag <= leaseClock

(* An etag that matches the object's stands for the object's token: what a *)
(* conditional write may rely on.                                          *)
EtagMeansToken ==
    \A w \in Writer :
        /\ Owns(w) => lz[w].token = leaseObj.token /\ leaseObj.holder = w
        /\ seen[w].etag = leaseObj.etag => seen[w].token = leaseObj.token

(* A renewal under way carries a version the writer has held, no newer     *)
(* than the one it holds now.                                              *)
RenewalsAreOwn ==
    \A w \in Writer, c \in Call : call[w][c].at = "renew" =>
        /\ call[w][c].etag <= leaseClock
        /\ Held(w) => call[w][c].etag <= lz[w].etag
        /\ call[w][c].etag = leaseObj.etag
              => call[w][c].token = leaseObj.token /\ leaseObj.holder = w

Acquiring == {"idle", "create", "inspect", "recreate", "takeover", "locked"}

(* A writer that is still acquiring holds nothing and validates nothing.   *)
HeldAfterAcquire ==
    \A w \in Writer : lpc[w] \in Acquiring =>
        ~Held(w) /\ \A c \in Call : call[w][c] = NoCall

LeaseInv ==
    LeaseTypeOK /\ EtagsDrawn /\ EtagMeansToken /\ RenewalsAreOwn /\ HeldAfterAcquire

----------------------------------------------------------------------------
(* The fields of a lease object are of their types.                        *)
LEMMA ObjectFields ==
    ASSUME NEW o \in LeaseObject
    PROVE  /\ o.etag \in Nat /\ o.token \in Nat
           /\ o.etag # 0 => o \in [etag : Pos, token : Pos, holder : Writer, expired : BOOLEAN]
<1>1. CASE o = Absent
  BY <1>1 DEF Absent
<1>2. CASE o \in [etag : Pos, token : Pos, holder : Writer, expired : BOOLEAN]
  BY <1>2 DEF Pos
<1> QED
  BY <1>1, <1>2 DEF LeaseObject

(* The version and the token of a writer are numbers, positive while it    *)
(* holds the lease.                                                        *)
LEMMA FieldTypes ==
    ASSUME LeaseTypeOK, NEW w \in Writer
    PROVE  /\ lz[w].etag \in Nat /\ lz[w].token \in Nat
           /\ Held(w) => lz[w].etag \in Pos /\ lz[w].token \in Pos
<1>1. CASE lz[w] = Null
  BY <1>1 DEF Null, Held
<1>2. CASE lz[w] \in [etag : Pos, token : Pos]
  BY <1>2 DEF Pos
<1> QED
  BY <1>1, <1>2 DEF LeaseTypeOK

(* A renewal under way carries a positive version and token.               *)
LEMMA RenewalTypes ==
    ASSUME LeaseTypeOK, NEW w \in Writer, NEW c \in Call, call[w][c].at = "renew"
    PROVE  call[w][c].etag \in Pos /\ call[w][c].token \in Pos
<1>1. call[w][c] \in CallState
  BY DEF LeaseTypeOK
<1>2. call[w][c] # NoCall /\ call[w][c] \notin [at : {"headed"}, etag : Nat, token : {0}]
  BY DEF NoCall
<1>3. call[w][c] \in [at : {"renew"}, etag : Pos, token : Pos]
  BY <1>1, <1>2 DEF CallState
<1> QED
  BY <1>3

(* A take-over writes a token above the one it has seen.                   *)
LEMMA TakeoverOutranks ==
    ASSUME LeaseTypeOK, NEW w \in Writer
    PROVE  /\ TakeoverToken(w) \in Pos
           /\ TakeoverToken(w) > seen[w].token
           /\ TakeoverToken(w) > floor[w]
<1>1. seen[w].token \in Nat /\ floor[w] \in Nat
  BY ObjectFields DEF LeaseTypeOK
<1> QED
  BY <1>1 DEF TakeoverToken, Larger, Pos

(* A PUT of lease.json keeps the object well typed.                        *)
LEMMA PutLeaseType ==
    ASSUME LeaseTypeOK, NEW w \in Writer, NEW t \in Pos, PutLease(w, t)
    PROVE  leaseObj' \in LeaseObject /\ leaseClock' \in Nat
<1>1. leaseClock + 1 \in Pos
  BY DEF LeaseTypeOK, Pos
<1>2. leaseObj' \in [etag : Pos, token : Pos, holder : Writer, expired : BOOLEAN]
  BY <1>1 DEF PutLease
<1> QED
  BY <1>1, <1>2 DEF PutLease, LeaseObject, Pos

(* So does the writer that stores the version it has put.                  *)
LEMMA KeepType ==
    ASSUME LeaseTypeOK, NEW w \in Writer, NEW t \in Pos, Keep(w, t)
    PROVE  lz' \in [Writer -> {Null} \cup [etag : Pos, token : Pos]]
<1>1. [etag |-> leaseClock + 1, token |-> t] \in [etag : Pos, token : Pos]
  BY DEF LeaseTypeOK, Pos
<1> QED
  BY <1>1 DEF Keep, LeaseTypeOK

(* And the loop of acquire().                                              *)
LEMMA NextAttemptType ==
    ASSUME LeaseTypeOK, NEW w \in Writer, NextAttempt(w),
           leaseObj' \in LeaseObject, leaseClock' \in Nat,
           UNCHANGED <<lz, tookOver, floor, call>>
    PROVE  LeaseTypeOK'
<1>1. tries' \in [Writer -> Nat]
  <2>1. tries[w] + 1 \in Nat
    BY DEF LeaseTypeOK
  <2> QED
    BY <2>1 DEF NextAttempt, AcquireEnds, LeaseTypeOK
<1>2. seen' \in [Writer -> LeaseObject]
  BY DEF NextAttempt, AcquireEnds, LeaseTypeOK, LeaseObject
<1>3. lpc' \in [Writer -> LeasePc]
  BY DEF NextAttempt, LeaseTypeOK, LeasePc
<1> QED
  BY <1>1, <1>2, <1>3 DEF LeaseTypeOK

(* A PUT answered 412 keeps the types, whether it has landed or not.       *)
LEMMA RefusedType ==
    ASSUME LeaseTypeOK, NEW w \in Writer, NEW t \in Pos, NEW h \in BOOLEAN, Refused(w, h, t)
    PROVE  leaseObj' \in LeaseObject /\ leaseClock' \in Nat
BY PutLeaseType DEF Refused, LeaseTypeOK

(* An acquiring PUT keeps the types.                                       *)
LEMMA AcquirePutType ==
    ASSUME LeaseTypeOK, NEW w \in Writer, NEW t \in Pos, NEW b \in BOOLEAN,
           AcquirePut(w, t, b), UNCHANGED <<floor, call>>
    PROVE  LeaseTypeOK'
<1>1. leaseObj' \in LeaseObject /\ leaseClock' \in Nat
  BY PutLeaseType DEF AcquirePut
<1>2. lpc' \in [Writer -> LeasePc]
  BY SMT DEF LeaseTypeOK, AcquirePut, LeasePc
<1>3. lz' \in [Writer -> {Null} \cup [etag : Pos, token : Pos]]
  BY KeepType DEF LeaseTypeOK, AcquirePut
<1>4. tookOver' \in [Writer -> BOOLEAN]
  BY SMT DEF LeaseTypeOK, AcquirePut
<1>5. seen' \in [Writer -> LeaseObject] /\ tries' \in [Writer -> Nat]
  BY SMT DEF LeaseTypeOK, AcquirePut, AcquireEnds, LeaseObject
<1> QED
  BY <1>1, <1>2, <1>3, <1>4, <1>5 DEF LeaseTypeOK

(* A conditional write of the held lease keeps the types.                  *)
LEMMA CasHeldType ==
    ASSUME LeaseTypeOK, NEW w \in Writer, NEW e \in Pos, NEW t \in Pos, CasHeld(w, e, t)
    PROVE  /\ leaseObj' \in LeaseObject
           /\ leaseClock' \in Nat
           /\ lz' \in [Writer -> {Null} \cup [etag : Pos, token : Pos]]
<1>1. leaseObj' \in LeaseObject /\ leaseClock' \in Nat
  BY PutLeaseType DEF CasHeld, Refused, LeaseTypeOK
<1>2. Keep(w, t) => lz' \in [Writer -> {Null} \cup [etag : Pos, token : Pos]]
  BY KeepType
<1>3. lz' \in [Writer -> {Null} \cup [etag : Pos, token : Pos]]
  BY <1>2 DEF CasHeld, Drop, LeaseTypeOK
<1> QED
  BY <1>1, <1>3

(* Every step of a writer keeps the types.                                 *)
LEMMA MoveType ==
    ASSUME LeaseAssumption, LeaseTypeOK, NEW w \in Writer, NEW f \in Nat, Move(w, f)
    PROVE  LeaseTypeOK'
<1>1. CASE AcquireStart(w, f)
  BY <1>1 DEF LeaseTypeOK, AcquireStart, LeasePc
<1>2. CASE UpgradeToken(w, f)
  <2>1. lz[w].etag \in Pos /\ f + 1 \in Pos
    BY <1>2, FieldTypes DEF UpgradeToken, Pos
  <2> QED
    BY <1>2, <2>1, CasHeldType DEF LeaseTypeOK, UpgradeToken
<1>3. CASE AcquireStep(w)
  <2>1. CASE Create(w)
    <3>1. CASE AcquirePut(w, floor[w] + 1, FALSE)
      <4>1. floor[w] + 1 \in Pos
        BY SMT DEF LeaseTypeOK, Pos
      <4> QED
        BY <2>1, <3>1, <4>1, AcquirePutType DEF Create
    <3>2. CASE Refused(w, leaseObj.etag = 0, floor[w] + 1)
               /\ lpc' = [lpc EXCEPT ![w] = "inspect"] /\ UNCHANGED <<lz, tookOver, seen, tries>>
      <4>1. floor[w] + 1 \in Pos
        BY SMT DEF LeaseTypeOK, Pos
      <4>2. leaseObj' \in LeaseObject /\ leaseClock' \in Nat
        BY <3>2, <4>1, RefusedType
      <4> QED
        BY <2>1, <3>2, <4>2 DEF Create, LeaseTypeOK, LeasePc
    <3> QED
      BY <2>1, <3>1, <3>2 DEF Create
  <2>2. CASE Inspect(w)
    BY <2>2 DEF Inspect, LeaseTypeOK, LeasePc
  <2>3. CASE Recreate(w)
    <3>1. CASE AcquirePut(w, floor[w] + 1, FALSE)
      <4>1. floor[w] + 1 \in Pos
        BY SMT DEF LeaseTypeOK, Pos
      <4> QED
        BY <2>3, <3>1, <4>1, AcquirePutType DEF Recreate
    <3>2. CASE Refused(w, leaseObj.etag = 0, floor[w] + 1)
               /\ NextAttempt(w) /\ UNCHANGED <<lz, tookOver>>
      <4>1. floor[w] + 1 \in Pos
        BY SMT DEF LeaseTypeOK, Pos
      <4>2. leaseObj' \in LeaseObject /\ leaseClock' \in Nat
        BY <3>2, <4>1, RefusedType
      <4> QED
        BY <2>3, <3>2, <4>2, NextAttemptType DEF Recreate
    <3> QED
      BY <2>3, <3>1, <3>2 DEF Recreate
  <2>4. CASE TakeOver(w)
    <3>1. CASE AcquirePut(w, TakeoverToken(w), TRUE)
      BY <2>4, <3>1, TakeoverOutranks, AcquirePutType DEF TakeOver
    <3>2. CASE Refused(w, leaseObj.etag = seen[w].etag, TakeoverToken(w))
               /\ NextAttempt(w) /\ UNCHANGED <<lz, tookOver>>
      <4>1. leaseObj' \in LeaseObject /\ leaseClock' \in Nat
        BY <3>2, TakeoverOutranks, RefusedType
      <4> QED
        BY <2>4, <3>2, <4>1, NextAttemptType DEF TakeOver
    <3> QED
      BY <2>4, <3>1, <3>2 DEF TakeOver
  <2>5. CASE Retry(w)
    BY <2>5, SMT DEF Retry, AcquireEnds, LeaseTypeOK, LeasePc, LeaseObject
  <2> QED
    BY <1>3, <2>1, <2>2, <2>3, <2>4, <2>5 DEF AcquireStep
<1>4. CASE ValidateStep(w)
  <2>1. PICK c \in Call : ValidateHead(w, c) \/ ValidateCheck(w, c) \/ RenewPut(w, c)
    BY <1>4 DEF ValidateStep
  <2>2. leaseObj.etag \in Nat
    BY ObjectFields DEF LeaseTypeOK
  <2>3. CASE ValidateHead(w, c)
    <3>1. [at |-> "headed", etag |-> leaseObj.etag, token |-> 0] \in CallState
      BY <2>2 DEF CallState
    <3> QED
      BY <2>3, <3>1 DEF ValidateHead, LeaseTypeOK
  <2>4. CASE ValidateCheck(w, c)
    <3>1. /\ call[w][c] # NoCall
          /\ Drop(w) => lz' \in [Writer -> {Null} \cup [etag : Pos, token : Pos]]
      BY <2>4 DEF ValidateCheck, Drop, LeaseTypeOK, NoCall
    <3>2. Held(w) => [at |-> "renew", etag |-> lz[w].etag, token |-> lz[w].token] \in CallState
      BY FieldTypes DEF CallState
    <3>3. NoCall \in CallState
      BY DEF CallState
    <3>4. PICK n \in CallState : call' = [call EXCEPT ![w][c] = n]
      BY <2>4, <3>2, <3>3 DEF ValidateCheck
    <3>5. call' \in [Writer -> [Call -> CallState]]
      BY <3>4 DEF LeaseTypeOK
    <3> QED
      BY <2>4, <3>1, <3>5 DEF ValidateCheck, LeaseTypeOK
  <2>5. CASE RenewPut(w, c)
    <3>1. call[w][c].etag \in Pos /\ call[w][c].token \in Pos
      BY <2>5, RenewalTypes DEF RenewPut
    <3>2. call' \in [Writer -> [Call -> CallState]]
      BY <2>5 DEF RenewPut, LeaseTypeOK, CallState
    <3> QED
      BY <2>5, <3>1, <3>2, CasHeldType DEF RenewPut, LeaseTypeOK
  <2> QED
    BY <2>1, <2>3, <2>4, <2>5
<1>5. CASE ReleaseStep(w)
  <2>1. CASE ReleaseHead(w)
    <3>1. lpc' \in [Writer -> LeasePc]
      BY <2>1 DEF ReleaseHead, LeaseTypeOK, LeasePc
    <3>2. seen' \in [Writer -> LeaseObject]
      BY <2>1 DEF ReleaseHead, LeaseTypeOK
    <3> QED
      BY <2>1, <3>1, <3>2 DEF ReleaseHead, LeaseTypeOK
  <2>2. CASE ReleaseCompare(w)
    BY <2>2 DEF ReleaseCompare, Drop, LeaseTypeOK, LeasePc
  <2>3. CASE ReleaseDelete(w)
    BY <2>3 DEF ReleaseDelete, Drop, LeaseTypeOK, LeasePc, LeaseObject
  <2> QED
    BY <1>5, <2>1, <2>2, <2>3 DEF ReleaseStep
<1>6. CASE LeaseCrash(w)
  BY <1>6, SMT DEF LeaseCrash, Drop, AcquireEnds, LeaseTypeOK, LeasePc, LeaseObject, CallState
<1> QED
  BY <1>1, <1>2, <1>3, <1>4, <1>5, <1>6 DEF Move

(* Time passing keeps the types.                                           *)
LEMMA ExpireType ==
    ASSUME LeaseTypeOK, Expire
    PROVE  LeaseTypeOK'
<1>1. leaseObj' \in LeaseObject
  BY ObjectFields DEF Expire, LeaseTypeOK, LeaseObject
<1> QED
  BY <1>1 DEF Expire, LeaseTypeOK

(* The lease object and every process's view of it are well-typed, always. *)
THEOREM LeaseTypeCorrect == LeaseSpec => []LeaseTypeOK
<1>1. LeaseInit => LeaseTypeOK
  BY SMT DEF LeaseInit, LeaseTypeOK, LeaseObject, LeasePc, CallState
<1>2. LeaseTypeOK /\ [LeaseNext]_leaseVars => LeaseTypeOK'
  <2> SUFFICES ASSUME LeaseTypeOK, [LeaseNext]_leaseVars
               PROVE  LeaseTypeOK'
    OBVIOUS
  <2>1. ASSUME NEW w \in Writer, NEW f \in Floor, Move(w, f)
        PROVE  LeaseTypeOK'
    BY <2>1, MoveType, LeaseAssumption DEF LeaseAssumption
  <2>2. ASSUME NEW w \in Writer,
               AcquireStep(w) \/ ValidateStep(w) \/ ReleaseStep(w) \/ LeaseCrash(w)
        PROVE  LeaseTypeOK'
    <3>1. Move(w, 0)
      BY <2>2 DEF Move
    <3> QED
      BY <3>1, MoveType, LeaseAssumption
  <2>3. CASE UNCHANGED leaseVars
    BY <2>3 DEF leaseVars, LeaseTypeOK
  <2> QED
    BY <2>1, <2>2, <2>3, ExpireType DEF LeaseNext, Move
<1> QED
  BY <1>1, <1>2, PTL DEF LeaseSpec

----------------------------------------------------------------------------
(* A PUT by w gives the object an etag nobody has seen, so that every      *)
(* version known before it stops matching.                                 *)
LEMMA PutIsNews ==
    ASSUME LeaseInv, NEW w \in Writer, NEW t \in Pos, PutLease(w, t)
    PROVE  /\ leaseClock' = leaseClock + 1 /\ leaseClock \in Nat
           /\ leaseObj'.etag = leaseClock + 1 /\ leaseObj'.token = t /\ leaseObj'.holder = w
           /\ \A v \in Writer : /\ lz[v].etag # leaseObj'.etag
                                 /\ seen[v].etag # leaseObj'.etag
           /\ \A v \in Writer, c \in Call :
                 call[v][c].at = "renew" => call[v][c].etag # leaseObj'.etag
<1>1. leaseClock \in Nat /\ leaseClock + 1 \in Nat /\ leaseClock < leaseClock + 1
  BY DEF LeaseInv, LeaseTypeOK
<1>2. /\ leaseClock' = leaseClock + 1
      /\ leaseObj'.etag = leaseClock + 1 /\ leaseObj'.token = t /\ leaseObj'.holder = w
  BY DEF PutLease
<1>3. \A v \in Writer : lz[v].etag # leaseClock + 1 /\ seen[v].etag # leaseClock + 1
  BY <1>1 DEF LeaseInv, EtagsDrawn
<1>4. \A v \in Writer, c \in Call :
        call[v][c].at = "renew" => call[v][c].etag # leaseClock + 1
  BY <1>1 DEF LeaseInv, RenewalsAreOwn
<1> QED
  BY <1>1, <1>2, <1>3, <1>4

(* Steps that leave the object and everybody's fields alone, or forget     *)
(* them, keep it too.                                                      *)
LEMMA ForgetInv ==
    ASSUME LeaseInv, LeaseTypeOK', NEW w \in Writer,
           leaseClock' = leaseClock,
           \/ leaseObj' = leaseObj
           \/ leaseObj' = Absent
           \/ leaseObj' = [leaseObj EXCEPT !.expired = TRUE] /\ leaseObj.etag # 0,
           \A v \in Writer : lz'[v] = lz[v] \/ lz'[v] = Null,
           \A v \in Writer : \/ seen'[v] = seen[v]
                             \/ seen'[v] = Absent
                             \/ seen'[v] = leaseObj /\ leaseObj' = leaseObj,
           \A v \in Writer, c \in Call :
               \/ call'[v][c] = call[v][c]
               \/ v = w /\ call'[v][c].at # "renew" /\ lpc'[w] \notin Acquiring
               \/ call'[v][c] = NoCall
               \/ /\ v = w /\ Held(w) /\ lpc'[w] \notin Acquiring /\ leaseObj' = leaseObj
                  /\ call'[v][c].etag = lz[w].etag /\ call'[v][c].token = lz[w].token,
           \A v \in Writer : lpc'[v] \in Acquiring => lpc[v] \in Acquiring
    PROVE  LeaseInv'
<1>1. /\ leaseClock \in Nat
      /\ \A v \in Writer : /\ lz[v].etag \in Nat /\ seen[v].etag \in Nat
                            /\ seen[v].token \in Nat
      /\ leaseObj.etag \in Nat /\ leaseObj.token \in Nat
      /\ leaseObj.etag = 0 => leaseObj.token = 0
      /\ leaseObj'.etag # 0 => /\ leaseObj'.etag = leaseObj.etag
                               /\ leaseObj'.token = leaseObj.token
                               /\ leaseObj'.holder = leaseObj.holder
  <2>1. leaseObj.etag = 0 => leaseObj = Absent
    BY DEF LeaseInv, LeaseTypeOK, LeaseObject, Pos
  <2>2. leaseObj = Absent \/ leaseObj \in [etag : Pos, token : Pos, holder : Writer, expired : BOOLEAN]
    BY DEF LeaseInv, LeaseTypeOK, LeaseObject
  <2>3. leaseObj'.etag # 0 => /\ leaseObj'.etag = leaseObj.etag
                             /\ leaseObj'.token = leaseObj.token
                             /\ leaseObj'.holder = leaseObj.holder
    BY <2>1, <2>2 DEF Absent
  <2> QED
    BY <2>1, <2>3, FieldTypes, ObjectFields DEF LeaseInv, LeaseTypeOK, Absent
<1>2. EtagsDrawn'
  BY <1>1 DEF EtagsDrawn, LeaseInv, Null, Absent
<1>3. \A v \in Writer : seen[v].etag = 0 => seen[v].token = 0
  BY DEF LeaseInv, LeaseTypeOK, LeaseObject, Pos, Absent
<1>4. leaseObj'.etag = 0 => leaseObj'.token = 0
  BY DEF LeaseTypeOK, LeaseObject, Pos, Absent
<1>5. EtagMeansToken'
  <2>1. \A v \in Writer : Owns(v)' => lz'[v].token = leaseObj'.token /\ leaseObj'.holder = v
    BY <1>1 DEF EtagMeansToken, Owns, Held, LeaseInv, Null
  <2>2. \A v \in Writer : seen'[v].etag = leaseObj'.etag => seen'[v].token = leaseObj'.token
    BY <1>1, <1>3, <1>4 DEF EtagMeansToken, LeaseInv, Absent
  <2> QED
    BY <2>1, <2>2 DEF EtagMeansToken
<1>6. RenewalsAreOwn'
  <2> SUFFICES ASSUME NEW v \in Writer, NEW c \in Call, call'[v][c].at = "renew"
               PROVE  /\ call'[v][c].etag <= leaseClock'
                      /\ lz'[v].etag # 0 => call'[v][c].etag <= lz'[v].etag
                      /\ call'[v][c].etag = leaseObj'.etag
                           => call'[v][c].token = leaseObj'.token /\ leaseObj'.holder = v
    BY DEF RenewalsAreOwn, Held
  <2>1. CASE call'[v][c] = call[v][c]
    <3>1. call[v][c].etag # 0
      BY <2>1, RenewalTypes DEF LeaseInv, Pos
    <3> QED
      BY <1>1, <2>1, <3>1 DEF RenewalsAreOwn, Held, LeaseInv, Null
  <2>2. CASE /\ v = w /\ Held(w) /\ leaseObj' = leaseObj
             /\ call'[v][c].etag = lz[w].etag /\ call'[v][c].token = lz[w].token
    BY <1>1, <2>2 DEF EtagsDrawn, EtagMeansToken, Owns, Held, LeaseInv, Null
  <2> QED
    BY <2>1, <2>2 DEF NoCall
<1>7. HeldAfterAcquire'
  BY DEF HeldAfterAcquire, Held, LeaseInv, Null
<1> QED
  BY <1>2, <1>5, <1>6, <1>7 DEF LeaseInv

(* A PUT that lands keeps the invariant, whether its writer stores the new *)
(* version, never hears of it or drops its lease over a 412.               *)
LEMMA LandedPutInv ==
    ASSUME LeaseInv, LeaseTypeOK', NEW w \in Writer, NEW t \in Pos, PutLease(w, t),
           \A v \in Writer : \/ lz'[v] = lz[v]
                             \/ v = w /\ lz'[v].etag = leaseClock + 1 /\ lz'[v].token = t
                             \/ lz'[v] = Null,
           \A v \in Writer : seen'[v] = seen[v] \/ seen'[v] = Absent,
           \A v \in Writer, c \in Call : call'[v][c] = call[v][c] \/ call'[v][c] = NoCall,
           \A v \in Writer : lpc'[v] \in Acquiring => lpc[v] \in Acquiring /\ lz'[v] = lz[v]
    PROVE  LeaseInv'
<1>1. /\ leaseClock' = leaseClock + 1 /\ leaseClock \in Nat
      /\ leaseObj'.etag = leaseClock + 1 /\ leaseObj'.token = t /\ leaseObj'.holder = w
      /\ \A v \in Writer : /\ lz[v].etag # leaseObj'.etag
                            /\ seen[v].etag # leaseObj'.etag
      /\ \A v \in Writer, c \in Call :
            call[v][c].at = "renew" => call[v][c].etag # leaseObj'.etag
  BY PutIsNews
<1>2. \A v \in Writer : lz[v].etag \in Nat /\ seen[v].etag \in Nat
  BY FieldTypes, ObjectFields DEF LeaseInv, LeaseTypeOK
<1>3. EtagsDrawn'
  <2>1. \A v \in Writer : lz[v].etag <= leaseClock /\ seen[v].etag <= leaseClock
    BY DEF LeaseInv, EtagsDrawn
  <2> QED
    BY <1>1, <1>2, <2>1 DEF EtagsDrawn, Absent, Null
<1>4. EtagMeansToken'
  <2>1. \A v \in Writer : Owns(v)' => lz'[v].token = leaseObj'.token /\ leaseObj'.holder = v
    BY <1>1 DEF Owns, Held, Null
  <2>2. \A v \in Writer : seen'[v].etag # leaseObj'.etag
    BY <1>1 DEF Absent
  <2> QED
    BY <2>1, <2>2 DEF EtagMeansToken
<1>5. RenewalsAreOwn'
  <2> SUFFICES ASSUME NEW v \in Writer, NEW c \in Call, call[v][c].at = "renew",
                      call'[v][c] = call[v][c]
               PROVE  /\ call[v][c].etag <= leaseClock'
                      /\ lz'[v].etag # 0 => call[v][c].etag <= lz'[v].etag
                      /\ call[v][c].etag # leaseObj'.etag
    BY DEF RenewalsAreOwn, Held, NoCall
  <2>1. call[v][c].etag \in Nat /\ call[v][c].etag <= leaseClock
    BY RenewalTypes DEF LeaseInv, RenewalsAreOwn, Pos
  <2>2. lz[v].etag # 0 => call[v][c].etag <= lz[v].etag
    BY DEF LeaseInv, RenewalsAreOwn, Held
  <2> QED
    BY <1>1, <1>2, <2>1, <2>2 DEF Null
<1>6. HeldAfterAcquire'
  BY DEF HeldAfterAcquire, Held, LeaseInv
<1> QED
  BY <1>3, <1>4, <1>5, <1>6 DEF LeaseInv

(* So an acquiring PUT keeps it ...                                        *)
LEMMA AcquirePutInv ==
    ASSUME LeaseInv, LeaseTypeOK', NEW w \in Writer, NEW t \in Pos, NEW b \in BOOLEAN,
           AcquirePut(w, t, b), lpc[w] \in {"create", "recreate", "takeover"},
           UNCHANGED <<floor, call>>
    PROVE  LeaseInv'
<1>1. /\ lz \in [Writer -> {Null} \cup [etag : Pos, token : Pos]]
      /\ seen \in [Writer -> LeaseObject]
      /\ lpc \in [Writer -> LeasePc]
  BY DEF LeaseInv, LeaseTypeOK
<1>2. PutLease(w, t)
  BY DEF AcquirePut
<1>3. \A v \in Writer : \/ lz'[v] = lz[v]
                        \/ v = w /\ lz'[v].etag = leaseClock + 1 /\ lz'[v].token = t
  BY <1>1 DEF AcquirePut, Keep
<1>4. \A v \in Writer : seen'[v] = seen[v] \/ seen'[v] = Absent
  BY <1>1 DEF AcquirePut, AcquireEnds
<1>5. \A v \in Writer : lpc'[v] \in Acquiring => lpc[v] \in Acquiring /\ lz'[v] = lz[v]
  BY <1>1 DEF AcquirePut, Keep, Acquiring
<1> QED
  BY <1>2, <1>3, <1>4, <1>5, LandedPutInv

(* ... and one that is refused, of a writer that goes on acquiring or      *)
(* fails.                                                                  *)
LEMMA RefusedInv ==
    ASSUME LeaseInv, LeaseTypeOK', NEW w \in Writer, NEW t \in Pos, NEW h \in BOOLEAN,
           Refused(w, h, t), UNCHANGED <<lz, call>>,
           \A v \in Writer : seen'[v] = seen[v] \/ seen'[v] = Absent,
           \A v \in Writer : lpc'[v] \in Acquiring => lpc[v] \in Acquiring
    PROVE  LeaseInv'
<1>1. CASE UNCHANGED <<leaseObj, leaseClock>>
  BY <1>1, ForgetInv
<1>2. CASE PutLease(w, t)
  BY <1>2, LandedPutInv
<1> QED
  BY <1>1, <1>2 DEF Refused

(* So does a conditional write of the held lease, by a writer that is past *)
(* acquiring.                                                              *)
LEMMA CasHeldInv ==
    ASSUME LeaseInv, LeaseTypeOK', NEW w \in Writer, NEW e \in Pos, NEW t \in Pos,
           CasHeld(w, e, t), lpc[w] \notin Acquiring, UNCHANGED <<lpc, seen>>,
           \A v \in Writer, c \in Call :
               call'[v][c] = call[v][c] \/ (v = w /\ call'[v][c] = NoCall)
    PROVE  LeaseInv'
<1>1. lz \in [Writer -> {Null} \cup [etag : Pos, token : Pos]]
  BY DEF LeaseInv, LeaseTypeOK
<1>2. CASE PutLease(w, t)
  <2>1. \A v \in Writer :
           \/ lz'[v] = lz[v]
           \/ v = w /\ lz'[v].etag = leaseClock + 1 /\ lz'[v].token = t
           \/ v = w /\ lz'[v] = Null
    BY <1>1, <1>2 DEF CasHeld, Keep, Drop
  <2> QED
    BY <1>2, <2>1, LandedPutInv
<1>3. CASE Drop(w) /\ UNCHANGED <<leaseObj, leaseClock>>
  <2>1. \A v \in Writer : lz'[v] = lz[v] \/ lz'[v] = Null
    BY <1>1, <1>3 DEF Drop
  <2> QED
    BY <1>3, <2>1, ForgetInv
<1> QED
  BY <1>2, <1>3 DEF CasHeld, Refused

(* Replacing one call changes the calls of that writer only.               *)
LEMMA CallUpdate ==
    ASSUME call \in [Writer -> [Call -> CallState]], NEW w \in Writer, NEW c \in Call, NEW n,
           call' = [call EXCEPT ![w][c] = n],
           NEW v \in Writer, NEW d \in Call
    PROVE  call'[v][d] = call[v][d] \/ (v = w /\ call'[v][d] = n)
<1>1. call[w] \in [Call -> CallState] /\ call[v] \in [Call -> CallState]
  OBVIOUS
<1>2. call' = [call EXCEPT ![w] = [call[w] EXCEPT ![c] = n]]
  OBVIOUS
<1>3. CASE v = w
  <2>1. call'[v] = [call[w] EXCEPT ![c] = n]
    BY <1>2, <1>3
  <2> QED
    BY <1>1, <1>3, <2>1
<1>4. CASE v # w
  <2>1. call'[v] = call[v]
    BY <1>2, <1>4
  <2> QED
    BY <2>1
<1> QED
  BY <1>3, <1>4

(* Every step of a writer keeps the invariant.                             *)
LEMMA MoveInv ==
    ASSUME LeaseAssumption, LeaseInv, NEW w \in Writer, NEW f \in Nat, Move(w, f)
    PROVE  LeaseInv'
<1>1. LeaseTypeOK'
  BY MoveType DEF LeaseInv
<1>2. /\ lz \in [Writer -> {Null} \cup [etag : Pos, token : Pos]]
      /\ seen \in [Writer -> LeaseObject]
      /\ lpc \in [Writer -> LeasePc]
      /\ call \in [Writer -> [Call -> CallState]]
      /\ floor \in [Writer -> Nat]
  BY DEF LeaseInv, LeaseTypeOK
<1>3. CASE AcquireStart(w, f)
  BY <1>1, <1>2, <1>3, ForgetInv DEF AcquireStart, Acquiring
<1>4. CASE UpgradeToken(w, f)
  <2>1. lz[w].etag \in Pos /\ f + 1 \in Pos
    BY <1>4, FieldTypes DEF UpgradeToken, LeaseInv, Pos
  <2> QED
    <3>1. lpc[w] \notin Acquiring /\ call' = call /\ CasHeld(w, lz[w].etag, f + 1)
      BY <1>4 DEF UpgradeToken, Acquiring
    <3> QED
      BY <1>1, <1>4, <2>1, <3>1, CasHeldInv DEF UpgradeToken
<1>5. CASE AcquireStep(w)
  <2>1. floor[w] + 1 \in Pos
    BY <1>2 DEF Pos
  <2>2. ASSUME NEW t \in Pos, NEW h \in BOOLEAN, Refused(w, h, t), NextAttempt(w),
               UNCHANGED <<lz, tookOver, floor, call>>, lpc[w] \in {"recreate", "takeover"}
        PROVE  LeaseInv'
    <3>1. /\ \A v \in Writer : seen'[v] = seen[v] \/ seen'[v] = Absent
          /\ \A v \in Writer : lpc'[v] \in Acquiring => lpc[v] \in Acquiring
      BY <1>2, <2>2 DEF NextAttempt, AcquireEnds, Acquiring
    <3> QED
      BY <1>1, <2>2, <3>1, RefusedInv
  <2>3. CASE Create(w)
    <3>1. CASE AcquirePut(w, floor[w] + 1, FALSE)
      BY <1>1, <2>1, <2>3, <3>1, AcquirePutInv DEF Create
    <3>2. CASE Refused(w, leaseObj.etag = 0, floor[w] + 1)
               /\ lpc' = [lpc EXCEPT ![w] = "inspect"] /\ UNCHANGED <<lz, seen>>
      <4>1. \A v \in Writer : lpc'[v] \in Acquiring => lpc[v] \in Acquiring
        BY <1>2, <2>3, <3>2 DEF Create, Acquiring
      <4> QED
        BY <1>1, <2>1, <2>3, <3>2, <4>1, RefusedInv DEF Create
    <3> QED
      BY <2>3, <3>1, <3>2 DEF Create
  <2>4. CASE Inspect(w)
    <3>1. /\ \A v \in Writer : seen'[v] = seen[v] \/ seen'[v] = leaseObj
          /\ \A v \in Writer : lpc'[v] \in Acquiring => lpc[v] \in Acquiring
      BY <1>2, <2>4 DEF Inspect, Acquiring
    <3> QED
      BY <1>1, <2>4, <3>1, ForgetInv DEF Inspect
  <2>5. CASE Recreate(w)
    BY <1>1, <2>1, <2>2, <2>5, AcquirePutInv DEF Recreate
  <2>6. CASE TakeOver(w)
    <3>1. TakeoverToken(w) \in Pos
      BY TakeoverOutranks DEF LeaseInv
    <3> QED
      BY <1>1, <2>2, <2>6, <3>1, AcquirePutInv DEF TakeOver
  <2>7. CASE Retry(w)
    <3>1. /\ \A v \in Writer : seen'[v] = seen[v] \/ seen'[v] = Absent
          /\ \A v \in Writer : lpc'[v] \in Acquiring => lpc[v] \in Acquiring
      BY <1>2, <2>7 DEF Retry, AcquireEnds, Acquiring
    <3> QED
      BY <1>1, <2>7, <3>1, ForgetInv DEF Retry
  <2> QED
    BY <1>5, <2>3, <2>4, <2>5, <2>6, <2>7 DEF AcquireStep
<1>6. CASE ValidateStep(w)
  <2>1. PICK c \in Call : ValidateHead(w, c) \/ ValidateCheck(w, c) \/ RenewPut(w, c)
    BY <1>6 DEF ValidateStep
  <2>2. call[w][c] # NoCall => lpc[w] \notin Acquiring
    BY DEF LeaseInv, HeldAfterAcquire
  <2>3. CASE ValidateHead(w, c)
    <3> DEFINE n == [at |-> "headed", etag |-> leaseObj.etag, token |-> 0]
    <3>a. n.at # "renew" /\ call' = [call EXCEPT ![w][c] = n]
      BY <2>3 DEF ValidateHead
    <3> HIDE DEF n
    <3>1. \A v \in Writer, d \in Call :
              call'[v][d] = call[v][d] \/ (v = w /\ call'[v][d].at # "renew")
      BY <1>2, <3>a, CallUpdate
    <3>2. lpc' = lpc /\ lpc[w] \notin Acquiring
      BY <2>3 DEF ValidateHead, Acquiring
    <3> QED
      BY <1>1, <2>3, <3>1, <3>2, ForgetInv DEF ValidateHead
  <2>4. CASE ValidateCheck(w, c)
    <3>1. lpc' = lpc /\ lpc[w] \notin Acquiring
      BY <2>2, <2>4 DEF ValidateCheck, NoCall
    <3>2. \A v \in Writer : lz'[v] = lz[v] \/ lz'[v] = Null
      BY <1>2, <2>4 DEF ValidateCheck, Drop
    <3>3. \A v \in Writer, d \in Call :
              \/ call'[v][d] = call[v][d]
              \/ call'[v][d] = NoCall
              \/ /\ v = w /\ Held(w)
                 /\ call'[v][d].etag = lz[w].etag /\ call'[v][d].token = lz[w].token
      BY <1>2, <2>4 DEF ValidateCheck
    <3> QED
      BY <1>1, <2>4, <3>1, <3>2, <3>3, ForgetInv DEF ValidateCheck
  <2>5. CASE RenewPut(w, c)
    <3>1. call[w][c].etag \in Pos /\ call[w][c].token \in Pos
      BY <2>5, RenewalTypes DEF RenewPut, LeaseInv
    <3>2. lpc[w] \notin Acquiring
      BY <2>2, <2>5 DEF RenewPut, NoCall
    <3>3. \A v \in Writer, d \in Call :
              call'[v][d] = call[v][d] \/ (v = w /\ call'[v][d] = NoCall)
      BY <1>2, <2>5, CallUpdate DEF RenewPut
    <3> QED
      BY <1>1, <2>5, <3>1, <3>2, <3>3, CasHeldInv DEF RenewPut
  <2> QED
    BY <2>1, <2>3, <2>4, <2>5
<1>7. CASE ReleaseStep(w)
  <2>1. CASE ReleaseHead(w)
    <3>1. /\ \A v \in Writer : seen'[v] = seen[v] \/ seen'[v] = leaseObj
          /\ \A v \in Writer : lpc'[v] \in Acquiring => lpc[v] \in Acquiring
      BY <1>2, <2>1 DEF ReleaseHead, Acquiring
    <3> QED
      BY <1>1, <2>1, <3>1, ForgetInv DEF ReleaseHead
  <2>2. CASE ReleaseCompare(w)
    <3>1. /\ \A v \in Writer : lz'[v] = lz[v] \/ lz'[v] = Null
          /\ \A v \in Writer : lpc'[v] \in Acquiring => lpc[v] \in Acquiring
      BY <1>2, <2>2 DEF ReleaseCompare, Drop, Acquiring
    <3> QED
      BY <1>1, <2>2, <3>1, ForgetInv DEF ReleaseCompare
  <2>3. CASE ReleaseDelete(w)
    <3>1. /\ \A v \in Writer : lz'[v] = lz[v] \/ lz'[v] = Null
          /\ \A v \in Writer : lpc'[v] \in Acquiring => lpc[v] \in Acquiring
      BY <1>2, <2>3 DEF ReleaseDelete, Drop, Acquiring
    <3> QED
      BY <1>1, <2>3, <3>1, ForgetInv DEF ReleaseDelete
  <2> QED
    BY <1>7, <2>1, <2>2, <2>3 DEF ReleaseStep
<1>8. CASE LeaseCrash(w)
  <2>1. /\ \A v \in Writer : lz'[v] = lz[v] \/ lz'[v] = Null
        /\ \A v \in Writer : seen'[v] = seen[v] \/ seen'[v] = Absent
        /\ \A v \in Writer : lpc'[v] \in Acquiring => lpc[v] \in Acquiring
    BY <1>2, <1>8 DEF LeaseCrash, Drop, AcquireEnds, Acquiring
  <2>2. \A v \in Writer, d \in Call : call'[v][d] = call[v][d] \/ call'[v][d] = NoCall
    BY <1>2, <1>8 DEF LeaseCrash
  <2> QED
    BY <1>1, <1>8, <2>1, <2>2, ForgetInv DEF LeaseCrash
<1> QED
  BY <1>3, <1>4, <1>5, <1>6, <1>7, <1>8 DEF Move

(* Time passing changes nothing the invariant speaks of.                   *)
LEMMA ExpireInv ==
    ASSUME LeaseInv, Expire
    PROVE  LeaseInv'
<1>1. LeaseTypeOK'
  BY ExpireType DEF LeaseInv
<1>2. leaseObj.holder \in Writer
  BY ObjectFields DEF Expire, LeaseInv, LeaseTypeOK
<1> QED
  BY <1>1, <1>2, ForgetInv DEF Expire

(* The invariant holds before anybody has asked for the lease.             *)
LEMMA LeaseInitInv == LeaseInit => LeaseInv
<1> SUFFICES ASSUME LeaseInit
             PROVE  LeaseInv
  OBVIOUS
<1>1. LeaseTypeOK
  BY SMT DEF LeaseInit, LeaseTypeOK, LeaseObject, LeasePc, CallState
<1>2. EtagsDrawn
  BY DEF LeaseInit, EtagsDrawn, Null, Absent
<1>3. EtagMeansToken
  BY DEF LeaseInit, EtagMeansToken, Owns, Held, Null, Absent
<1>4. RenewalsAreOwn
  BY DEF LeaseInit, RenewalsAreOwn, NoCall
<1>5. HeldAfterAcquire
  BY DEF LeaseInit, HeldAfterAcquire, Held, Null
<1> QED
  BY <1>1, <1>2, <1>3, <1>4, <1>5 DEF LeaseInv

(* The steps of LeaseNext, as moves.                                       *)
LEMMA LeaseSteps ==
    ASSUME LeaseAssumption, LeaseNext
    PROVE  (\E w \in Writer : \E f \in Nat : Move(w, f)) \/ Expire
BY DEF LeaseNext, Move, LeaseAssumption

(* The inductive invariant of the lease: etags are drawn from the store's  *)
(* counter, a version names one token, and renewals under way are of       *)
(* versions their writer has held.                                         *)
THEOREM LeaseInvariance == LeaseSpec => []LeaseInv
<1>1. LeaseInv /\ [LeaseNext]_leaseVars => LeaseInv'
  <2> SUFFICES ASSUME LeaseInv, [LeaseNext]_leaseVars
               PROVE  LeaseInv'
    OBVIOUS
  <2>1. CASE LeaseNext
    BY <2>1, LeaseSteps, MoveInv, ExpireInv, LeaseAssumption
  <2>2. CASE UNCHANGED leaseVars
    BY <2>2 DEF leaseVars, LeaseInv, LeaseTypeOK, EtagsDrawn, EtagMeansToken, Owns, Held,
                RenewalsAreOwn, HeldAfterAcquire
  <2> QED
    BY <2>1, <2>2
<1> QED
  BY <1>1, LeaseInitInv, PTL DEF LeaseSpec

----------------------------------------------------------------------------
(* What a step by w does to the object and to what writers hold: nothing   *)
(* new, or a PUT that is the first, outranks the object, or is of its own  *)
(* owner.                                                                  *)
Quiet ==
    /\ leaseObj' = leaseObj \/ leaseObj' = Absent
    /\ \A v \in Writer : lz'[v] = lz[v] \/ lz'[v] = Null

Ranked(w) ==
    \E t \in Pos :
        /\ PutLease(w, t)
        /\ \A v \in Writer \ {w} : lz'[v] = lz[v]
        /\ \/ ~Held(w) /\ leaseObj.etag = 0
           \/ ~Held(w) /\ t > leaseObj.token
           \/ (Held(w) => Owns(w)) /\ t >= leaseObj.token /\ leaseObj.holder = w

(* What an acquiring PUT does to the object: either none was there or the  *)
(* new token outranks the old.                                             *)
LEMMA AcquireEffect ==
    ASSUME LeaseInv, NEW w \in Writer, NEW t \in Pos, NEW b \in BOOLEAN, AcquirePut(w, t, b),
           lpc[w] \in Acquiring, leaseObj.etag = 0 \/ t > leaseObj.token
    PROVE  Ranked(w)
<1>1. ~Held(w)
  BY DEF LeaseInv, HeldAfterAcquire
<1>2. PutLease(w, t) /\ \A v \in Writer \ {w} : lz'[v] = lz[v]
  BY DEF AcquirePut, Keep, LeaseInv, LeaseTypeOK
<1> QED
  BY <1>1, <1>2 DEF Ranked

(* The same of one that is refused.                                        *)
LEMMA RefusedEffect ==
    ASSUME LeaseInv, NEW w \in Writer, NEW t \in Pos, NEW h \in BOOLEAN, Refused(w, h, t),
           UNCHANGED lz, lpc[w] \in Acquiring,
           h => leaseObj.etag = 0 \/ t > leaseObj.token
    PROVE  Quiet \/ Ranked(w)
<1>1. ~Held(w)
  BY DEF LeaseInv, HeldAfterAcquire
<1> QED
  BY <1>1 DEF Refused, Quiet, Ranked

(* A CAS of a held lease leaves the holder or drops the lease.             *)
LEMMA CasEffect ==
    ASSUME LeaseInv, NEW w \in Writer, NEW e \in Pos, NEW t \in Pos, CasHeld(w, e, t),
           leaseObj.etag = e =>
               (Held(w) => Owns(w)) /\ t >= leaseObj.token /\ leaseObj.holder = w
    PROVE  Quiet \/ Ranked(w)
<1>1. lz \in [Writer -> {Null} \cup [etag : Pos, token : Pos]]
  BY DEF LeaseInv, LeaseTypeOK
<1>2. CASE leaseObj.etag = e /\ PutLease(w, t)
  <2>1. \A v \in Writer \ {w} : lz'[v] = lz[v]
    BY <1>1 DEF CasHeld, Keep, Drop
  <2> QED
    BY <1>2, <2>1 DEF Ranked
<1>3. CASE Drop(w) /\ UNCHANGED <<leaseObj, leaseClock>>
  BY <1>1, <1>3 DEF Quiet, Drop
<1> QED
  BY <1>2, <1>3 DEF CasHeld, Refused

(* So every move of a writer leaves the object, deletes it, renews it or   *)
(* replaces it with a higher token.                                        *)
LEMMA MoveEffect ==
    ASSUME LeaseAssumption, LeaseInv, NEW w \in Writer, NEW f \in Nat, Move(w, f)
    PROVE  Quiet \/ Ranked(w)
<1>1. /\ lz \in [Writer -> {Null} \cup [etag : Pos, token : Pos]]
      /\ floor \in [Writer -> Nat]
      /\ leaseObj.etag \in Nat /\ leaseObj.token \in Nat /\ leaseClock \in Nat
      /\ lz[w].etag \in Nat /\ lz[w].token \in Nat
  BY FieldTypes, ObjectFields DEF LeaseInv, LeaseTypeOK
<1>2. CASE UpgradeToken(w, f)
  <2>1. lz[w].etag \in Pos /\ f + 1 \in Pos
    BY <1>2, FieldTypes DEF UpgradeToken, LeaseInv, Pos
  <2>2. leaseObj.etag = lz[w].etag =>
            Owns(w) /\ f + 1 >= leaseObj.token /\ leaseObj.holder = w
    BY <1>1, <1>2 DEF UpgradeToken, LeaseInv, EtagMeansToken, Owns
  <2> QED
    BY <1>2, <2>1, <2>2, CasEffect DEF UpgradeToken
<1>3. CASE Create(w)
  <2>1. floor[w] + 1 \in Pos
    BY <1>1 DEF Pos
  <2> QED
    BY <1>3, <2>1, AcquireEffect, RefusedEffect DEF Create, Acquiring
<1>4. CASE Recreate(w)
  <2>1. floor[w] + 1 \in Pos
    BY <1>1 DEF Pos
  <2> QED
    BY <1>4, <2>1, AcquireEffect, RefusedEffect DEF Recreate, Acquiring
<1>5. CASE TakeOver(w)
  <2>1. /\ TakeoverToken(w) \in Pos
        /\ leaseObj.etag = seen[w].etag => TakeoverToken(w) > leaseObj.token
    BY TakeoverOutranks DEF LeaseInv, EtagMeansToken
  <2> QED
    BY <1>5, <2>1, AcquireEffect, RefusedEffect DEF TakeOver, Acquiring
<1>6. CASE ValidateStep(w)
  <2>1. PICK c \in Call : ValidateHead(w, c) \/ ValidateCheck(w, c) \/ RenewPut(w, c)
    BY <1>6 DEF ValidateStep
  <2>2. CASE RenewPut(w, c)
    <3>1. call[w][c].etag \in Pos /\ call[w][c].token \in Pos
      BY <2>2, RenewalTypes DEF RenewPut, LeaseInv
    <3>2. ASSUME leaseObj.etag = call[w][c].etag
          PROVE  (Held(w) => Owns(w)) /\ call[w][c].token >= leaseObj.token
                 /\ leaseObj.holder = w
      <4>1. call[w][c].token = leaseObj.token /\ leaseObj.holder = w
        BY <2>2, <3>2 DEF RenewPut, LeaseInv, RenewalsAreOwn
      <4>2. leaseObj.etag = leaseClock /\ lz[w].etag <= leaseClock
        BY <3>1, <3>2 DEF LeaseInv, EtagsDrawn, Pos
      <4>3. Held(w) => call[w][c].etag <= lz[w].etag
        BY <2>2 DEF RenewPut, LeaseInv, RenewalsAreOwn
      <4>4. Held(w) => Owns(w)
        BY <1>1, <3>2, <4>2, <4>3 DEF Owns
      <4> QED
        BY <1>1, <4>1, <4>4
    <3> QED
      BY <2>2, <3>1, <3>2, CasEffect DEF RenewPut
  <2>3. CASE ValidateHead(w, c) \/ ValidateCheck(w, c)
    BY <1>1, <2>3 DEF ValidateHead, ValidateCheck, Drop, Quiet
  <2> QED
    BY <2>1, <2>2, <2>3
<1>7. CASE AcquireStart(w, f) \/ Inspect(w) \/ Retry(w) \/ ReleaseStep(w) \/ LeaseCrash(w)
  BY <1>1, <1>7 DEF AcquireStart, Inspect, Retry, ReleaseStep, ReleaseHead, ReleaseCompare,
                    ReleaseDelete, LeaseCrash, Drop, Quiet
<1> QED
  BY <1>2, <1>3, <1>4, <1>5, <1>6, <1>7 DEF Move, AcquireStep

(* The fencing token never falls while the object exists, and rises with   *)
(* every change of holder (acquire, upgradeToken, renew of index.ts).      *)
THEOREM FencingTokenRises == LeaseSpec => TokenRises
<1> DEFINE Rises ==
      leaseObj.etag # 0 /\ leaseObj'.etag # 0
         => /\ leaseObj'.token >= leaseObj.token
            /\ leaseObj'.holder # leaseObj.holder => leaseObj'.token > leaseObj.token
<1>1. LeaseInv /\ [LeaseNext]_leaseVars => [Rises]_leaseVars
  <2> SUFFICES ASSUME LeaseInv, LeaseNext
               PROVE  Rises
    OBVIOUS
  <2>1. leaseObj.token \in Nat
    BY ObjectFields DEF LeaseInv, LeaseTypeOK
  <2>2. CASE Expire
    BY <2>1, <2>2, ObjectFields DEF Expire, LeaseInv, LeaseTypeOK
  <2>3. ASSUME NEW w \in Writer, NEW f \in Nat, Move(w, f)
        PROVE  Rises
    <3>1. CASE Quiet
      BY <2>1, <3>1 DEF Quiet, Absent
    <3>2. CASE Ranked(w)
      <4>1. PICK t \in Pos :
              /\ PutLease(w, t)
              /\ leaseObj.etag = 0 \/ t > leaseObj.token
                    \/ (t >= leaseObj.token /\ leaseObj.holder = w)
        BY <3>2 DEF Ranked
      <4>2. leaseObj'.token = t /\ leaseObj'.holder = w
        BY <4>1 DEF PutLease
      <4> QED
        BY <2>1, <4>1, <4>2 DEF Pos
    <3> QED
      BY <2>3, <3>1, <3>2, MoveEffect, LeaseAssumption
  <2> QED
    BY <2>2, <2>3, LeaseSteps, LeaseAssumption
<1> QED
  BY <1>1, LeaseInvariance, PTL DEF LeaseSpec, TokenRises

(* A writer that has lost its lease never owns it again, so the manifest   *)
(* has one writer of the current lease at most.                            *)
THEOREM ZombiesStayZombies == LeaseSpec => ZombieForGood
<1>1. LeaseInv /\ [LeaseNext]_leaseVars => [\A w \in Writer : StaysZombie(w)]_leaseVars
  <2> SUFFICES ASSUME LeaseInv, LeaseNext, NEW v \in Writer, Held(v), ~Owns(v)
               PROVE  ~(Owns(v)')
    BY DEF StaysZombie
  <2>1. CASE Expire
    BY <2>1, ObjectFields DEF Expire, Owns, Held, LeaseInv, LeaseTypeOK
  <2>2. ASSUME NEW w \in Writer, NEW f \in Nat, Move(w, f)
        PROVE  ~(Owns(v)')
    <3>1. CASE Quiet
      BY <3>1 DEF Quiet, Owns, Held, Null, Absent
    <3>2. CASE Ranked(w)
      <4>1. PICK t \in Pos :
              /\ PutLease(w, t)
              /\ \A u \in Writer \ {w} : lz'[u] = lz[u]
              /\ Held(w) => Owns(w)
        BY <3>2 DEF Ranked
      <4>2. lz'[v] = lz[v]
        BY <4>1
      <4>3. lz[v].etag # leaseObj'.etag
        BY <4>1, PutIsNews
      <4> QED
        BY <4>2, <4>3 DEF Owns
    <3> QED
      BY <2>2, <3>1, <3>2, MoveEffect, LeaseAssumption
  <2> QED
    BY <2>1, <2>2, LeaseSteps, LeaseAssumption
<1> QED
  BY <1>1, LeaseInvariance, PTL DEF LeaseSpec, ZombieForGood

----------------------------------------------------------------------------
(* While a writer's name is on the object, the version it holds and those  *)
(* its validations carry are the object's: with one validateLease() at a   *)
(* time and no PUT landing unheard, only its own PUT replaces it, and that *)
(* call ends with the PUT.                                                 *)
OneCall == \A c, d \in Call : c = d

CallsFit ==
    \A w \in Writer : leaseObj.holder = w =>
        /\ Held(w) => Owns(w)
        /\ \A c \in Call : call[w][c].at # "idle" => call[w][c].etag = leaseObj.etag

(* Steps without a PUT: calls end, go on with their version, or begin with *)
(* the object's.                                                           *)
LEMMA QuietFits ==
    ASSUME LeaseAssumption, LeaseInv, CallsFit, Quiet,
           \A v \in Writer : \A c \in Call :
               \/ call'[v][c].at = "idle"
               \/ call[v][c].at # "idle" /\ call'[v][c].etag = call[v][c].etag
               \/ leaseObj' = leaseObj /\ call'[v][c].etag = leaseObj.etag
    PROVE  CallsFit'
<1> SUFFICES ASSUME NEW v \in Writer, leaseObj'.holder = v
             PROVE  /\ (Held(v) => Owns(v))'
                    /\ \A c \in Call : call'[v][c].at # "idle"
                                           => call'[v][c].etag = leaseObj'.etag
  BY DEF CallsFit
<1>1. leaseObj' = leaseObj
  BY DEF Quiet, Absent, LeaseAssumption
<1>2. (Held(v) => Owns(v))'
  BY <1>1 DEF CallsFit, Quiet, Held, Owns, Null
<1>3. ASSUME NEW c \in Call, call'[v][c].at # "idle"
      PROVE  call'[v][c].etag = leaseObj'.etag
  BY <1>1, <1>3 DEF CallsFit
<1> QED
  BY <1>2, <1>3

(* A PUT whose reply arrives, by a writer that keeps no other call.        *)
LEMMA PutFits ==
    ASSUME LeaseInv, NEW w \in Writer, NEW t \in Pos, PutLease(w, t), Keep(w, t),
           \A c \in Call : call'[w][c] = NoCall
    PROVE  CallsFit'
<1>1. leaseObj'.holder = w /\ leaseObj'.etag = leaseClock + 1
  BY DEF PutLease
<1>2. lz'[w].etag = leaseClock + 1
  BY DEF Keep, LeaseInv, LeaseTypeOK
<1> QED
  BY <1>1, <1>2 DEF CallsFit, Held, Owns, NoCall

(* An acquiring PUT, landed or refused.                                    *)
LEMMA AcquireFits ==
    ASSUME LeaseAssumption, LostReplies = FALSE, Resends = FALSE, LeaseInv, CallsFit,
           NEW w \in Writer, NEW t \in Pos, NEW b \in BOOLEAN, NEW h \in BOOLEAN,
           UNCHANGED call, lpc[w] \in Acquiring,
           AcquirePut(w, t, b) \/ (Refused(w, h, t) /\ UNCHANGED lz)
    PROVE  CallsFit'
<1>1. \A c \in Call : call'[w][c] = NoCall
  BY DEF LeaseInv, HeldAfterAcquire
<1>2. CASE AcquirePut(w, t, b)
  BY <1>1, <1>2, PutFits DEF AcquirePut
<1>3. CASE Refused(w, h, t) /\ UNCHANGED lz
  BY <1>3 DEF Refused, CallsFit, Held, Owns
<1> QED
  BY <1>2, <1>3

(* A CAS of a held lease that ends the one call under way.                 *)
LEMMA CasFits ==
    ASSUME LeaseAssumption, LostReplies = FALSE, Resends = FALSE, LeaseInv, CallsFit,
           NEW w \in Writer, NEW e \in Pos, NEW t \in Pos, CasHeld(w, e, t),
           \A c \in Call : call'[w][c] = NoCall,
           \A v \in Writer \ {w} : call'[v] = call[v]
    PROVE  CallsFit'
<1>1. CASE PutLease(w, t) /\ Keep(w, t)
  BY <1>1, PutFits
<1>2. CASE UNCHANGED leaseObj /\ Drop(w)
  <2>1. Quiet
    BY <1>2 DEF Quiet, Drop, LeaseInv, LeaseTypeOK
  <2> QED
    BY <2>1, QuietFits DEF NoCall
<1> QED
  BY <1>1, <1>2 DEF CasHeld, Refused

LEMMA MoveFits ==
    ASSUME LeaseAssumption, LostReplies = FALSE, Resends = FALSE, OneCall,
           LeaseInv, CallsFit, NEW w \in Writer, NEW f \in Nat, Move(w, f)
    PROVE  CallsFit'
<1>1. /\ lz \in [Writer -> {Null} \cup [etag : Pos, token : Pos]]
      /\ call \in [Writer -> [Call -> CallState]]
      /\ floor \in [Writer -> Nat] /\ lz[w].etag \in Nat
  BY FieldTypes DEF LeaseInv, LeaseTypeOK
<1>2. CASE UpgradeToken(w, f)
  <2>1. lz[w].etag \in Pos /\ f + 1 \in Pos
    BY <1>1, <1>2 DEF UpgradeToken, Held, Pos
  <2> QED
    BY <1>2, <2>1, CasFits DEF UpgradeToken
<1>3. CASE Create(w)
  <2>1. floor[w] + 1 \in Pos
    BY <1>1 DEF Pos
  <2> QED
    BY <1>3, <2>1, AcquireFits DEF Create, Acquiring
<1>4. CASE Recreate(w)
  <2>1. floor[w] + 1 \in Pos
    BY <1>1 DEF Pos
  <2> QED
    BY <1>4, <2>1, AcquireFits DEF Recreate, Acquiring
<1>5. CASE TakeOver(w)
  <2>1. TakeoverToken(w) \in Pos
    BY TakeoverOutranks DEF LeaseInv, EtagMeansToken
  <2> QED
    BY <1>5, <2>1, AcquireFits DEF TakeOver, Acquiring
<1>6. CASE ValidateStep(w)
  <2>1. PICK c \in Call : ValidateHead(w, c) \/ ValidateCheck(w, c) \/ RenewPut(w, c)
    BY <1>6 DEF ValidateStep
  <2>2. CASE RenewPut(w, c)
    <3>1. call[w][c].etag \in Pos /\ call[w][c].token \in Pos
      BY <2>2, RenewalTypes DEF RenewPut, LeaseInv
    <3>2. \A d \in Call : call'[w][d] = NoCall
      BY <1>1, <2>2 DEF RenewPut, OneCall
    <3>3. \A v \in Writer \ {w} : call'[v] = call[v]
      BY <1>1, <2>2 DEF RenewPut
    <3> QED
      BY <2>2, <3>1, <3>2, <3>3, CasFits DEF RenewPut
  <2>3. CASE ValidateHead(w, c)
    <3>1. Quiet
      BY <2>3 DEF ValidateHead, Quiet
    <3>2. \A v \in Writer : \A d \in Call :
              call'[v][d] = call[v][d] \/ call'[v][d].etag = leaseObj.etag
      BY <1>1, <2>3 DEF ValidateHead
    <3> QED
      BY <2>3, <3>1, <3>2, QuietFits DEF ValidateHead
  <2>4. CASE ValidateCheck(w, c)
    <3>1. Quiet
      BY <1>1, <2>4 DEF ValidateCheck, Drop, Quiet
    <3>2. \A v \in Writer : \A d \in Call :
              \/ call'[v][d] = call[v][d]
              \/ call'[v][d].at = "idle"
              \/ call[v][d].at # "idle" /\ call'[v][d].etag = call[v][d].etag
      BY <1>1, <2>4 DEF ValidateCheck, NoCall
    <3> QED
      BY <3>1, <3>2, QuietFits
  <2> QED
    BY <2>1, <2>2, <2>3, <2>4
<1>7. CASE AcquireStart(w, f) \/ Inspect(w) \/ Retry(w) \/ ReleaseStep(w)
  <2>1. Quiet /\ UNCHANGED call
    BY <1>1, <1>7 DEF AcquireStart, Inspect, Retry, ReleaseStep, ReleaseHead,
                      ReleaseCompare, ReleaseDelete, Drop, Quiet
  <2> QED
    BY <2>1, QuietFits
<1>8. CASE LeaseCrash(w)
  <2>1. Quiet
    BY <1>1, <1>8 DEF LeaseCrash, Drop, Quiet
  <2>2. \A v \in Writer : \A d \in Call :
            call'[v][d] = call[v][d] \/ call'[v][d].at = "idle"
    BY <1>1, <1>8 DEF LeaseCrash, NoCall
  <2> QED
    BY <2>1, <2>2, QuietFits
<1> QED
  BY <1>2, <1>3, <1>4, <1>5, <1>6, <1>7, <1>8 DEF Move, AcquireStep

(* A writer drops its lease, outside close(), only when the object is not  *)
(* its own any more (validate, renew and upgradeToken of index.ts): for    *)
(* any number of writers, of which each validates once at a time, when no  *)
(* PUT lands without its reply.                                            *)
THEOREM FencedMeansTakenOver ==
    ASSUME LostReplies = FALSE, Resends = FALSE, OneCall
    PROVE  LeaseSpec => FencedOnlyIfTakenOver
<1> DEFINE Told ==
      \A w \in Writer :
         lpc[w] = "held" /\ lpc'[w] = "held" /\ Held(w) /\ ~(Held(w)')
           => leaseObj.holder # w
<1>1. LeaseInit => CallsFit
  BY LeaseAssumption DEF LeaseInit, CallsFit, Absent
<1>2. LeaseInv /\ CallsFit /\ [LeaseNext]_leaseVars => CallsFit'
  <2> SUFFICES ASSUME LeaseInv, CallsFit, [LeaseNext]_leaseVars
               PROVE  CallsFit'
    OBVIOUS
  <2>1. CASE Expire
    BY <2>1, ObjectFields DEF Expire, CallsFit, Held, Owns, LeaseInv, LeaseTypeOK
  <2>2. CASE UNCHANGED leaseVars
    BY <2>2 DEF leaseVars, CallsFit, Held, Owns
  <2> QED
    BY <2>1, <2>2, LeaseSteps, MoveFits, LeaseAssumption
<1>3. LeaseInv /\ CallsFit /\ [LeaseNext]_leaseVars
        => [Told]_leaseVars
  <2> SUFFICES ASSUME LeaseInv, CallsFit, LeaseNext, NEW v \in Writer, leaseObj.holder = v,
                      lpc[v] = "held", lpc'[v] = "held", Held(v), ~(Held(v)')
               PROVE  FALSE
    OBVIOUS
  <2>1. /\ lz \in [Writer -> {Null} \cup [etag : Pos, token : Pos]]
        /\ lpc \in [Writer -> LeasePc]
    BY DEF LeaseInv, LeaseTypeOK
  <2>2. lz[v].etag = leaseObj.etag
    BY DEF CallsFit, Owns
  <2>3. CASE Expire
    BY <2>3 DEF Expire, Held
  <2>4. ASSUME NEW w \in Writer, NEW f \in Nat, Move(w, f), w # v
        PROVE  FALSE
    <3>1. lz'[v] = lz[v]
      BY <2>1, <2>4 DEF Move, AcquireStart, UpgradeToken, AcquireStep, Create, Inspect,
         Recreate, TakeOver, Retry, AcquirePut, ValidateStep, ValidateHead, ValidateCheck,
         RenewPut, CasHeld, Keep, Drop, ReleaseStep, ReleaseHead, ReleaseCompare,
         ReleaseDelete, LeaseCrash
    <3> QED
      BY <3>1 DEF Held
  <2>5. ASSUME NEW f \in Nat, Move(v, f)
        PROVE  FALSE
    <3>1. CASE UpgradeToken(v, f)
      BY <2>1, <2>2, <3>1 DEF UpgradeToken, CasHeld, Refused, Keep, Held, LeaseInv, LeaseTypeOK
    <3>2. ASSUME NEW c \in Call, ValidateCheck(v, c)
          PROVE  FALSE
      <4>1. call[v][c].etag = leaseObj.etag
        BY <3>2 DEF ValidateCheck, CallsFit
      <4> QED
        BY <2>2, <3>2, <4>1 DEF ValidateCheck, Held
    <3>3. ASSUME NEW c \in Call, RenewPut(v, c)
          PROVE  FALSE
      <4>1. call[v][c].etag = leaseObj.etag
        BY <3>3 DEF RenewPut, CallsFit
      <4> QED
        BY <2>1, <3>3, <4>1 DEF RenewPut, CasHeld, Refused, Keep, Held, LeaseInv, LeaseTypeOK
    <3>4. CASE AcquireStep(v) \/ AcquireStart(v, f)
      <4>1. lpc[v] \in Acquiring
        BY <3>4 DEF AcquireStep, AcquireStart, Create, Inspect, Recreate, TakeOver, Retry,
                    Acquiring
      <4> QED
        BY <4>1 DEF Acquiring
    <3>5. CASE ReleaseStep(v) \/ LeaseCrash(v)
      BY <2>1, <3>5 DEF ReleaseStep, ReleaseHead, ReleaseCompare, ReleaseDelete, LeaseCrash
    <3>6. ASSUME NEW c \in Call, ValidateHead(v, c)
          PROVE  FALSE
      BY <3>6 DEF ValidateHead, Held
    <3> QED
      BY <2>5, <3>1, <3>2, <3>3, <3>4, <3>5, <3>6 DEF Move, ValidateStep
  <2> QED
    BY <2>3, <2>4, <2>5, LeaseSteps, LeaseAssumption
<1>4. LeaseSpec => []CallsFit
  BY <1>1, <1>2, LeaseInvariance, PTL DEF LeaseSpec
<1> QED
  BY <1>3, <1>4, LeaseInvariance, PTL DEF LeaseSpec, FencedOnlyIfTakenOver
----------------------------------------------------------------------------
(* The whole writer.                                                       *)

----------------------------------------------------------------------------
(* The absent manifest is well typed.                                      *)
LEMMA NoManifestType == NoManifest \in Manifests /\ NoKey \in Keys
<1>1. NoKey \in Keys
  BY DEF NoKey, Key, Keys
<1> QED
  BY <1>1 DEF NoManifest, Manifests

(* So is the absent commit.                                                *)
LEMMA NoCommitType == NoCommit \in Commits
BY NoManifestType DEF NoCommit, Commits

(* And the manifest of a bucket that already holds a database.             *)
LEMMA FirstManifestType == FirstManifest \in Manifests /\ FirstKey \in Keys
<1>1. FirstKey \in Keys
  BY DEF FirstKey, Key, Keys
<1> QED
  BY <1>1, NoManifestType DEF FirstManifest, NoManifest, Manifests

(* A process that ends is well-typed.                                      *)
LEMMA DieType ==
    ASSUME ProcessTypeOK, NEW w \in Writer, Die(w)
    PROVE  ProcessTypeOK'
<1>1. pc' \in [Writer -> Pcs]
  BY DEF ProcessTypeOK, Die, Goto, Pcs
<1>2. man' \in [Writer -> Manifests] /\ pend' \in [Writer -> Commits]
  BY NoManifestType, NoCommitType DEF ProcessTypeOK, Die
<1> QED
  BY <1>1, <1>2 DEF ProcessTypeOK, Die

(* So is the bucket after a PUT of a data object.                          *)
LEMMA PutObjType ==
    ASSUME StoreTypeOK, NEW k \in Keys, NEW b \in SUBSET Row, PutObj(k, b),
           UNCHANGED <<manifest, trash>>
    PROVE  StoreTypeOK'
BY DEF StoreTypeOK, PutObj

(* A PUT of manifest.json keeps the manifest well typed.                   *)
LEMMA PutManifestType ==
    ASSUME StoreTypeOK, NEW w \in Writer, NEW m \in Manifests, PutManifest(w, m)
    PROVE  manifest' \in Manifests
<1>1. manifest.etag + 1 \in Nat
  BY DEF StoreTypeOK, Manifests
<1> QED
  BY <1>1 DEF PutManifest, Manifests

(* So does the writer that receives the reply, or dies.                    *)
LEMMA RepliedType ==
    ASSUME ProcessTypeOK, manifest' \in Manifests, NEW w \in Writer, Replied(w)
    PROVE  ProcessTypeOK'
<1>1. CASE Die(w)
  BY <1>1, DieType
<1>2. CASE /\ man' = [man EXCEPT ![w] = manifest']
           /\ Goto(w, "serving")
           /\ UNCHANGED <<existing, next, stamps, db, shipped, dirty, force, pend, closing>>
  BY <1>2 DEF ProcessTypeOK, Goto, Pcs
<1> QED
  BY <1>1, <1>2 DEF Replied

(* The token of a commit is a number.                                      *)
LEMMA TokenType ==
    ASSUME LeaseTypeOK, ProcessTypeOK, NEW w \in Writer
    PROVE  /\ Token(w) \in Nat
           /\ man[w].seq \in Nat /\ man[w].gen \in Writer \cup {NoOne}
           /\ \A kind \in {"snap", "wal"} : CommitKey(w, kind) \in Keys
<1>1. man[w] \in Manifests
  BY DEF ProcessTypeOK
<1>2. man[w].seq \in Nat /\ man[w].token \in Nat /\ man[w].gen \in Writer \cup {NoOne}
  BY <1>1 DEF Manifests
<1>3. Token(w) \in Nat
  BY <1>2, FieldTypes DEF Token
<1> QED
  BY <1>2, <1>3 DEF CommitKey, Key, Keys

(* The start of a commit builds a well-typed manifest.                     *)
LEMMA BeginType ==
    ASSUME LeaseTypeOK, ProcessTypeOK, NEW w \in Writer, NEW kind \in {"snap", "wal"},
           NEW body \in SUBSET Row, NEW m \in Manifests, Begin(w, CommitKey(w, kind), body, m)
    PROVE  ProcessTypeOK'
<1>1. CommitKey(w, kind) \in Keys /\ Token(w) \in Nat /\ man[w].seq + 1 \in Nat
  BY TokenType
<1>2. [m EXCEPT !.seq = man[w].seq + 1, !.token = Token(w)] \in Manifests
  BY <1>1 DEF Manifests
<1>3. db[w] \in SUBSET Row
  BY DEF ProcessTypeOK
<1>4. pend' \in [Writer -> Commits]
  BY <1>1, <1>2, <1>3 DEF Begin, ProcessTypeOK, Commits
<1> QED
  BY <1>4 DEF Begin, ProcessTypeOK, Goto, Pcs

(* The fields of a manifest are of their types.                            *)
LEMMA ManifestFields ==
    ASSUME NEW m \in Manifests
    PROVE  /\ m.etag \in Nat /\ m.token \in Nat /\ m.seq \in Nat
           /\ m.gen \in Writer \cup {NoOne} /\ m.snap \in Keys /\ m.prev \in Keys
           /\ m.base \subseteq Row /\ m.segs \subseteq [key : Keys, body : SUBSET Row]
           /\ SegKeys(m) \subseteq Keys
           /\ Content(m) \subseteq Row
BY DEF Manifests, SegKeys, Content

(* The lease's part of every action keeps the types of the lease.          *)
LEMMA LeaseStepType ==
    ASSUME TypeOK, NEW w \in Writer,
           \/ AcquireStep(w) \/ ValidateStep(w) \/ ReleaseStep(w) \/ LeaseCrash(w)
           \/ AcquireStart(w, manifest.token) \/ UpgradeToken(w, man[w].token)
    PROVE  LeaseTypeOK'
<1>1. manifest.token \in Nat /\ man[w].token \in Nat
  BY ManifestFields DEF TypeOK, StoreTypeOK, ProcessTypeOK
<1>2. CASE AcquireStart(w, manifest.token)
  BY <1>1, <1>2, MoveType, LeaseAssumption DEF TypeOK, Move
<1>3. CASE UpgradeToken(w, man[w].token)
  BY <1>1, <1>3, MoveType, LeaseAssumption DEF TypeOK, Move
<1>4. CASE AcquireStep(w) \/ ValidateStep(w) \/ ReleaseStep(w) \/ LeaseCrash(w)
  BY <1>1, <1>4, MoveType, LeaseAssumption DEF TypeOK, Move
<1> QED
  BY <1>2, <1>3, <1>4

(* Steps that leave the lease alone keep its types.                        *)
LEMMA LeaseSame ==
    ASSUME TypeOK, UNCHANGED leaseVars
    PROVE  LeaseTypeOK'
BY DEF TypeOK, LeaseTypeOK, leaseVars

(* Likewise for the bucket.                                                *)
LEMMA StoreSame ==
    ASSUME TypeOK, UNCHANGED storeVars
    PROVE  StoreTypeOK'
BY DEF TypeOK, StoreTypeOK, storeVars

(* Likewise for the clients.                                               *)
LEMMA ClientSame ==
    ASSUME TypeOK, UNCHANGED clientVars
    PROVE  ClientTypeOK'
BY DEF TypeOK, ClientTypeOK, clientVars

(* Likewise for the processes.                                             *)
LEMMA ProcessSame ==
    ASSUME TypeOK, UNCHANGED localVars, NEW w \in Writer, NEW p \in Pcs,
           Goto(w, p) \/ UNCHANGED pc
    PROVE  ProcessTypeOK'
<1>1. pc' \in [Writer -> Pcs]
  BY DEF TypeOK, ProcessTypeOK, Goto
<1> QED
  BY <1>1 DEF TypeOK, ProcessTypeOK, localVars

----------------------------------------------------------------------------
(* The steps of boot() keep the types.                                     *)
LEMMA BootType ==
    ASSUME TypeOK, NEW w \in Writer, Boot(w)
    PROVE  TypeOK'
<1> USE DEF TypeOK
<1>1. CASE BootRead(w)
  <2>1. ProcessTypeOK'
    BY <1>1 DEF BootRead, ProcessTypeOK, Goto, Pcs
  <2> QED
    BY <1>1, <2>1, LeaseStepType, StoreSame, ClientSame DEF BootRead
<1>2. CASE BootLease(w)
  <2>1. ProcessTypeOK'
    BY <1>2, DieType DEF BootLease, ProcessTypeOK, localVars
  <2> QED
    BY <1>2, <2>1, LeaseStepType, StoreSame, ClientSame DEF BootLease
<1>3. CASE Reread(w)
  <2>1. ProcessTypeOK'
    BY <1>3 DEF Reread, ProcessTypeOK, StoreTypeOK, Goto, Pcs
  <2> QED
    BY <1>3, <2>1, LeaseSame, StoreSame, ClientSame DEF Reread
<1>4. CASE Restore(w)
  <2>1. CASE Die(w)
    BY <1>4, <2>1, DieType, LeaseSame, StoreSame, ClientSame DEF Restore
  <2>2. CASE /\ RestoreOk(man[w]) /\ next[w] # "dead"
             /\ db' = [db EXCEPT ![w] = Restored(man[w])]
             /\ shipped' = [shipped EXCEPT ![w] = Restored(man[w])]
             /\ force' = [force EXCEPT ![w] = TRUE]
             /\ Goto(w, next[w])
             /\ UNCHANGED <<existing, next, stamps, man, dirty, pend, closing>>
    <3>1. man[w] \in Manifests /\ next[w] \in Pcs
      BY <2>2 DEF ProcessTypeOK, Pcs
    <3>2. Restored(man[w]) \in SUBSET Row
      BY <2>2, <3>1, ManifestFields DEF Restored, RestoreOk, StoreTypeOK
    <3>3. ProcessTypeOK'
      BY <2>2, <3>1, <3>2 DEF ProcessTypeOK, Goto
    <3> QED
      BY <1>4, <3>3, LeaseSame, StoreSame, ClientSame DEF Restore
  <2> QED
    BY <1>4, <2>1, <2>2 DEF Restore
<1>5. CASE Upgrade(w)
  <2>1. ProcessTypeOK'
    BY <1>5, DieType, ProcessSame DEF Upgrade, Pcs
  <2>2. LeaseTypeOK'
    BY <1>5, LeaseStepType, LeaseSame DEF Upgrade
  <2> QED
    BY <1>5, <2>1, <2>2, StoreSame, ClientSame DEF Upgrade
<1>6. CASE Stamp(w)
  <2>1. [man[w] EXCEPT !.token = lz[w].token] \in Manifests
    <3>1. man[w] \in Manifests /\ lz[w].token \in Nat
      BY FieldTypes DEF ProcessTypeOK
    <3> QED
      BY <3>1 DEF Manifests
  <2>2. manifest' \in Manifests
    BY <1>6, <2>1, PutManifestType DEF Stamp, ManifestRefused, StoreTypeOK
  <2>3. StoreTypeOK'
    BY <1>6, <2>2 DEF Stamp, StoreTypeOK
  <2>4. ProcessTypeOK'
    BY <1>6, <2>2, RepliedType, ProcessSame DEF Stamp, Pcs
  <2> QED
    BY <1>6, <2>3, <2>4, LeaseSame, ClientSame DEF Stamp
<1>7. CASE StampGet(w)
  <2>1. stamps[w] + 1 \in Nat
    BY DEF ProcessTypeOK
  <2>2. ProcessTypeOK'
    BY <1>7, <2>1 DEF StampGet, ProcessTypeOK, StoreTypeOK, Goto, Pcs
  <2> QED
    BY <1>7, <2>2, LeaseSame, StoreSame, ClientSame DEF StampGet
<1>8. CASE Seed(w)
  <2>1. SeedKey(w) \in Keys
    BY FieldTypes DEF SeedKey, Key, Keys
  <2>2. StoreTypeOK'
    BY <1>8, <2>1, PutObjType DEF Seed
  <2> QED
    BY <1>8, <2>2, LeaseSame, ProcessSame, ClientSame DEF Seed, Pcs
<1>9. CASE SeedPut(w)
  <2>1. SeedManifest(w) \in Manifests
    <3>1. SeedKey(w) \in Keys /\ lz[w].token \in Nat
      BY FieldTypes DEF SeedKey, Key, Keys
    <3> QED
      BY <3>1, NoManifestType DEF SeedManifest, Manifests, NoManifest
  <2>2. manifest' \in Manifests
    BY <1>9, <2>1, PutManifestType DEF SeedPut, ManifestRefused, StoreTypeOK
  <2>3. StoreTypeOK'
    BY <1>9, <2>2 DEF SeedPut, StoreTypeOK
  <2>4. ProcessTypeOK'
    BY <1>9, <2>2, RepliedType, ProcessSame DEF SeedPut, Pcs
  <2> QED
    BY <1>9, <2>3, <2>4, LeaseSame, ClientSame DEF SeedPut
<1>10. CASE SeedGet(w)
  <2>1. ProcessTypeOK'
    BY <1>10 DEF SeedGet, ProcessTypeOK, StoreTypeOK, Goto, Pcs
  <2> QED
    BY <1>10, <2>1, LeaseSame, StoreSame, ClientSame DEF SeedGet
<1> QED
  BY <1>1, <1>2, <1>3, <1>4, <1>5, <1>6, <1>7, <1>8, <1>9, <1>10 DEF Boot

(* The manifest a commit proposes.                                         *)
LEMMA SegmentType ==
    ASSUME NEW m \in Manifests, NEW key \in Keys, NEW body \in SUBSET Row
    PROVE  /\ [m EXCEPT !.segs = {[key |-> key, body |-> body]}] \in Manifests
           /\ [m EXCEPT !.segs = @ \cup {[key |-> key, body |-> body]}] \in Manifests
<1>1. [key |-> key, body |-> body] \in [key : Keys, body : SUBSET Row]
  OBVIOUS
<1> QED
  BY <1>1 DEF Manifests

(* The steps of a commit keep the types.                                   *)
LEMMA CommitType ==
    ASSUME TypeOK, NEW w \in Writer, Commit(w)
    PROVE  TypeOK'
<1> USE DEF TypeOK
<1>1. /\ man[w] \in Manifests /\ db[w] \in SUBSET Row /\ pend[w] \in Commits
      /\ CommitKey(w, "wal") \in Keys /\ CommitKey(w, "snap") \in Keys
  BY TokenType DEF ProcessTypeOK
<1>2. CASE CommitRebaseline(w)
  <2>1. ProcessTypeOK'
    BY <1>1, <1>2, SegmentType, BeginType DEF CommitRebaseline
  <2> QED
    BY <1>2, <2>1, LeaseSame, StoreSame, ClientSame DEF CommitRebaseline, Begin
<1>3. CASE CommitIncremental(w)
  <2>1. ProcessTypeOK'
    BY <1>1, <1>3, SegmentType, BeginType DEF CommitIncremental
  <2> QED
    BY <1>3, <2>1, LeaseSame, StoreSame, ClientSame DEF CommitIncremental, Begin
<1>4. CASE CommitSnapshot(w)
  <2> DEFINE m == [man[w] EXCEPT !.snap = CommitKey(w, "snap"), !.base = db[w], !.segs = {},
                                 !.prev = IF man[w].snap # CommitKey(w, "snap")
                                          THEN man[w].snap ELSE @]
  <2>1. m \in Manifests
    BY <1>1 DEF Manifests
  <2>2. Begin(w, CommitKey(w, "snap"), db[w], m)
    BY <1>4 DEF CommitSnapshot
  <2> HIDE DEF m
  <2>3. ProcessTypeOK'
    BY <1>1, <2>1, <2>2, BeginType
  <2> QED
    BY <2>2, <2>3, LeaseSame, StoreSame, ClientSame DEF Begin
<1>5. CASE CommitNothing(w)
  <2>1. ProcessTypeOK'
    BY <1>5 DEF CommitNothing, ProcessTypeOK, Goto, Pcs
  <2> QED
    BY <1>5, <2>1, LeaseSame, StoreSame, ClientSame DEF CommitNothing
<1>6. CASE Upload(w)
  <2>1. pend[w].key \in Keys /\ pend[w].body \in SUBSET Row
    BY <1>1 DEF Commits
  <2>2. StoreTypeOK'
    BY <1>6, <2>1, PutObjType DEF Upload
  <2>3. pend' \in [Writer -> Commits] /\ pc' \in [Writer -> Pcs]
    BY <1>6, NoCommitType DEF Upload, AfterCommit, ProcessTypeOK, Goto, Pcs
  <2>4. ProcessTypeOK'
    BY <1>6, <2>3 DEF Upload, ProcessTypeOK
  <2> QED
    BY <1>6, <2>2, <2>4, LeaseSame, ClientSame DEF Upload
<1>7. CASE Swap(w)
  <2>1. pend[w].m \in Manifests /\ pend[w].upto \in SUBSET Row
    BY <1>1 DEF Commits
  <2>2. manifest' \in Manifests
    BY <1>7, <2>1, PutManifestType DEF Swap, ManifestRefused, StoreTypeOK
  <2>3. Garbage(man[w], pend[w].m) \subseteq Keys
    BY <1>1, <2>1, ManifestFields DEF Garbage
  <2>4. StoreTypeOK'
    BY <1>7, <2>2, <2>3 DEF Swap, StoreTypeOK
  <2>5. pend' \in [Writer -> Commits] /\ pc' \in [Writer -> Pcs]
    BY <1>7, NoCommitType DEF Swap, AfterCommit, ProcessTypeOK, Goto, Pcs
  <2>6. /\ man' \in [Writer -> Manifests]
        /\ shipped' \in [Writer -> SUBSET Row]
    BY <1>7, <2>1, <2>2 DEF Swap, ProcessTypeOK
  <2>7. dirty' \in [Writer -> BOOLEAN] /\ force' \in [Writer -> BOOLEAN]
    BY <1>7 DEF Swap, ProcessTypeOK
  <2>8. ProcessTypeOK'
    BY <1>7, <2>5, <2>6, <2>7 DEF Swap, ProcessTypeOK
  <2>9. ClientTypeOK'
    BY <1>7, <2>1 DEF Swap, ClientTypeOK
  <2> QED
    BY <1>7, <2>4, <2>8, <2>9, LeaseSame DEF Swap
<1> QED
  BY <1>2, <1>3, <1>4, <1>5, <1>6, <1>7 DEF Commit

(* The remaining steps of a writer keep the types.                         *)
LEMMA WriterType ==
    ASSUME TypeOK, NEW w \in Writer,
           \/ Write(w) \/ Validate(w)
           \/ Close(w) \/ Release(w) \/ Exit(w) \/ Crash(w)
    PROVE  TypeOK'
<1> USE DEF TypeOK
<1>1. CASE Write(w)
  <2>1. ProcessTypeOK' /\ ClientTypeOK'
    BY <1>1 DEF Write, ProcessTypeOK, ClientTypeOK
  <2> QED
    BY <1>1, <2>1, LeaseSame, StoreSame DEF Write
<1>2. CASE Validate(w)
  <2>1. ProcessTypeOK'
    BY <1>2 DEF Validate, ProcessTypeOK, localVars
  <2> QED
    BY <1>2, <2>1, LeaseStepType, StoreSame, ClientSame DEF Validate
<1>3. CASE Close(w)
  <2>1. ProcessTypeOK'
    BY <1>3 DEF Close, ProcessTypeOK, Goto, Pcs
  <2> QED
    BY <1>3, <2>1, LeaseSame, StoreSame, ClientSame DEF Close
<1>4. CASE Release(w)
  <2>1. ProcessTypeOK'
    BY <1>4 DEF Release, ProcessTypeOK, localVars
  <2> QED
    BY <1>4, <2>1, LeaseStepType, StoreSame, ClientSame DEF Release
<1>5. CASE Crash(w)
  BY <1>5, DieType, LeaseStepType, StoreSame, ClientSame DEF Crash
<1>6. CASE Exit(w)
  BY <1>6, DieType, LeaseSame, StoreSame, ClientSame DEF Exit
<1> QED
  BY <1>1, <1>2, <1>3, <1>4, <1>5, <1>6

(* Deletes landing and time passing keep the types.                        *)
LEMMA EnvironmentType ==
    ASSUME TypeOK, DeleteLands \/ TtlPasses
    PROVE  TypeOK'
<1> USE DEF TypeOK
<1>1. CASE DeleteLands
  <2>1. StoreTypeOK'
    BY <1>1 DEF DeleteLands, StoreTypeOK
  <2>2. ProcessTypeOK'
    BY <1>1 DEF DeleteLands, ProcessTypeOK, localVars
  <2> QED
    BY <1>1, <2>1, <2>2, LeaseSame, ClientSame DEF DeleteLands
<1>2. CASE TtlPasses
  <2>1. ProcessTypeOK'
    BY <1>2 DEF TtlPasses, ProcessTypeOK, localVars
  <2> QED
    BY <1>2, <2>1, ExpireType, StoreSame, ClientSame DEF TtlPasses
<1> QED
  BY <1>1, <1>2

(* The types hold initially.                                               *)
LEMMA InitType == Init => TypeOK
<1> SUFFICES ASSUME Init
             PROVE  TypeOK
  OBVIOUS
<1>1. LeaseTypeOK
  BY LeaseInitInv DEF Init, LeaseInv
<1>2. StoreTypeOK
  <2>1. manifest \in Manifests
    BY NoManifestType, FirstManifestType DEF Init
  <2>2. DOMAIN objs \subseteq Keys /\ \A k \in DOMAIN objs : objs[k] \subseteq Row
    BY FirstManifestType DEF Init
  <2> QED
    BY <2>1, <2>2 DEF Init, StoreTypeOK
<1>3. ProcessTypeOK
  BY NoManifestType, NoCommitType DEF Init, ProcessTypeOK, Pcs
<1> QED
  BY <1>1, <1>2, <1>3 DEF Init, TypeOK, ClientTypeOK

(* Every step keeps the types.                                             *)
LEMMA NextType ==
    ASSUME TypeOK, [Next]_vars
    PROVE  TypeOK'
<1>1. CASE UNCHANGED vars
  <2>1. ProcessTypeOK'
    BY <1>1 DEF TypeOK, ProcessTypeOK, vars, localVars
  <2> QED
    BY <1>1, <2>1, LeaseSame, StoreSame, ClientSame DEF TypeOK, vars
<1> QED
  BY <1>1, BootType, CommitType, WriterType, EnvironmentType DEF Next

(* Everything the writers, the bucket and the clients hold is well-typed,  *)
(* always, for any number of writers.                                      *)
THEOREM TypeCorrect == Spec => []TypeOK
BY InitType, NextType, PTL DEF Spec

----------------------------------------------------------------------------
(* The argument for durability.  A commit can only replace the manifest it *)
(* was built on (the CAS), so it is enough that whoever still holds the    *)
(* current manifest also holds its rows, and that the objects it restored  *)
(* them from are the ones the manifest was written for.  The second part   *)
(* is where object keys come in: it needs NoKeyClash.                      *)

Current(w) == man[w].etag = manifest.etag

(* Etags of the manifest are drawn in order, and one stands for one        *)
(* manifest.                                                               *)
ManifestsMatch ==
    /\ manifest.etag = 0 => manifest = NoManifest
    /\ \A w \in Writer : /\ man[w].etag <= manifest.etag
                         /\ Current(w) => man[w] = manifest

(* Generation snapshots (commit 0) are empty.                              *)
SeedsEmpty ==
    /\ \A k \in DOMAIN objs : k.seq = 0 => objs[k] = {}
    /\ manifest.snap.seq = 0 => manifest.base = {}

(* The snapshot the manifest names is the one it was written for.          *)
SnapIntact == manifest.snap \in DOMAIN objs => objs[manifest.snap] = manifest.base

(* A writer on the current manifest has its rows, and thinks shipped only  *)
(* what it holds.                                                          *)
LocalHolds ==
    \A w \in Writer : Current(w) /\ pc[w] # "restore" =>
        Content(man[w]) \subseteq db[w] /\ shipped[w] \subseteq Content(man[w])

(* A commit under way keeps the rows of the manifest it replaces and       *)
(* covers those it will acknowledge.                                       *)
PendHolds ==
    \A w \in Writer : Uploading(w) =>
        /\ pend[w].key.seq # 0
        /\ \/ pend[w].m.snap = pend[w].key /\ pend[w].m.base = pend[w].body
           \/ pend[w].m.snap = man[w].snap /\ pend[w].m.base = man[w].base
        /\ pend[w].upto \subseteq db[w]
        /\ Current(w) => /\ Content(man[w]) \subseteq Content(pend[w].m)
                         /\ Content(pend[w].m) \subseteq db[w]
                         /\ pend[w].upto \subseteq Content(pend[w].m)

(* The object a commit is about to name is the one it uploaded.            *)
PutIntact ==
    \A w \in Writer : pc[w] = "swapping" /\ pend[w].key \in DOMAIN objs
                        => objs[pend[w].key] = pend[w].body

(* No row is anywhere that no client wrote.                                *)
NothingInvented ==
    /\ Content(manifest) \subseteq issued
    /\ \A k \in DOMAIN objs : objs[k] \subseteq issued
    /\ \A w \in Writer : /\ Content(man[w]) \subseteq issued
                         /\ db[w] \subseteq issued
                         /\ pend[w].body \subseteq issued
                         /\ Content(pend[w].m) \subseteq issued

DurableInv ==
    /\ TypeOK /\ ManifestsMatch /\ SeedsEmpty /\ SnapIntact
    /\ LocalHolds /\ PendHolds /\ PutIntact /\ NothingInvented
    /\ AckedDurable

----------------------------------------------------------------------------
(* The contents depend on the rows of the snapshot and on the segments     *)
(* alone.                                                                  *)
LEMMA ContentOf ==
    ASSUME NEW m \in Manifests, NEW n \in Manifests, n.base = m.base, n.segs = m.segs
    PROVE  Content(n) = Content(m)
BY DEF Content

(* A bucket without commits holds no row.                                  *)
LEMMA ContentEmpty == Content(NoManifest) = {} /\ Content(FirstManifest) = {}
BY DEF Content, NoManifest, FirstManifest

(* A manifest with more segments holds more rows.                          *)
LEMMA ContentGrows ==
    ASSUME NEW m \in Manifests, NEW n \in Manifests, n.base = m.base, m.segs \subseteq n.segs
    PROVE  Content(m) \subseteq Content(n)
BY DEF Content

(* A manifest with one new segment, on the same snapshot, adds the rows of *)
(* that segment and no others.                                             *)
LEMMA ContentSegment ==
    ASSUME NEW m \in Manifests, NEW n \in Manifests, n.base = m.base,
           NEW e \in n.segs, n.segs \subseteq m.segs \cup {e}
    PROVE  /\ e.body \subseteq Content(n) /\ m.base \subseteq Content(n)
           /\ Content(n) \subseteq Content(m) \cup e.body
BY Zenon DEF Content

(* Steps that leave the manifests and the commits alone: objects may go,   *)
(* rows may be written, a process may move on without starting a commit.   *)
LEMMA QuietDurable ==
    ASSUME DurableInv, TypeOK',
           UNCHANGED <<manifest, man, shipped, pend, acked>>,
           DOMAIN objs' \subseteq DOMAIN objs, \A k \in DOMAIN objs' : objs'[k] = objs[k],
           issued \subseteq issued',
           \A v \in Writer : db[v] \subseteq db'[v] /\ db'[v] \subseteq issued',
           \A v \in Writer : \/ pc'[v] = pc[v]
                             \/ pc[v] # "restore" /\ pc'[v] \notin {"uploading", "swapping"}
    PROVE  DurableInv'
<1> USE DEF DurableInv
<1>1. ManifestsMatch'
  BY DEF ManifestsMatch, Current
<1>2. SeedsEmpty' /\ SnapIntact'
  BY DEF SeedsEmpty, SnapIntact
<1>3. LocalHolds'
  BY DEF LocalHolds, Current
<1>4. PendHolds'
  BY DEF PendHolds, Uploading, Current
<1>5. PutIntact'
  BY DEF PutIntact
<1>6. NothingInvented'
  BY DEF NothingInvented
<1>7. AckedDurable'
  BY DEF AckedDurable
<1> QED
  BY <1>1, <1>2, <1>3, <1>4, <1>5, <1>6, <1>7

(* What happens to the fields of one writer while the bucket stays as it   *)
(* is: it dies, adopts the current manifest, restores, or gives up a       *)
(* commit.                                                                 *)
LEMMA LocalDurable ==
    ASSUME DurableInv, TypeOK', NEW w \in Writer,
           UNCHANGED <<manifest, objs, issued, acked>>,
           \A v \in Writer \ {w} :
               /\ man'[v] = man[v] /\ db'[v] = db[v] /\ shipped'[v] = shipped[v]
               /\ pend'[v] = pend[v] /\ pc'[v] = pc[v],
           man'[w] \in {NoManifest, manifest, man[w]},
           pc'[w] \notin {"uploading", "swapping"},
           db'[w] \subseteq issued,
           pend'[w].body \subseteq issued, Content(pend'[w].m) \subseteq issued,
           Current(w)' /\ pc'[w] # "restore"
             => Content(man'[w]) \subseteq db'[w] /\ shipped'[w] \subseteq Content(man'[w])
    PROVE  DurableInv'
<1> USE DEF DurableInv
<1>1. ManifestsMatch'
  <2>1. manifest.etag \in Nat /\ NoManifest.etag = 0
    BY ManifestFields DEF TypeOK, StoreTypeOK, NoManifest
  <2>2. /\ manifest.etag = 0 => manifest = NoManifest
        /\ \A v \in Writer : /\ man[v].etag <= manifest.etag
                             /\ man[v].etag = manifest.etag => man[v] = manifest
    BY DEF ManifestsMatch, Current
  <2>3. man'[w].etag <= manifest.etag /\ (man'[w].etag = manifest.etag => man'[w] = manifest)
    BY <2>1, <2>2
  <2> QED
    BY <2>2, <2>3 DEF ManifestsMatch, Current
<1>2. SeedsEmpty' /\ SnapIntact'
  BY DEF SeedsEmpty, SnapIntact
<1>3. LocalHolds'
  BY DEF LocalHolds, Current
<1>4. PendHolds'
  BY DEF PendHolds, Uploading, Current
<1>5. PutIntact'
  BY DEF PutIntact
<1>6. NothingInvented'
  BY ContentEmpty DEF NothingInvented
<1>7. AckedDurable'
  BY DEF AckedDurable
<1> QED
  BY <1>1, <1>2, <1>3, <1>4, <1>5, <1>6, <1>7

(* A new manifest, that keeps the rows of the old one and names a snapshot *)
(* that is intact.  Its writer either knows of it or is on an old one now, *)
(* as every other writer is.                                               *)
LEMMA NewManifestDurable ==
    ASSUME DurableInv, TypeOK', NEW w \in Writer, NEW m \in Manifests, PutManifest(w, m),
           UNCHANGED <<objs, issued>>,
           \A v \in Writer \ {w} :
               /\ man'[v] = man[v] /\ db'[v] = db[v] /\ shipped'[v] = shipped[v]
               /\ pend'[v] = pend[v] /\ pc'[v] = pc[v],
           Content(manifest) \subseteq Content(m), Content(m) \subseteq issued,
           m.snap.seq = 0 => m.base = {},
           m.snap \in DOMAIN objs => objs[m.snap] = m.base,
           acked' \subseteq acked \cup Content(m),
           pc'[w] \notin {"uploading", "swapping"},
           db'[w] \subseteq issued,
           pend'[w].body \subseteq issued, Content(pend'[w].m) \subseteq issued,
           \/ man'[w] \in {NoManifest, man[w]}
           \/ /\ man'[w] = manifest'
              /\ Content(m) \subseteq db'[w] /\ shipped'[w] \subseteq Content(m)
    PROVE  DurableInv'
<1> USE DEF DurableInv
<1>1. /\ manifest \in Manifests /\ manifest.etag \in Nat /\ NoManifest.etag = 0
      /\ \A v \in Writer : man[v].etag \in Nat /\ man[v].etag <= manifest.etag
  BY ManifestFields DEF TypeOK, StoreTypeOK, ProcessTypeOK, NoManifest, ManifestsMatch
<1>2. /\ manifest'.etag = manifest.etag + 1
      /\ manifest'.snap = m.snap /\ manifest'.base = m.base /\ manifest'.segs = m.segs
  BY DEF PutManifest, Manifests
<1>3. Content(manifest') = Content(m)
  BY <1>2, ContentOf DEF TypeOK, StoreTypeOK
<1>4. \A v \in Writer : \/ man'[v].etag < manifest'.etag
                        \/ v = w /\ man'[w] = manifest'
  BY <1>1, <1>2
<1>5. ManifestsMatch'
  BY <1>1, <1>2, <1>4 DEF ManifestsMatch, Current
<1>6. SeedsEmpty' /\ SnapIntact'
  BY <1>2 DEF SeedsEmpty, SnapIntact
<1>7. \A v \in Writer : Current(v)' => v = w /\ man'[w] = manifest'
  BY <1>1, <1>2, <1>4 DEF Current
<1>8. LocalHolds'
  <2>1. manifest'.etag # man[w].etag /\ manifest'.etag # NoManifest.etag
    BY <1>1, <1>2
  <2>2. man'[w] = manifest' => Content(m) \subseteq db'[w] /\ shipped'[w] \subseteq Content(m)
    BY <2>1
  <2> QED
    BY <1>3, <1>7, <2>2 DEF LocalHolds
<1>9. PendHolds'
  BY <1>7 DEF PendHolds, Uploading
<1>10. PutIntact'
  BY DEF PutIntact
<1>11. NothingInvented'
  BY <1>3, ContentEmpty DEF NothingInvented
<1>12. AckedDurable'
  BY <1>3 DEF AckedDurable
<1> QED
  BY <1>5, <1>6, <1>8, <1>9, <1>10, <1>11, <1>12

----------------------------------------------------------------------------
(* A process that ends takes nothing from the bucket.                      *)
LEMMA DieDurable ==
    ASSUME DurableInv, TypeOK', NEW w \in Writer, Die(w), UNCHANGED <<storeVars, clientVars>>
    PROVE  DurableInv'
<1>1. /\ man'[w] = NoManifest /\ db'[w] = {} /\ shipped'[w] = {}
      /\ pend'[w] = NoCommit /\ pc'[w] = "dead"
      /\ \A v \in Writer \ {w} :
            /\ man'[v] = man[v] /\ db'[v] = db[v] /\ shipped'[v] = shipped[v]
            /\ pend'[v] = pend[v] /\ pc'[v] = pc[v]
  BY DEF Die, Goto, DurableInv, TypeOK, ProcessTypeOK
<1>2. NoCommit.body = {} /\ Content(NoCommit.m) = {}
  BY ContentEmpty DEF NoCommit
<1> QED
  BY <1>1, <1>2, LocalDurable, ContentEmpty DEF storeVars, clientVars

(* A boot reads the manifest into this.manifest, then restores.            *)
LEMMA AdoptDurable ==
    ASSUME DurableInv, TypeOK', NEW w \in Writer,
           man' = [man EXCEPT ![w] = manifest], Goto(w, "restore"),
           UNCHANGED <<storeVars, clientVars, db, shipped, pend>>
    PROVE  DurableInv'
<1>1. /\ man'[w] = manifest /\ db'[w] = db[w] /\ pend'[w] = pend[w] /\ pc'[w] = "restore"
      /\ \A v \in Writer \ {w} :
            /\ man'[v] = man[v] /\ db'[v] = db[v] /\ shipped'[v] = shipped[v]
            /\ pend'[v] = pend[v] /\ pc'[v] = pc[v]
  BY DEF Goto, DurableInv, TypeOK, ProcessTypeOK
<1>2. /\ db[w] \subseteq issued /\ pend[w].body \subseteq issued
      /\ Content(pend[w].m) \subseteq issued
  BY DEF DurableInv, NothingInvented
<1> QED
  BY <1>1, <1>2, LocalDurable DEF storeVars, clientVars

(* What a restore of the current manifest yields is its contents: the CRCs *)
(* see to the segments, SnapIntact to the snapshot.                        *)
LEMMA RestoreDurable ==
    ASSUME DurableInv, TypeOK', NEW w \in Writer, Restore(w)
    PROVE  DurableInv'
<1>1. CASE Die(w)
  BY <1>1, DieDurable DEF Restore
<1>2. CASE /\ RestoreOk(man[w])
           /\ next[w] # "dead"
           /\ db' = [db EXCEPT ![w] = Restored(man[w])]
           /\ shipped' = [shipped EXCEPT ![w] = Restored(man[w])]
           /\ Goto(w, next[w])
           /\ UNCHANGED <<man, pend>>
  <2>1. /\ man'[w] = man[w] /\ pend'[w] = pend[w] /\ pc'[w] = next[w]
        /\ db'[w] = Restored(man[w]) /\ shipped'[w] = Restored(man[w])
        /\ \A v \in Writer \ {w} :
              /\ man'[v] = man[v] /\ db'[v] = db[v] /\ shipped'[v] = shipped[v]
              /\ pend'[v] = pend[v] /\ pc'[v] = pc[v]
    BY <1>2 DEF Goto, DurableInv, TypeOK, ProcessTypeOK
  <2>2. next[w] \in {"upgrade", "stamp", "serving", "dead"}
    BY DEF DurableInv, TypeOK, ProcessTypeOK
  <2>3. Restored(man[w]) \subseteq issued
    <3>1. objs[man[w].snap] \subseteq issued
      BY <1>2 DEF RestoreOk, DurableInv, NothingInvented
    <3>2. UNION {e.body : e \in man[w].segs} \subseteq issued
      BY DEF DurableInv, NothingInvented, Content
    <3> QED
      BY <3>1, <3>2 DEF Restored
  <2>4. Current(w) => Restored(man[w]) = Content(man[w])
    <3> SUFFICES ASSUME Current(w)
                 PROVE  Restored(man[w]) = Content(man[w])
      OBVIOUS
    <3>1. man[w] = manifest
      BY DEF DurableInv, ManifestsMatch
    <3>2. objs[man[w].snap] = man[w].base
      BY <1>2, <3>1 DEF RestoreOk, DurableInv, SnapIntact
    <3> QED
      BY <3>2 DEF Restored, Content
  <2>5. Current(w)' => Current(w)
    BY <1>2, <2>1 DEF Current, Restore, storeVars
  <2>6. pend[w].body \subseteq issued /\ Content(pend[w].m) \subseteq issued
    BY DEF DurableInv, NothingInvented
  <2>7. Current(w)' => Content(man'[w]) \subseteq db'[w] /\ shipped'[w] \subseteq Content(man'[w])
    BY <2>1, <2>4, <2>5
  <2>8. UNCHANGED <<manifest, objs, issued, acked>>
    BY DEF Restore, storeVars, clientVars
  <2> QED
    BY <2>1, <2>2, <2>3, <2>6, <2>7, <2>8, LocalDurable
<1> QED
  BY <1>1, <1>2 DEF Restore

(* boot()'s own PUTs of the manifest: the stamp, which changes the token   *)
(* only, and the first manifest, which is empty.  A writer that is told    *)
(* 412 about a PUT that has landed goes on to read the manifest.           *)
LEMMA BootPutDurable ==
    ASSUME DurableInv, TypeOK', NEW w \in Writer, NEW m \in Manifests,
           PutManifest(w, m), UNCHANGED <<objs, clientVars>>,
           \/ Replied(w)
           \/ (Goto(w, "stampget") \/ Goto(w, "seedget")) /\ UNCHANGED localVars,
           Content(m) = Content(manifest),
           Content(m) \subseteq db[w], shipped[w] \subseteq Content(m),
           m.snap.seq = 0 => m.base = {},
           m.snap \in DOMAIN objs => objs[m.snap] = m.base
    PROVE  DurableInv'
<1>1. /\ \A v \in Writer \ {w} :
            /\ man'[v] = man[v] /\ db'[v] = db[v] /\ shipped'[v] = shipped[v]
            /\ pend'[v] = pend[v] /\ pc'[v] = pc[v]
      /\ \/ /\ man'[w] = manifest' /\ pc'[w] = "serving"
            /\ db'[w] = db[w] /\ shipped'[w] = shipped[w] /\ pend'[w] = pend[w]
         \/ man'[w] = NoManifest /\ pc'[w] = "dead" /\ db'[w] = {} /\ pend'[w] = NoCommit
         \/ /\ man'[w] = man[w] /\ pc'[w] \in {"stampget", "seedget"}
            /\ db'[w] = db[w] /\ shipped'[w] = shipped[w] /\ pend'[w] = pend[w]
  BY DEF Replied, Die, Goto, localVars, DurableInv, TypeOK, ProcessTypeOK
<1>2. NoCommit.body = {} /\ Content(NoCommit.m) = {}
  BY ContentEmpty DEF NoCommit
<1>3. /\ db[w] \subseteq issued /\ pend[w].body \subseteq issued
      /\ Content(pend[w].m) \subseteq issued /\ Content(manifest) \subseteq issued
  BY DEF DurableInv, NothingInvented
<1>4. /\ pc'[w] \notin {"uploading", "swapping"} /\ db'[w] \subseteq issued
      /\ pend'[w].body \subseteq issued /\ Content(pend'[w].m) \subseteq issued
  BY <1>1, <1>2, <1>3
<1>5. \/ man'[w] \in {NoManifest, man[w]}
      \/ /\ man'[w] = manifest'
         /\ Content(m) \subseteq db'[w] /\ shipped'[w] \subseteq Content(m)
  BY <1>1
<1>6. UNCHANGED <<objs, issued>> /\ acked' \subseteq acked \cup Content(m)
  BY DEF clientVars
<1> QED
  BY <1>1, <1>3, <1>4, <1>5, <1>6, NewManifestDurable

(* fenceStamp() changes the token of the manifest and no row of it.        *)
LEMMA StampDurable ==
    ASSUME DurableInv, TypeOK', NEW w \in Writer, Stamp(w)
    PROVE  DurableInv'
<1> DEFINE m == [man[w] EXCEPT !.token = lz[w].token]
<1>1. CASE /\ CanSwap(w) /\ PutManifest(w, m)
           /\ Replied(w) \/ (Goto(w, "stampget") /\ UNCHANGED localVars)
  <2>1. man[w] = manifest /\ manifest \in Manifests
    BY <1>1 DEF CanSwap, DurableInv, ManifestsMatch, Current, TypeOK, StoreTypeOK
  <2>2. m \in Manifests /\ m.base = manifest.base /\ m.segs = manifest.segs /\ m.snap = manifest.snap
    <3>1. lz[w].token \in Nat
      BY FieldTypes DEF DurableInv, TypeOK
    <3> QED
      BY <2>1, <3>1 DEF Manifests
  <2>3. Content(m) = Content(manifest)
    BY <2>1, <2>2, ContentOf
  <2>4. Content(m) \subseteq db[w] /\ shipped[w] \subseteq Content(m)
    BY <1>1, <2>1, <2>3 DEF Stamp, DurableInv, LocalHolds, Current, CanSwap
  <2>5. m.snap.seq = 0 => m.base = {}
    BY <2>2 DEF DurableInv, SeedsEmpty
  <2>6. m.snap \in DOMAIN objs => objs[m.snap] = m.base
    BY <2>2 DEF DurableInv, SnapIntact
  <2>7. UNCHANGED <<objs, clientVars>>
    BY DEF Stamp
  <2> HIDE DEF m
  <2> QED
    BY <1>1, <2>2, <2>3, <2>4, <2>5, <2>6, <2>7, BootPutDurable
<1>2. CASE Goto(w, "stampget") /\ UNCHANGED <<manifest, localVars>>
  <2>1. \A v \in Writer : pc'[v] = pc[v] \/ (pc[v] # "restore" /\ pc'[v] = "stampget")
    BY <1>2 DEF Stamp, Goto, DurableInv, TypeOK, ProcessTypeOK
  <2>2. \A v \in Writer : db[v] \subseteq issued
    BY DEF DurableInv, NothingInvented
  <2> QED
    BY <1>2, <2>1, <2>2, QuietDurable DEF Stamp, localVars, clientVars
<1> QED
  BY <1>1, <1>2 DEF Stamp, ManifestRefused, localVars

(* The first manifest is created where there was none.                     *)
LEMMA SeedPutDurable ==
    ASSUME DurableInv, TypeOK', NEW w \in Writer, SeedPut(w)
    PROVE  DurableInv'
<1> DEFINE m == SeedManifest(w)
<1>1. CASE /\ manifest.etag = 0 /\ PutManifest(w, m)
           /\ Replied(w) \/ (Goto(w, "seedget") /\ UNCHANGED localVars)
  <2>1. manifest = NoManifest
    BY <1>1 DEF DurableInv, ManifestsMatch
  <2>2. SeedKey(w) \in Keys /\ lz[w].token \in Nat
    BY FieldTypes DEF SeedKey, Key, Keys, DurableInv, TypeOK
  <2>3. m \in Manifests /\ m.base = {} /\ m.segs = {} /\ m.snap = SeedKey(w)
    BY <2>2, NoManifestType DEF SeedManifest, Manifests, NoManifest
  <2>4. Content(m) = {} /\ Content(manifest) = {}
    BY <2>1, <2>3, ContentEmpty DEF Content
  <2>5. Current(w)
    <3>1. man[w].etag \in Nat /\ man[w].etag <= 0
      BY <1>1, ManifestFields DEF DurableInv, ManifestsMatch, TypeOK, ProcessTypeOK
    <3> QED
      BY <1>1, <3>1 DEF Current
  <2>6. shipped[w] \subseteq {}
    BY <2>4, <2>5 DEF SeedPut, DurableInv, LocalHolds, ManifestsMatch
  <2>7. m.snap \in DOMAIN objs => objs[m.snap] = m.base
    BY <2>3 DEF SeedKey, Key, DurableInv, SeedsEmpty
  <2>8. UNCHANGED <<objs, clientVars>>
    BY DEF SeedPut
  <2> HIDE DEF m
  <2> QED
    BY <1>1, <2>3, <2>4, <2>6, <2>7, <2>8, BootPutDurable
<1>2. CASE Goto(w, "seedget") /\ UNCHANGED <<manifest, localVars>>
  <2>1. \A v \in Writer : pc'[v] = pc[v] \/ (pc[v] # "restore" /\ pc'[v] = "seedget")
    BY <1>2 DEF SeedPut, Goto, DurableInv, TypeOK, ProcessTypeOK
  <2>2. \A v \in Writer : db[v] \subseteq issued
    BY DEF DurableInv, NothingInvented
  <2> QED
    BY <1>2, <2>1, <2>2, QuietDurable DEF SeedPut, localVars, clientVars
<1> QED
  BY <1>1, <1>2 DEF SeedPut, ManifestRefused, localVars

(* The object of a new generation is empty, and so is any it replaces.     *)
LEMMA SeedDurable ==
    ASSUME DurableInv, TypeOK', NEW w \in Writer, Seed(w)
    PROVE  DurableInv'
<1> USE DEF DurableInv
<1>1. SeedKey(w).seq = 0
  BY DEF SeedKey, Key
<1>2. /\ objs' = [x \in DOMAIN objs \cup {SeedKey(w)} |-> IF x = SeedKey(w) THEN {} ELSE objs[x]]
      /\ UNCHANGED <<manifest, man, db, shipped, pend, issued, acked>>
      /\ \A v \in Writer : pc'[v] = pc[v] \/ (pc[v] = "leasing" /\ pc'[v] = "seedput")
  BY DEF Seed, PutObj, Goto, localVars, clientVars, TypeOK, ProcessTypeOK
<1>3. ManifestsMatch' /\ AckedDurable'
  BY <1>2 DEF ManifestsMatch, Current, AckedDurable
<1>4. SeedsEmpty' /\ SnapIntact'
  BY <1>1, <1>2 DEF SeedsEmpty, SnapIntact
<1>5. LocalHolds'
  BY <1>2 DEF LocalHolds, Current
<1>6. PendHolds'
  BY <1>2 DEF PendHolds, Uploading, Current
<1>7. PutIntact'
  BY <1>1, <1>2 DEF PutIntact, PendHolds, Uploading
<1>8. NothingInvented'
  BY <1>2 DEF NothingInvented
<1> QED
  BY <1>3, <1>4, <1>5, <1>6, <1>7, <1>8

----------------------------------------------------------------------------
(* The start of a commit, with a manifest that covers everything local.    *)
LEMMA BeginDurable ==
    ASSUME DurableInv, TypeOK', NEW w \in Writer, NEW kind \in {"snap", "wal"},
           NEW body \in SUBSET Row, NEW m \in Manifests, Begin(w, CommitKey(w, kind), body, m),
           body \subseteq db[w], Content(m) \subseteq issued,
           \/ m.snap = CommitKey(w, kind) /\ m.base = body
           \/ m.snap = man[w].snap /\ m.base = man[w].base,
           Current(w) => /\ Content(man[w]) \subseteq Content(m)
                         /\ Content(m) \subseteq db[w] /\ db[w] \subseteq Content(m)
    PROVE  DurableInv'
<1> USE DEF DurableInv
<1> DEFINE n == [m EXCEPT !.seq = man[w].seq + 1, !.token = Token(w)]
           c == [key |-> CommitKey(w, kind), body |-> body, upto |-> db[w], m |-> n]
<1>1. n \in Manifests /\ n.base = m.base /\ n.segs = m.segs /\ n.snap = m.snap
  <2>1. Token(w) \in Nat /\ man[w].seq + 1 \in Nat
    BY TokenType DEF TypeOK
  <2> QED
    BY <2>1 DEF Manifests
<1>2. Content(n) = Content(m)
  BY <1>1, ContentOf
<1>3. CommitKey(w, kind).seq # 0
  <2>1. man[w].seq \in Nat /\ CommitKey(w, kind).seq = man[w].seq + 1
    BY TokenType DEF CommitKey, Key, TypeOK
  <2> QED
    BY <2>1
<1>4. /\ pend' = [pend EXCEPT ![w] = c]
      /\ pc' = [pc EXCEPT ![w] = "uploading"] /\ pc[w] = "serving"
      /\ UNCHANGED <<manifest, objs, man, db, shipped, issued, acked>>
  BY DEF Begin, Goto, storeVars, clientVars
<1> HIDE DEF n
<1>5. /\ c.key = CommitKey(w, kind) /\ c.body = body /\ c.upto = db[w] /\ c.m = n
  OBVIOUS
<1> HIDE DEF c
<1>6. /\ pend'[w] = c /\ pc'[w] = "uploading"
      /\ \A v \in Writer \ {w} : pend'[v] = pend[v] /\ pc'[v] = pc[v]
  BY <1>4 DEF TypeOK, ProcessTypeOK
<1>7. ManifestsMatch' /\ AckedDurable' /\ SeedsEmpty' /\ SnapIntact'
  BY <1>4 DEF ManifestsMatch, Current, AckedDurable, SeedsEmpty, SnapIntact
<1>8. LocalHolds'
  BY <1>4, <1>6 DEF LocalHolds, Current
<1>9. PendHolds'
  <2> SUFFICES ASSUME NEW v \in Writer, Uploading(v)'
               PROVE  /\ pend'[v].key.seq # 0
                      /\ \/ pend'[v].m.snap = pend'[v].key /\ pend'[v].m.base = pend'[v].body
                         \/ pend'[v].m.snap = man[v].snap /\ pend'[v].m.base = man[v].base
                      /\ pend'[v].upto \subseteq db[v]
                      /\ Current(v) => /\ Content(man[v]) \subseteq Content(pend'[v].m)
                                       /\ Content(pend'[v].m) \subseteq db[v]
                                       /\ pend'[v].upto \subseteq Content(pend'[v].m)
    BY <1>4 DEF PendHolds, Current
  <2>1. CASE v = w
    BY <1>1, <1>2, <1>3, <1>5, <1>6, <2>1
  <2>2. CASE v # w
    BY <1>6, <2>2 DEF PendHolds, Uploading
  <2> QED
    BY <2>1, <2>2
<1>10. PutIntact'
  BY <1>4, <1>6 DEF PutIntact
<1>11. NothingInvented'
  <2>1. body \subseteq issued
    BY DEF NothingInvented
  <2> QED
    BY <1>2, <1>4, <1>5, <1>6, <2>1 DEF NothingInvented
<1> QED
  BY <1>7, <1>8, <1>9, <1>10, <1>11

(* A commit that starts covers what its writer has restored and written.   *)
LEMMA CommitStartDurable ==
    ASSUME DurableInv, TypeOK', NEW w \in Writer,
           CommitRebaseline(w) \/ CommitIncremental(w) \/ CommitSnapshot(w)
    PROVE  DurableInv'
<1>1. /\ man[w] \in Manifests /\ db[w] \in SUBSET Row
      /\ CommitKey(w, "wal") \in Keys /\ CommitKey(w, "snap") \in Keys
      /\ db[w] \subseteq issued /\ Content(man[w]) \subseteq issued
      /\ man[w].base \subseteq Content(man[w])
  BY TokenType DEF DurableInv, NothingInvented, TypeOK, ProcessTypeOK, Content
<1>2. Current(w) /\ pc[w] = "serving" =>
        Content(man[w]) \subseteq db[w] /\ shipped[w] \subseteq Content(man[w])
  BY DEF DurableInv, LocalHolds
<1>3. CASE CommitRebaseline(w)
  <2> DEFINE key  == CommitKey(w, "wal")
             body == db[w] \ man[w].base
             m    == [man[w] EXCEPT !.segs = {[key |-> key, body |-> body]}]
  <2>1. m \in Manifests /\ m.base = man[w].base /\ m.snap = man[w].snap
        /\ m.segs = {} \cup {[key |-> key, body |-> body]}
    BY <1>1, SegmentType DEF Manifests
  <2>2. Begin(w, key, body, m) /\ pc[w] = "serving"
    BY <1>3 DEF CommitRebaseline, Begin
  <2> HIDE DEF m, key, body
  <2>3. /\ body \subseteq Content(m) /\ m.base \subseteq Content(m)
        /\ Content(m) \subseteq Content(man[w]) \cup body
    <3> DEFINE e == [key |-> key, body |-> body]
    <3>1. e \in m.segs /\ m.segs \subseteq man[w].segs \cup {e} /\ e.body = body
      BY <2>1
    <3> HIDE DEF e
    <3> QED
      BY <1>1, <2>1, <3>1, ContentSegment
  <2>4. /\ body \subseteq db[w] /\ body \in SUBSET Row /\ db[w] \subseteq Content(m)
        /\ Content(m) \subseteq issued
    BY <1>1, <2>1, <2>3 DEF body
  <2>5. Current(w) => /\ Content(man[w]) \subseteq Content(m)
                      /\ Content(m) \subseteq db[w] /\ db[w] \subseteq Content(m)
    BY <1>2, <2>2, <2>3, <2>4 DEF body
  <2> QED
    BY <2>1, <2>2, <2>4, <2>5, BeginDurable DEF key
<1>4. CASE CommitIncremental(w)
  <2> DEFINE key  == CommitKey(w, "wal")
             body == db[w] \ shipped[w]
             m    == [man[w] EXCEPT !.segs = @ \cup {[key |-> key, body |-> body]}]
  <2>1. m \in Manifests /\ m.base = man[w].base /\ m.snap = man[w].snap
        /\ m.segs = man[w].segs \cup {[key |-> key, body |-> body]}
    BY <1>1, SegmentType DEF Manifests
  <2>2. Begin(w, key, body, m) /\ pc[w] = "serving"
    BY <1>4 DEF CommitIncremental, Begin
  <2> HIDE DEF m, key, body
  <2>3. /\ body \subseteq Content(m) /\ Content(man[w]) \subseteq Content(m)
        /\ Content(m) \subseteq Content(man[w]) \cup body
    <3> DEFINE e == [key |-> key, body |-> body]
    <3>1. e \in m.segs /\ m.segs \subseteq man[w].segs \cup {e} /\ e.body = body
      BY <2>1
    <3>2. Content(man[w]) \subseteq Content(m)
      BY <1>1, <2>1, ContentGrows
    <3> HIDE DEF e
    <3> QED
      BY <1>1, <2>1, <3>1, <3>2, ContentSegment
  <2>4. /\ body \subseteq db[w] /\ body \in SUBSET Row
        /\ Content(m) \subseteq issued
    BY <1>1, <2>3 DEF body
  <2>5. Current(w) => /\ Content(man[w]) \subseteq Content(m)
                      /\ Content(m) \subseteq db[w] /\ db[w] \subseteq Content(m)
    BY <1>2, <2>2, <2>3, <2>4 DEF body
  <2> QED
    BY <2>1, <2>2, <2>4, <2>5, BeginDurable DEF key
<1>5. CASE CommitSnapshot(w)
  <2> DEFINE key == CommitKey(w, "snap")
             m   == [man[w] EXCEPT !.snap = key, !.base = db[w], !.segs = {},
                                   !.prev = IF man[w].snap # key THEN man[w].snap ELSE @]
  <2>1. m \in Manifests /\ m.base = db[w] /\ m.snap = key /\ m.segs = {}
    BY <1>1 DEF Manifests
  <2>2. Begin(w, key, db[w], m) /\ pc[w] = "serving"
    BY <1>5 DEF CommitSnapshot, Begin
  <2> HIDE DEF m
  <2>3. Content(m) = db[w]
    BY <2>1 DEF Content
  <2>4. Current(w) => Content(man[w]) \subseteq Content(m)
    BY <1>2, <2>2, <2>3
  <2>5. Content(m) \subseteq issued
    BY <1>1, <2>3
  <2> HIDE DEF key
  <2> QED
    BY <1>1, <2>1, <2>2, <2>3, <2>4, <2>5, BeginDurable DEF key
<1> QED
  BY <1>3, <1>4, <1>5

(* The end of a commit that failed, or of the reply to it.                 *)
LEMMA GiveUpDurable ==
    ASSUME DurableInv, TypeOK', NEW w \in Writer, AfterCommit(w),
           UNCHANGED <<manifest, objs, man, db, shipped, clientVars>>,
           pc[w] # "restore"
    PROVE  DurableInv'
<1>1. /\ man'[w] = man[w] /\ db'[w] = db[w] /\ shipped'[w] = shipped[w]
      /\ pend'[w] = NoCommit /\ pc'[w] \in {"closing", "serving"}
      /\ \A v \in Writer \ {w} :
            /\ man'[v] = man[v] /\ db'[v] = db[v] /\ shipped'[v] = shipped[v]
            /\ pend'[v] = pend[v] /\ pc'[v] = pc[v]
  BY DEF AfterCommit, Goto, DurableInv, TypeOK, ProcessTypeOK
<1>2. NoCommit.body = {} /\ Content(NoCommit.m) = {}
  BY ContentEmpty DEF NoCommit
<1>3. db[w] \subseteq issued
  BY DEF DurableInv, NothingInvented
<1>4. Current(w)' => Content(man'[w]) \subseteq db'[w] /\ shipped'[w] \subseteq Content(man'[w])
  BY <1>1 DEF DurableInv, LocalHolds, Current
<1>5. UNCHANGED <<issued, acked>>
  BY DEF clientVars
<1> QED
  BY <1>1, <1>2, <1>3, <1>4, <1>5, LocalDurable

(* An upload: by NoKeyClash it touches neither the snapshot of the         *)
(* manifest nor the object of another commit.                              *)
LEMMA UploadDurable ==
    ASSUME DurableInv, TypeOK', NoKeyClash, NEW w \in Writer, Upload(w)
    PROVE  DurableInv'
<1> USE DEF DurableInv
<1> DEFINE k == pend[w].key
<1>1. /\ objs' = [x \in DOMAIN objs \cup {k} |-> IF x = k THEN pend[w].body ELSE objs[x]]
      /\ UNCHANGED <<manifest, man, db, shipped, issued, acked>>
      /\ pc[w] = "uploading"
      /\ \A v \in Writer \ {w} : pend'[v] = pend[v] /\ pc'[v] = pc[v]
      /\ \/ pend'[w] = pend[w] /\ pc'[w] = "swapping"
         \/ pend'[w] = NoCommit /\ pc'[w] \in {"closing", "serving"}
  BY DEF Upload, PutObj, AfterCommit, Goto, clientVars, TypeOK, ProcessTypeOK
<1>2. k # manifest.snap /\ k.seq # 0
  BY <1>1 DEF NoKeyClash, Uploading, Refs, PendHolds
<1>3. \A v \in Writer \ {w} : pc[v] = "swapping" => pend[v].key # k
  BY <1>1 DEF NoKeyClash, Uploading
<1>4. pend[w].body \subseteq issued /\ NoCommit.body = {} /\ Content(NoCommit.m) = {}
  BY ContentEmpty DEF NothingInvented, NoCommit
<1>5. ManifestsMatch' /\ AckedDurable'
  BY <1>1 DEF ManifestsMatch, Current, AckedDurable
<1>6. SeedsEmpty' /\ SnapIntact'
  BY <1>1, <1>2 DEF SeedsEmpty, SnapIntact
<1>7. LocalHolds'
  BY <1>1 DEF LocalHolds, Current
<1>8. PendHolds'
  <2>1. \A v \in Writer : Uploading(v)' => Uploading(v) /\ pend'[v] = pend[v]
    BY <1>1 DEF Uploading
  <2>2. \A v \in Writer : Current(v)' <=> Current(v)
    BY <1>1 DEF Current
  <2> QED BY <1>1, <2>1, <2>2 DEF PendHolds
<1>9. PutIntact'
  BY <1>1, <1>3 DEF PutIntact
<1>10. NothingInvented'
  BY <1>1, <1>4 DEF NothingInvented
<1> QED
  BY <1>5, <1>6, <1>7, <1>8, <1>9, <1>10

(* The swap: its CAS makes it a step from the manifest the commit was      *)
(* built on.                                                               *)
LEMMA SwapDurable ==
    ASSUME DurableInv, TypeOK', NEW w \in Writer, Swap(w)
    PROVE  DurableInv'
<1>1. pc[w] = "swapping" /\ AfterCommit(w) /\ UNCHANGED <<objs, db, issued>>
  BY DEF Swap
<1>2. CASE UNCHANGED <<manifest, man, shipped, acked>>
  BY <1>1, <1>2, GiveUpDurable DEF clientVars
<1>3. CASE /\ CanSwap(w)
           /\ PutManifest(w, pend[w].m)
           /\ \/ /\ man' = [man EXCEPT ![w] = manifest']
                 /\ shipped' = [shipped EXCEPT ![w] = pend[w].upto]
                 /\ acked' = acked \cup pend[w].upto
              \/ UNCHANGED <<man, shipped, acked>>
  <2> DEFINE m == pend[w].m
  <2>1. m \in Manifests
    BY DEF DurableInv, TypeOK, ProcessTypeOK, Commits
  <2>2. man[w] = manifest /\ Current(w)
    BY <1>3 DEF CanSwap, Current, DurableInv, ManifestsMatch
  <2>3. /\ pend[w].key.seq # 0
        /\ \/ m.snap = pend[w].key /\ m.base = pend[w].body
           \/ m.snap = manifest.snap /\ m.base = manifest.base
        /\ Content(manifest) \subseteq Content(m)
        /\ Content(m) \subseteq db[w] /\ pend[w].upto \subseteq Content(m)
    BY <1>1, <2>2 DEF DurableInv, PendHolds, Uploading
  <2>4. m.snap.seq = 0 => m.base = {}
    BY <2>3 DEF DurableInv, SeedsEmpty
  <2>5. m.snap \in DOMAIN objs => objs[m.snap] = m.base
    BY <1>1, <2>3 DEF DurableInv, SnapIntact, PutIntact
  <2>6. Content(m) \subseteq issued /\ db[w] \subseteq issued
    BY DEF DurableInv, NothingInvented
  <2>7. NoCommit.body = {} /\ Content(NoCommit.m) = {}
    BY ContentEmpty DEF NoCommit
  <2>8. /\ pend'[w] = NoCommit /\ pc'[w] \in {"closing", "serving"} /\ db'[w] = db[w]
        /\ \A v \in Writer \ {w} :
              /\ man'[v] = man[v] /\ db'[v] = db[v] /\ shipped'[v] = shipped[v]
              /\ pend'[v] = pend[v] /\ pc'[v] = pc[v]
        /\ \/ man'[w] = manifest' /\ shipped'[w] = pend[w].upto
           \/ man'[w] = man[w]
    BY <1>1, <1>3 DEF AfterCommit, Goto, DurableInv, TypeOK, ProcessTypeOK
  <2>9. acked' \subseteq acked \cup Content(m)
    BY <1>3, <2>3
  <2>10. PutManifest(w, m) /\ UNCHANGED <<objs, issued>>
    BY <1>1, <1>3
  <2> HIDE DEF m
  <2>11. \/ man'[w] \in {NoManifest, man[w]}
         \/ /\ man'[w] = manifest'
            /\ Content(m) \subseteq db'[w] /\ shipped'[w] \subseteq Content(m)
    BY <2>3, <2>8
  <2>12. /\ pc'[w] \notin {"uploading", "swapping"} /\ db'[w] \subseteq issued
         /\ pend'[w].body \subseteq issued /\ Content(pend'[w].m) \subseteq issued
    BY <2>6, <2>7, <2>8
  <2> QED
    BY <2>1, <2>3, <2>4, <2>5, <2>6, <2>8, <2>9, <2>10, <2>11, <2>12, NewManifestDurable
<1> QED
  BY <1>2, <1>3 DEF Swap, ManifestRefused

(* The steps of boot() keep the invariant.                                 *)
LEMMA BootDurable ==
    ASSUME DurableInv, TypeOK', NEW w \in Writer, Boot(w)
    PROVE  DurableInv'
<1>1. \A v \in Writer : db[v] \subseteq issued
  BY DEF DurableInv, NothingInvented
<1>2. pc \in [Writer -> Pcs]
  BY DEF DurableInv, TypeOK, ProcessTypeOK
<1>3. CASE BootRead(w)
  <2>1. \A v \in Writer : pc'[v] = pc[v] \/ (pc[v] = "off" /\ pc'[v] = "leasing")
    BY <1>2, <1>3 DEF BootRead, Goto
  <2> QED
    BY <1>1, <1>3, <2>1, QuietDurable DEF BootRead, storeVars, clientVars
<1>4. CASE BootLease(w)
  <2>1. CASE Die(w)
    BY <1>4, <2>1, DieDurable DEF BootLease
  <2>2. CASE UNCHANGED <<pc, localVars>>
    BY <1>1, <1>4, <2>2, QuietDurable DEF BootLease, localVars, storeVars, clientVars
  <2> QED
    BY <1>4, <2>1, <2>2 DEF BootLease
<1>5. CASE Reread(w) \/ StampGet(w) \/ SeedGet(w)
  BY <1>5, AdoptDurable DEF Reread, StampGet, SeedGet
<1>6. CASE Upgrade(w)
  <2>1. CASE Die(w)
    BY <1>6, <2>1, DieDurable DEF Upgrade
  <2>2. CASE Goto(w, "serving") /\ UNCHANGED localVars
    <3>1. \A v \in Writer : pc'[v] = pc[v] \/ (pc[v] = "upgrade" /\ pc'[v] = "serving")
      BY <1>2, <1>6, <2>2 DEF Upgrade, Goto
    <3> QED
      BY <1>1, <1>6, <2>2, <3>1, QuietDurable DEF Upgrade, localVars, storeVars, clientVars
  <2> QED
    BY <1>6, <2>1, <2>2 DEF Upgrade
<1> QED
  BY <1>3, <1>4, <1>5, <1>6, RestoreDurable, StampDurable, SeedPutDurable, SeedDurable DEF Boot

(* The steps of a commit keep the invariant.                               *)
LEMMA CommitDurable ==
    ASSUME DurableInv, TypeOK', NoKeyClash, NEW w \in Writer, Commit(w)
    PROVE  DurableInv'
<1>1. CASE CommitNothing(w)
  <2>1. \A v \in Writer : /\ db[v] \subseteq issued
                         /\ \/ pc'[v] = pc[v]
                            \/ pc[v] = "serving" /\ pc'[v] \in {"closing", "serving"}
    BY <1>1 DEF CommitNothing, Goto, DurableInv, NothingInvented, TypeOK, ProcessTypeOK
  <2> QED
    BY <1>1, <2>1, QuietDurable DEF CommitNothing, storeVars, clientVars
<1> QED
  BY <1>1, CommitStartDurable, UploadDurable, SwapDurable DEF Commit

(* The remaining steps of a writer keep the invariant.                     *)
LEMMA WriterDurable ==
    ASSUME DurableInv, TypeOK', NEW w \in Writer,
           \/ Write(w) \/ Validate(w)
           \/ Close(w) \/ Release(w) \/ Exit(w) \/ Crash(w)
    PROVE  DurableInv'
<1>1. \A v \in Writer : db[v] \subseteq issued
  BY DEF DurableInv, NothingInvented
<1>2. pc \in [Writer -> Pcs]
  BY DEF DurableInv, TypeOK, ProcessTypeOK
<1>3. CASE Write(w)
  <2>1. PICK r \in Row \ issued :
            issued' = issued \cup {r} /\ db' = [db EXCEPT ![w] = @ \cup ({r} \ Idle)]
    BY <1>3 DEF Write
  <2>2. \A v \in Writer : db[v] \subseteq db'[v] /\ db'[v] \subseteq issued'
    BY <1>1, <2>1 DEF DurableInv, TypeOK, ProcessTypeOK
  <2>3. issued \subseteq issued'
    BY <2>1
  <2> QED
    BY <1>3, <2>2, <2>3, QuietDurable DEF Write, storeVars
<1>4. CASE Validate(w)
  BY <1>1, <1>4, QuietDurable DEF Validate, localVars, storeVars, clientVars
<1>5. CASE Close(w)
  <2>1. \A v \in Writer : pc'[v] = pc[v] \/ (pc[v] # "restore" /\ pc'[v] = "closing")
    BY <1>2, <1>5 DEF Close, Goto, Open
  <2> QED
    BY <1>1, <1>5, <2>1, QuietDurable DEF Close, storeVars, clientVars
<1>6. CASE Release(w)
  BY <1>1, <1>6, QuietDurable DEF Release, localVars, storeVars, clientVars
<1>7. CASE Exit(w) \/ Crash(w)
  BY <1>7, DieDurable DEF Exit, Crash
<1> QED
  BY <1>3, <1>4, <1>5, <1>6, <1>7

(* Deletes landing and time passing keep the invariant.                    *)
LEMMA EnvironmentDurable ==
    ASSUME DurableInv, TypeOK', DeleteLands \/ TtlPasses \/ UNCHANGED vars
    PROVE  DurableInv'
<1>1. \A v \in Writer : db[v] \subseteq issued
  BY DEF DurableInv, NothingInvented
<1>2. /\ DOMAIN objs' \subseteq DOMAIN objs /\ \A k \in DOMAIN objs' : objs'[k] = objs[k]
      /\ UNCHANGED <<manifest, pc, localVars, clientVars>>
  BY DEF DeleteLands, TtlPasses, vars, storeVars
<1> QED
  BY <1>1, <1>2, QuietDurable DEF localVars, clientVars

(* The invariant holds initially.                                          *)
LEMMA InitDurable == Init => DurableInv
<1> SUFFICES ASSUME Init
             PROVE  DurableInv
  OBVIOUS
<1>1. ManifestsMatch
  BY DEF Init, ManifestsMatch, Current, NoManifest, FirstManifest
<1>2. SeedsEmpty /\ SnapIntact
  BY DEF Init, SeedsEmpty, SnapIntact, NoManifest, FirstManifest
<1>3. LocalHolds /\ PendHolds /\ PutIntact
  BY ContentEmpty DEF Init, LocalHolds, PendHolds, PutIntact, Uploading
<1>4. NothingInvented /\ AckedDurable
  BY ContentEmpty DEF Init, NothingInvented, AckedDurable, NoCommit
<1> QED
  BY <1>1, <1>2, <1>3, <1>4, InitType DEF DurableInv

(* Every step keeps the invariant, as long as no two commits share a key.  *)
LEMMA NextDurable ==
    ASSUME DurableInv, NoKeyClash, [Next]_vars
    PROVE  DurableInv'
<1>1. TypeOK'
  BY NextType DEF DurableInv
<1> QED
  BY <1>1, BootDurable, CommitDurable, WriterDurable, EnvironmentDurable DEF Next

(* Durability rests on object keys alone: if no two commits ever share an  *)
(* object key, then whatever the lease, the tokens, the crashes and the    *)
(* lost replies do, an acknowledged row stays in the manifest for good     *)
(* (commit, casManifest and boot of zeropg.ts).                            *)
THEOREM AckedIsDurable == Spec /\ []NoKeyClash => []AckedDurable
<1>1. DurableInv /\ NoKeyClash /\ [Next]_vars => DurableInv'
  BY NextDurable
<1>2. DurableInv => AckedDurable
  BY DEF DurableInv
<1> QED
  BY <1>1, <1>2, InitDurable, PTL DEF Spec

----------------------------------------------------------------------------
(* The implementation of DurableLog.  Only three actions change the        *)
(* manifest, all through the CAS, and none takes a row out.                *)
LEMMA PutGrows ==
    ASSUME DurableInv, TypeOK', NEW w \in Writer, Stamp(w) \/ SeedPut(w) \/ Swap(w)
    PROVE  Content(manifest) \subseteq Content(manifest')
<1>1. man[w] \in Manifests /\ manifest \in Manifests /\ manifest' \in Manifests
  BY DEF DurableInv, TypeOK, StoreTypeOK, ProcessTypeOK
<1>2. CASE Stamp(w)
  <2> DEFINE m == [man[w] EXCEPT !.token = lz[w].token]
  <2>1. CASE CanSwap(w) /\ PutManifest(w, m)
    <3>1. man[w] = manifest
      BY <2>1 DEF CanSwap, DurableInv, ManifestsMatch, Current
    <3>2. manifest'.base = manifest.base /\ manifest'.segs = manifest.segs
      BY <1>1, <2>1, <3>1 DEF PutManifest, Manifests
    <3> QED
      BY <1>1, <3>2, ContentOf
  <2> QED
    BY <1>2, <2>1 DEF Stamp, ManifestRefused
<1>3. CASE SeedPut(w)
  <2>1. CASE manifest.etag = 0
    BY <2>1, ContentEmpty DEF DurableInv, ManifestsMatch
  <2> QED
    BY <1>3, <2>1 DEF SeedPut, ManifestRefused
<1>4. CASE Swap(w)
  <2>1. CASE CanSwap(w) /\ PutManifest(w, pend[w].m)
    <3>1. man[w] = manifest /\ Current(w) /\ pc[w] = "swapping"
      BY <1>4, <2>1 DEF Swap, CanSwap, DurableInv, ManifestsMatch, Current
    <3>2. pend[w].m \in Manifests
      BY DEF DurableInv, TypeOK, ProcessTypeOK, Commits
    <3>3. Content(manifest) \subseteq Content(pend[w].m)
      BY <3>1 DEF DurableInv, PendHolds, Uploading
    <3>4. manifest'.base = pend[w].m.base /\ manifest'.segs = pend[w].m.segs
      BY <2>1, <3>2 DEF PutManifest, Manifests
    <3>5. Content(manifest') = Content(pend[w].m)
      BY <1>1, <3>2, <3>4, ContentOf
    <3> QED
      BY <3>3, <3>5
  <2> QED
    BY <1>4, <2>1 DEF Swap, ManifestRefused
<1> QED
  BY <1>2, <1>3, <1>4

(* Every step grows the contents of the bucket, or lets a client write.    *)
LEMMA StepGrows ==
    ASSUME DurableInv, TypeOK', [Next]_vars
    PROVE  /\ Content(manifest) \subseteq Content(manifest') /\ acked \subseteq acked'
           /\ \/ issued' = issued
              \/ /\ \E r \in Row : r \notin issued /\ issued' = issued \cup {r}
                 /\ UNCHANGED <<manifest, acked>>
<1>1. CASE UNCHANGED <<manifest, clientVars>>
  BY <1>1 DEF clientVars
<1>2. ASSUME NEW w \in Writer, Stamp(w) \/ SeedPut(w) \/ Swap(w)
      PROVE  /\ Content(manifest) \subseteq Content(manifest')
             /\ acked \subseteq acked' /\ issued' = issued
  <2>1. acked \subseteq acked' /\ issued' = issued
    BY <1>2 DEF Stamp, SeedPut, Swap, clientVars
  <2> QED
    BY <1>2, <2>1, PutGrows
<1>3. ASSUME NEW w \in Writer, Write(w)
      PROVE  /\ \E r \in Row : r \notin issued /\ issued' = issued \cup {r}
             /\ UNCHANGED <<manifest, acked>>
  BY <1>3 DEF Write, storeVars
<1>4. ASSUME NEW w \in Writer, Boot(w), ~Stamp(w), ~SeedPut(w)
      PROVE  UNCHANGED <<manifest, clientVars>>
  BY <1>4 DEF Boot, BootRead, BootLease, Reread, Restore, Upgrade, StampGet, Seed, SeedGet, storeVars
<1>5. ASSUME NEW w \in Writer, Commit(w), ~Swap(w)
      PROVE  UNCHANGED <<manifest, clientVars>>
  BY <1>5 DEF Commit, CommitRebaseline, CommitIncremental, CommitSnapshot, CommitNothing, Begin,
              Upload, storeVars
<1>6. ASSUME NEW w \in Writer,
             \/ Validate(w) \/ Close(w) \/ Release(w) \/ Exit(w) \/ Crash(w)
      PROVE  UNCHANGED <<manifest, clientVars>>
  BY <1>6 DEF Validate, Close, Release, Exit, Crash, storeVars
<1>7. CASE DeleteLands \/ TtlPasses \/ UNCHANGED vars
  BY <1>1, <1>7 DEF DeleteLands, TtlPasses, vars, storeVars
<1>8. CASE \E w \in Writer : Write(w)
  BY <1>3, <1>8
<1>9. CASE \E w \in Writer : Stamp(w) \/ SeedPut(w) \/ Swap(w)
  BY <1>2, <1>9
<1>10. CASE \E w \in Writer : \/ Boot(w) /\ ~Stamp(w) /\ ~SeedPut(w)
                              \/ Commit(w) /\ ~Swap(w)
                              \/ Validate(w) \/ Close(w) \/ Release(w)
                              \/ Exit(w) \/ Crash(w)
  BY <1>1, <1>4, <1>5, <1>6, <1>10
<1> QED
  BY <1>7, <1>8, <1>9, <1>10 DEF Next

(* So every step is one of the abstract log, or none.                      *)
LEMMA NextIsLog ==
    ASSUME DurableInv, DurableInv', [Next]_vars
    PROVE  [Log!Next]_(Log!logVars)
<1>1. TypeOK'
  BY DEF DurableInv
<1>2. /\ Content(manifest) \subseteq Content(manifest') /\ acked \subseteq acked'
      /\ \/ issued' = issued
         \/ /\ \E r \in Row : r \notin issued /\ issued' = issued \cup {r}
            /\ UNCHANGED <<manifest, acked>>
  BY <1>1, StepGrows
<1>3. Content(manifest') \subseteq issued' /\ acked' \subseteq Content(manifest')
  BY DEF DurableInv, NothingInvented, AckedDurable
<1>4. CASE issued' = issued
  <2>1. /\ Content(manifest') \in SUBSET issued /\ acked' \in SUBSET issued
        /\ Content(manifest') = Content(manifest) \cup Content(manifest')
        /\ acked' = acked \cup acked'
    BY <1>2, <1>3, <1>4
  <2>2. Log!Commit(Content(manifest'), acked')
    BY <1>3, <1>4, <2>1 DEF Log!Commit
  <2> QED
    BY <2>1, <2>2 DEF Log!Next
<1>5. CASE /\ \E r \in Row : r \notin issued /\ issued' = issued \cup {r}
           /\ UNCHANGED <<manifest, acked>>
  BY <1>5 DEF Log!Next, Log!Issue
<1> QED
  BY <1>2, <1>4, <1>5

(* The writers implement the log of DurableLog, as long as no two commits  *)
(* share an object key: the bucket's contents only grow, with rows clients *)
(* wrote, and a row is acknowledged only when it is among them.            *)
THEOREM BucketIsLog == Spec /\ []NoKeyClash => ImplementsLog
<1>1. Init => Log!Init
  BY ContentEmpty DEF Init, Log!Init
<1>2. DurableInv /\ DurableInv' /\ [Next]_vars => [Log!Next]_(Log!logVars)
  BY NextIsLog
<1>3. DurableInv /\ NoKeyClash /\ [Next]_vars => DurableInv'
  BY NextDurable
<1> QED
  BY <1>1, <1>2, <1>3, InitDurable, PTL DEF Spec, ImplementsLog, Log!Spec
=============================================================================
