---------------------------- MODULE ServerProofs ----------------------------
(***************************************************************************)
(* Theorems about Server, for any number of clients, polls, flush requests *)
(* and writes, with and without PostgREST: its types, what a shutdown on   *)
(* one signal saves (ShutdownKeeps) and what POST /flush covers            *)
(* (FlushCovers).  Both rest on ServerInv.  A write is safe when it is in  *)
(* the bucket or excused, or when the engine is dirty, for then a commit   *)
(* is to come (Safe).  A commit under way covers all that is not excused   *)
(* (CommitCovers), so that it may clear the dirty flag; a flush returns    *)
(* only when what it has looked at is safe (FlushesTrack); and a shutdown  *)
(* has shut the faces through which writes come before it flushes and      *)
(* closes the engine (ShutdownsInOrder), unless it came before them, which *)
(* a boot that nobody stops makes possible (BootOrder).                    *)
(***************************************************************************)
EXTENDS Server, FiniteSetTheorems, WellFoundedInduction, TLAPS

(* Where a poll, a flush request and a shutdown may stand.                 *)
TickAt == {"idle", "waiting", "gone"}
CallAt == {"idle", "flush", "waiting", "flushing", "ok", "gone"}
SigAt  == {"idle", "rest", "front", "ending", "counting", "waiting", "flushed", "closing",
           "closed", "http", "leaving", "exit", "gone"}

(* TypeOK, and what it leaves to the reader.                               *)
Typed ==
    /\ TypeOK
    /\ rest \in BOOLEAN /\ timer \in BOOLEAN /\ stopped \in BOOLEAN
    /\ dirty \in BOOLEAN /\ fenced \in BOOLEAN
    /\ IsFiniteSet(conns)
    /\ applied \in Nat /\ durable \in Nat /\ last \in Nat /\ faults \in Nat
    /\ commit = NoCommit \/ commit \in [phase : {"pacing", "uploading"}, upto : Nat]
    /\ asked \in [Call -> Nat]
    /\ at \in [Caller -> [pc : TickAt \cup CallAt \cup SigAt, w : Nat]]
    /\ \A f \in Caller : at[f].w <= applied
    /\ \A f \in Call : asked[f] <= applied

CallersPlaced ==
    /\ \A t \in Tick : Pc(t) \in TickAt
    /\ \A f \in Call : Pc(f) \in CallAt
    /\ \A s \in Sig : Pc(s) \in SigAt

(* A commit saves, of what has been applied, all but what its window lost. *)
CommitCovers ==
    commit.phase = "uploading" => \A i \in (commit.upto + 1)..applied : i \in excused

(* What the engine knows of it will save, or nothing is left to save.      *)
Safe(n) == dirty \/ Kept(n)

Unopened == {"lease", "restore"}
Unlistened == {"lease", "restore", "wire"}

(* Nothing comes over the wire before the listener is up, and no database  *)
(* is open before it is restored.                                          *)
BootOrder ==
    /\ bootAt \in Unopened => db = "none"
    /\ bootAt = "wire" \/ (\E s \in Sig : Pc(s) = "closing") => db # "none"
    /\ bootAt \in Unlistened => Safe(applied)
    /\ bootAt \in Unlistened \/ db = "none" => front = "none" /\ conns = {} /\ ~rest
    /\ db = "none" => applied = 0

(* What a flush has looked at.                                             *)
FlushesTrack ==
    /\ Safe(last)
    /\ \A f \in Caller : Pc(f) \in {"waiting", "flushing"} => commit # NoCommit
    /\ \A f \in Call : Pc(f) = "flush" => Safe(asked[f])
    /\ \A f \in Call : Pc(f) = "ok" => Kept(asked[f])

(* No other signal has come.                                               *)
Alone(s) == \A x \in Sig : x # s => Pc(x) = "idle"

(* Before wire.stop(), before db.close(), after it.                        *)
BeforeWire  == {"idle", "rest", "front"}
BeforeClose == BeforeWire \cup {"ending", "counting", "waiting", "flushed"}
AfterClose  == {"closed", "http", "leaving", "exit"}

(* The listener is closed and its clients have gone, or it was not up yet. *)
FaceShut(s) ==
    \/ "wire" \in early
    \/ /\ db # "none"
       /\ bootAt \notin Unlistened
       /\ front # "up" /\ ~rest
       /\ Pc(s) # "ending" => conns = {}

(* A shutdown with no other beside it.                                     *)
ShutdownOrder(s) ==
    /\ Pc(s) \in BeforeWire => ~stopped /\ front # "closing"
    /\ Pc(s) = "front" => ~rest
    /\ Pc(s) \in BeforeClose => db \in {"none", "up"}
    /\ Pc(s) \notin BeforeWire => FaceShut(s)
    /\ Pc(s) = "flushed" => Safe(applied)
    /\ Pc(s) = "closing" => db = "closing" /\ (commit # NoCommit \/ Kept(applied))
    /\ Pc(s) \in AfterClose => Kept(applied) /\ (db = "closed" \/ "wire" \in early)
    /\ Pc(s) \in AfterClose \ {"closed"} => http # "up"

ShutdownsInOrder == \A s \in Sig : Alone(s) => ShutdownOrder(s)

ServerInv ==
    /\ Typed /\ CallersPlaced /\ CommitCovers /\ BootOrder /\ FlushesTrack /\ ShutdownsInOrder

----------------------------------------------------------------------------
(* Counting: connections, and the greatest of a set of numbers.            *)

LEMMA NobodyLive ==
  ASSUME Typed
  PROVE  /\ Cardinality(conns) \in Nat
         /\ Live \in Nat
         /\ Live = 0 <=> conns = {} /\ ~rest
<1>1. Cardinality(conns) \in Nat /\ (Cardinality(conns) = 0 <=> conns = {})
  BY FS_CardinalityType, FS_EmptySet DEF Typed
<1> QED
  BY <1>1 DEF Live, Typed

(* The order of numbers, as a set of pairs.                                *)
Before == {p \in Nat \X Nat : p[1] < p[2]}

LEMMA BeforeIsWellFounded == IsWellFoundedOn(Before, Nat)
  BY NatLessThanWellFounded DEF OpToRel, Before

(* A set of numbers has a least one.                                       *)
LEMMA LeastNumber ==
  ASSUME NEW T \in SUBSET Nat, T # {}
  PROVE  \E x \in T : \A y \in T : x <= y
<1>1. PICK x \in T : \A y \in T : ~(<<y, x>> \in Before)
  BY BeforeIsWellFounded, WFMin, Zenon
<1>2. ASSUME NEW y \in T PROVE x <= y
  <2>1. x \in Nat /\ y \in Nat
    OBVIOUS
  <2>2. ~(<<y, x>>[1] < <<y, x>>[2])
    BY <1>1, <2>1 DEF Before
  <2> QED BY <2>1, <2>2
<1> QED BY <1>2

(* A set of numbers with a bound has a greatest one.                       *)
LEMMA MaxIs ==
  ASSUME NEW S \in SUBSET Nat, S # {}, NEW b \in Nat, \A x \in S : x <= b
  PROVE  Max(S) \in S /\ \A x \in S : x <= Max(S)
<1> DEFINE T == {b - x : x \in S}
<1>1. T \in SUBSET Nat /\ T # {}
  <2>1. ASSUME NEW x \in S PROVE b - x \in Nat
    BY x \in Nat, x <= b
  <2> QED
    BY <2>1
<1>2. PICK least \in T : \A n \in T : least <= n
  <2> HIDE DEF T
  <2> QED BY <1>1, LeastNumber
<1>3. PICK m \in S : least = b - m
  BY <1>2
<1>4. ASSUME NEW x \in S PROVE m >= x
  <2>1. b - x \in T
    OBVIOUS
  <2>2. b - m <= b - x
    BY <1>2, <1>3, <2>1
  <2> QED BY <2>2
<1> QED BY <1>4 DEF Max

----------------------------------------------------------------------------
(* Callers.                                                                *)

(* Where those who await a commit go.                                      *)
LEMMA WokenGo ==
  ASSUME ServerInv, NEW f \in Caller, NEW ok \in BOOLEAN
  PROVE  /\ f \in Tick => Woken(f, ok) = IF Pc(f) = "waiting" THEN At("idle") ELSE at[f]
         /\ f \in Sig => Woken(f, ok) = IF Pc(f) = "waiting" THEN At("flushed") ELSE at[f]
         /\ f \in Call =>
               Woken(f, ok) = CASE Pc(f) = "waiting" -> At("flush")
                                [] Pc(f) = "flushing" -> At(IF ok THEN "ok" ELSE "idle")
                                [] OTHER -> at[f]
  BY ServerAssumption DEF ServerInv, CallersPlaced, Woken, Caller, Sig, TickAt, SigAt, CallAt,
     Pc

(* The two ways in which flushWireWrites() goes on: it returns, and no     *)
(* write is left that neither the engine knows of nor is given up, unless  *)
(* it is a poll, which leaves them to the next; or it awaits a commit.     *)
Returned(f, after) == Go(f, after) /\ (f \in Tick \/ Safe(applied)')

AwaitsCommit(f) ==
    /\ at' = [at EXCEPT ![f] = [pc |-> "waiting", w |-> applied]]
    /\ commit' # NoCommit

(* What flushWireWrites() does to anything.                                *)
FlushOutcome(f, after) ==
    /\ Returned(f, after) \/ AwaitsCommit(f)
    /\ commit' = commit \/ (commit = NoCommit /\ commit' = Pacing)
    /\ commit' # NoCommit => dirty'
    /\ dirty' \in BOOLEAN /\ (dirty => dirty')
    /\ excused \subseteq excused' /\ excused' \subseteq excused \cup 1..applied
    /\ faults' \in Nat

(* Its branches one by one: not ready, no news or a failed count, a commit *)
(* to join, an engine that is closing.                                     *)
LEMMA FlushStep ==
  ASSUME ServerInv, NEW f \in Caller, NEW after, FlushWireWrites(f, after),
         UNCHANGED <<applied, durable>>
  PROVE  FlushOutcome(f, after)
<1> USE DEF ServerInv, Typed, TypeOK
<1>1. CASE /\ phase # "ready" \/ db = "none"
           /\ Go(f, after)
           /\ GiveUp(f)
           /\ UNCHANGED <<dirty, commit, faults>>
  BY <1>1 DEF FlushOutcome, Returned, GiveUp, Safe, Kept, Unsaved
<1>2. ASSUME NEW w \in {last, applied}, Count(w), w <= last, Go(f, after),
             IF applied > last THEN GiveUp(f) ELSE UNCHANGED excused,
             UNCHANGED <<dirty, commit>>
      PROVE  FlushOutcome(f, after)
  <2>1. faults' \in Nat
    BY <1>2 DEF Count, Fault
  <2>2. f \in Tick \/ Safe(applied)'
    BY <1>2 DEF GiveUp, Safe, Kept, Unsaved, FlushesTrack
  <2>3. excused \subseteq excused' /\ excused' \subseteq excused \cup 1..applied
    BY <1>2 DEF GiveUp, Unsaved
  <2> QED
    BY <1>2, <2>1, <2>2, <2>3 DEF FlushOutcome, Returned
<1>3. ASSUME NEW w \in {last, applied}, Count(w), w > last, dirty' = TRUE,
             IF db = "up" THEN JoinCommit /\ at' = [at EXCEPT ![f] = [pc |-> "waiting", w |-> w]]
                          ELSE UNCHANGED commit /\ Go(f, after),
             UNCHANGED excused
      PROVE  FlushOutcome(f, after)
  <2>1. faults' \in Nat
    BY <1>3 DEF Count, Fault
  <2>2. w = applied
    BY <1>3
  <2>3. CASE db = "up"
    BY <1>3, <2>1, <2>2, <2>3 DEF FlushOutcome, AwaitsCommit, JoinCommit, Pacing, NoCommit
  <2>4. CASE db # "up"
    BY <1>3, <2>1, <2>4 DEF FlushOutcome, Returned, Safe
  <2> QED
    BY <2>3, <2>4
<1> QED
  BY <1>1, <1>2, <1>3 DEF FlushWireWrites

(* Where a caller may stand.                                               *)
Places(f) == IF f \in Tick THEN TickAt ELSE IF f \in Call THEN CallAt ELSE SigAt

(* The part of Typed that a moving caller touches.                         *)
AtTyped ==
    /\ at \in [Caller -> [pc : TickAt \cup CallAt \cup SigAt, w : Nat]]
    /\ \A f \in Caller : at[f].w <= applied

(* A caller that moves disturbs no other.                                  *)
LEMMA CallerMoves ==
  ASSUME ServerInv, NEW f \in Caller, NEW p \in Places(f), NEW w \in 0..applied,
         at' = [at EXCEPT ![f] = [pc |-> p, w |-> w]], applied' = applied
  PROVE  /\ AtTyped' /\ CallersPlaced'
         /\ Pc(f)' = p
         /\ \A g \in Caller : g # f => at'[g] = at[g]
<1>1. at'[f] = [pc |-> p, w |-> w] /\ \A g \in Caller : g # f => at'[g] = at[g]
  BY DEF ServerInv, Typed
<1>2. p \in TickAt \cup CallAt \cup SigAt /\ w \in Nat /\ w <= applied
  BY DEF Places, ServerInv, Typed
<1>3. AtTyped'
  <2>1. at' \in [Caller -> [pc : TickAt \cup CallAt \cup SigAt, w : Nat]]
    BY <1>2 DEF ServerInv, Typed
  <2> QED
    BY <1>1, <1>2, <2>1 DEF AtTyped, ServerInv, Typed
<1>4. CallersPlaced'
  BY <1>1, ServerAssumption DEF CallersPlaced, ServerInv, Pc, Places, Caller, Sig
<1> QED
  BY <1>1, <1>3, <1>4 DEF Pc

(* So does one that calls flushWireWrites().                               *)
LEMMA FlushMoves ==
  ASSUME ServerInv, NEW f \in Caller, NEW after \in Places(f), FlushOutcome(f, after),
         applied' = applied
  PROVE  /\ AtTyped' /\ CallersPlaced'
         /\ Pc(f)' \in {after, "waiting"}
         /\ \A g \in Caller : g # f => at'[g] = at[g]
<1>1. applied \in Nat /\ 0 \in 0..applied /\ applied \in 0..applied
  BY DEF ServerInv, Typed
<1>2. CASE Returned(f, after)
  <2>1. at' = [at EXCEPT ![f] = [pc |-> after, w |-> 0]]
    BY <1>2 DEF Returned, Go, At
  <2> QED
    BY <1>1, <2>1, CallerMoves
<1>3. CASE AwaitsCommit(f)
  <2>1. at' = [at EXCEPT ![f] = [pc |-> "waiting", w |-> applied]]
    BY <1>3 DEF AwaitsCommit
  <2>2. "waiting" \in Places(f)
    BY DEF Places, TickAt, CallAt, SigAt
  <2> QED
    BY <1>1, <2>1, <2>2, CallerMoves
<1> QED
  BY <1>2, <1>3 DEF FlushOutcome

----------------------------------------------------------------------------
(* Each step keeps ServerInv: boot, connections and writes, the engine,    *)
(* shutdown, and the steps that flush.                                     *)

LEMMA BootLeaseStep ==
    ASSUME ServerInv, BootLease
    PROVE  ServerInv'
<1>1. Typed'
  BY DEF Typed, TypeOK, Live, ServerInv, wireVars, book, BootLease
<1>2. CallersPlaced'
  BY DEF CallersPlaced, ServerInv, Pc, BootLease
<1>3. CommitCovers'
  BY DEF CommitCovers, ServerInv, book, BootLease
<1>4. BootOrder'
  BY DEF BootOrder, Safe, Kept, ServerInv, Pc, wireVars, book, Unopened, BootLease
<1>5. FlushesTrack'
  BY DEF FlushesTrack, Safe, Kept, ServerInv, Pc, book, BootLease
<1>6. ShutdownsInOrder'
  BY DEF ShutdownsInOrder, ShutdownOrder, Alone, FaceShut, Safe, Kept, ServerInv, Pc, wireVars,
     book, Unlistened, BootLease
<1> QED
  BY <1>1, <1>2, <1>3, <1>4, <1>5, <1>6 DEF ServerInv

LEMMA BootOpenStep ==
    ASSUME ServerInv, BootOpen
    PROVE  ServerInv'
<1>1. Typed'
  BY DEF Typed, TypeOK, Live, ServerInv, wireVars, book, BootOpen
<1>2. CallersPlaced'
  BY DEF CallersPlaced, ServerInv, Pc, BootOpen
<1>3. CommitCovers'
  BY DEF CommitCovers, ServerInv, book, BootOpen
<1>4. BootOrder'
  BY DEF BootOrder, Safe, Kept, ServerInv, wireVars, book, Unopened, BootOpen
<1>5. FlushesTrack'
  BY DEF FlushesTrack, Safe, Kept, ServerInv, Pc, book, BootOpen
<1>6. ShutdownsInOrder'
  BY DEF ShutdownsInOrder, ShutdownOrder, Alone, FaceShut, Safe, Kept, BootOrder, ServerInv, Pc,
     wireVars, book, Unopened, BootOpen
<1> QED
  BY <1>1, <1>2, <1>3, <1>4, <1>5, <1>6 DEF ServerInv

LEMMA BootWireStep ==
    ASSUME ServerInv, BootWire
    PROVE  ServerInv'
<1>1. Typed'
  <2>1. Live' <= Budget'
    BY FS_EmptySet, ServerAssumption DEF BootOrder, Live, Budget, ServerInv, Unlistened,
       BootWire
  <2> QED
    BY <2>1, ServerAssumption DEF TypeOK, ServerInv, Typed, engineVars, book, BootWire
<1>2. CallersPlaced'
  BY DEF CallersPlaced, ServerInv, Pc, BootWire
<1>3. CommitCovers'
  BY DEF CommitCovers, ServerInv, engineVars, book, BootWire
<1>4. BootOrder'
  BY DEF BootOrder, ServerInv, engineVars, Unopened, Unlistened, BootWire
<1>5. FlushesTrack'
  BY DEF FlushesTrack, Safe, Kept, BootOrder, ServerInv, Pc, engineVars, book, Unlistened,
     BootWire
<1>6. ShutdownsInOrder'
  BY DEF ShutdownsInOrder, ShutdownOrder, Alone, FaceShut, Kept, ServerInv, Pc, Calm,
     engineVars, book, Unlistened, BootWire
<1> QED
  BY <1>1, <1>2, <1>3, <1>4, <1>5, <1>6 DEF ServerInv

LEMMA BootReadyStep ==
    ASSUME ServerInv, BootReady
    PROVE  ServerInv'
<1>1. Typed'
  BY DEF Typed, TypeOK, Live, ServerInv, wireVars, engineVars, book, BootReady
<1>2. CallersPlaced'
  BY DEF CallersPlaced, ServerInv, Pc, BootReady
<1>3. CommitCovers'
  BY DEF CommitCovers, ServerInv, engineVars, book, BootReady
<1>4. BootOrder'
  BY DEF BootOrder, ServerInv, engineVars, Unopened, Unlistened, BootReady
<1>5. FlushesTrack'
  BY DEF FlushesTrack, Safe, Kept, ServerInv, Pc, engineVars, book, BootReady
<1>6. ShutdownsInOrder'
  BY DEF ShutdownsInOrder, ShutdownOrder, Alone, FaceShut, Safe, Kept, ServerInv, Pc, wireVars,
     engineVars, book, BootReady
<1> QED
  BY <1>1, <1>2, <1>3, <1>4, <1>5, <1>6 DEF ServerInv

LEMMA BootFailsStep ==
    ASSUME ServerInv, BootFails
    PROVE  ServerInv'
<1>1. Typed'
  BY DEF Typed, TypeOK, Live, ServerInv, wireVars, engineVars, BootFails, Fault
<1>2. CallersPlaced'
  BY DEF CallersPlaced, ServerInv, Pc, BootFails
<1>3. CommitCovers'
  BY DEF CommitCovers, ServerInv, engineVars, BootFails
<1>4. BootOrder'
  BY DEF BootOrder, ServerInv, Pc, wireVars, engineVars, Unopened, Unlistened, BootFails
<1>5. FlushesTrack'
  BY DEF FlushesTrack, Safe, Kept, ServerInv, Pc, engineVars, BootFails
<1>6. ShutdownsInOrder'
  BY DEF ShutdownsInOrder, ShutdownOrder, Alone, FaceShut, Safe, Kept, ServerInv, Pc, wireVars,
     engineVars, Unlistened, BootFails
<1> QED
  BY <1>1, <1>2, <1>3, <1>4, <1>5, <1>6 DEF ServerInv

LEMMA ConnectStep ==
    ASSUME ServerInv, NEW c \in Conn, Connect(c)
    PROVE  ServerInv'
<1>1. Typed'
  <2>1. IsFiniteSet(conns') /\ Cardinality(conns') = Cardinality(conns) + 1
    BY FS_AddElement DEF ServerInv, Typed, Connect
  <2>2. Live' <= Budget'
    BY <2>1, NobodyLive, ServerAssumption DEF Live, Budget, ServerInv, bootVars, Connect
  <2> QED
    BY <2>1, <2>2 DEF TypeOK, ServerInv, Typed, bootVars, engineVars, book, Connect
<1>2. CallersPlaced'
  BY DEF CallersPlaced, ServerInv, Pc, Connect
<1>3. CommitCovers'
  BY DEF CommitCovers, ServerInv, engineVars, book, Connect
<1>4. BootOrder'
  BY DEF BootOrder, ServerInv, bootVars, engineVars, Connect
<1>5. FlushesTrack'
  BY DEF FlushesTrack, Safe, Kept, ServerInv, Pc, engineVars, book, Connect
<1>6. ShutdownsInOrder'
  BY DEF ShutdownsInOrder, ShutdownOrder, Alone, FaceShut, Safe, Kept, ServerInv, Pc, bootVars,
     engineVars, book, Connect
<1> QED
  BY <1>1, <1>2, <1>3, <1>4, <1>5, <1>6 DEF ServerInv

LEMMA DisconnectStep ==
    ASSUME ServerInv, NEW c \in Conn, Disconnect(c)
    PROVE  ServerInv'
<1>1. Typed'
  <2>1. IsFiniteSet(conns') /\ Cardinality(conns') = Cardinality(conns) - 1
    BY FS_RemoveElement DEF ServerInv, Typed, Disconnect
  <2>2. Live' <= Budget'
    BY <2>1, NobodyLive, ServerAssumption DEF Live, Budget, TypeOK, ServerInv, Typed
  <2> QED
    BY <2>1, <2>2 DEF TypeOK, ServerInv, Typed, bootVars, engineVars, book, Disconnect
<1>2. CallersPlaced'
  BY DEF CallersPlaced, ServerInv, Pc, Disconnect
<1>3. CommitCovers'
  BY DEF CommitCovers, ServerInv, engineVars, book, Disconnect
<1>4. BootOrder'
  BY DEF BootOrder, ServerInv, bootVars, engineVars, Disconnect
<1>5. FlushesTrack'
  BY DEF FlushesTrack, Safe, Kept, ServerInv, Pc, engineVars, book, Disconnect
<1>6. ShutdownsInOrder'
  BY DEF ShutdownsInOrder, ShutdownOrder, Alone, FaceShut, Safe, Kept, ServerInv, Pc, bootVars,
     engineVars, book, Disconnect
<1> QED
  BY <1>1, <1>2, <1>3, <1>4, <1>5, <1>6 DEF ServerInv

LEMMA SqlWriteStep ==
    ASSUME ServerInv, SqlWrite
    PROVE  ServerInv'
<1>1. Typed'
  BY DEF Typed, TypeOK, Live, ServerInv, bootVars, wireVars, NoCommit, SqlWrite, Apply
<1>2. CallersPlaced'
  BY DEF CallersPlaced, ServerInv, Pc, SqlWrite, Apply
<1>3. CommitCovers'
  BY DEF CommitCovers, ServerInv, Typed, SqlWrite, Apply
<1>4. BootOrder'
  BY DEF BootOrder, Safe, ServerInv, bootVars, wireVars, SqlWrite, Apply
<1>5. FlushesTrack'
  BY DEF FlushesTrack, Safe, Kept, ServerInv, Pc, SqlWrite, Apply
<1>6. ShutdownsInOrder'
  BY DEF ShutdownsInOrder, ShutdownOrder, Alone, FaceShut, Kept, ServerInv, Typed, Pc, Calm,
     bootVars, wireVars, SqlWrite, Apply
<1> QED
  BY <1>1, <1>2, <1>3, <1>4, <1>5, <1>6 DEF ServerInv

LEMMA WireWriteStep ==
    ASSUME ServerInv, WireWrite
    PROVE  ServerInv'
<1>1. Typed'
  BY DEF Typed, TypeOK, Live, ServerInv, bootVars, wireVars, NoCommit, WireWrite, Apply
<1>2. CallersPlaced'
  BY DEF CallersPlaced, ServerInv, Pc, WireWrite, Apply
<1>3. CommitCovers'
  BY DEF CommitCovers, ServerInv, Typed, WireWrite, Apply
<1>4. BootOrder'
  BY NobodyLive DEF BootOrder, ServerInv, bootVars, WireWrite, Apply
<1>5. FlushesTrack'
  BY DEF FlushesTrack, Safe, Kept, ServerInv, Pc, WireWrite, Apply
<1>6. ShutdownsInOrder'
  BY NobodyLive DEF ShutdownsInOrder, ShutdownOrder, Alone, FaceShut, Safe, Kept, ServerInv,
     Typed, Pc, bootVars, wireVars, BeforeWire, WireWrite, Apply
<1> QED
  BY <1>1, <1>2, <1>3, <1>4, <1>5, <1>6 DEF ServerInv

LEMMA CommitReadStep ==
    ASSUME ServerInv, CommitRead
    PROVE  ServerInv'
<1>1. Typed'
  BY DEF Typed, TypeOK, Live, ServerInv, bootVars, wireVars, book, NoCommit, CommitRead
<1>2. CallersPlaced'
  BY DEF CallersPlaced, ServerInv, Pc, CommitRead
<1>3. CommitCovers'
  BY DEF CommitCovers, ServerInv, Typed, book, CommitRead
<1>4. BootOrder'
  BY DEF BootOrder, Safe, Kept, ServerInv, Pc, bootVars, wireVars, book, CommitRead
<1>5. FlushesTrack'
  BY DEF FlushesTrack, Safe, Kept, ServerInv, Pc, book, NoCommit, CommitRead
<1>6. ShutdownsInOrder'
  BY DEF ShutdownsInOrder, ShutdownOrder, Alone, FaceShut, Safe, Kept, ServerInv, Pc, bootVars,
     wireVars, book, NoCommit, CommitRead
<1> QED
  BY <1>1, <1>2, <1>3, <1>4, <1>5, <1>6 DEF ServerInv

LEMMA TakenOverStep ==
    ASSUME ServerInv, TakenOver
    PROVE  ServerInv'
<1>1. Typed'
  BY DEF Typed, TypeOK, Live, ServerInv, bootVars, wireVars, book, TakenOver
<1>2. CallersPlaced'
  BY DEF CallersPlaced, ServerInv, Pc, TakenOver
<1>3. CommitCovers'
  BY DEF CommitCovers, ServerInv, book, TakenOver
<1>4. BootOrder'
  BY DEF BootOrder, Safe, Kept, ServerInv, Pc, bootVars, wireVars, book, TakenOver
<1>5. FlushesTrack'
  BY DEF FlushesTrack, Safe, Kept, ServerInv, Pc, book, TakenOver
<1>6. ShutdownsInOrder'
  BY DEF ShutdownsInOrder, ShutdownOrder, Alone, FaceShut, Safe, Kept, ServerInv, Pc, bootVars,
     wireVars, book, TakenOver
<1> QED
  BY <1>1, <1>2, <1>3, <1>4, <1>5, <1>6 DEF ServerInv

LEMMA SignalStep ==
    ASSUME ServerInv, NEW s \in Sig, Signal(s)
    PROVE  ServerInv'
<1>1. Typed'
  <2>1. /\ at' \in [Caller -> [pc : TickAt \cup CallAt \cup SigAt, w : Nat]]
        /\ \A f \in Caller : at'[f].w <= applied
    BY DEF Typed, ServerInv, Caller, At, Go, SigAt, Signal
  <2>2. /\ timer' \in BOOLEAN
        /\ UNCHANGED <<phase, bootAt, rest, wireVars, http, last, engineVars, book>>
    BY DEF ServerInv, Signal
  <2>3. TypeOK'
    BY <2>2 DEF TypeOK, Live, ServerInv, Typed, wireVars, engineVars, book
  <2> QED
    BY <2>1, <2>2, <2>3 DEF ServerInv, Typed, wireVars, engineVars, book
<1>2. CallersPlaced'
  BY ServerAssumption DEF CallersPlaced, ServerInv, Sig, At, Pc, Go, SigAt, Signal
<1>3. CommitCovers'
  BY DEF CommitCovers, ServerInv, engineVars, book, Signal
<1>4. BootOrder'
  BY DEF BootOrder, Safe, Kept, ServerInv, At, Pc, Go, wireVars, engineVars, book, Signal
<1>5. FlushesTrack'
  BY DEF FlushesTrack, Safe, Kept, ServerInv, At, Pc, Go, engineVars, book, Signal
<1>6. ShutdownsInOrder'
  BY DEF ShutdownsInOrder, ShutdownOrder, Alone, FaceShut, Safe, Kept, ServerInv, At, Pc, Go,
     wireVars, engineVars, book, BeforeWire, BeforeClose, AfterClose, Signal, Stopping
<1> QED
  BY <1>1, <1>2, <1>3, <1>4, <1>5, <1>6 DEF ServerInv

LEMMA StopRestStep ==
    ASSUME ServerInv, NEW s \in Sig, StopRest(s)
    PROVE  ServerInv'
<1>1. Typed'
  <2>1. /\ at' \in [Caller -> [pc : TickAt \cup CallAt \cup SigAt, w : Nat]]
        /\ \A f \in Caller : at'[f].w <= applied
    BY DEF Typed, ServerInv, Caller, At, Go, SigAt, StopRest
  <2>2. TypeOK'
    BY NobodyLive, ServerAssumption DEF TypeOK, Live, Budget, ServerInv, Typed, wireVars,
       engineVars, book, StopRest
  <2>3. /\ rest' \in BOOLEAN
        /\ UNCHANGED <<phase, bootAt, timer, wireVars, http, last, engineVars, book>>
    BY DEF ServerInv, StopRest
  <2> QED
    BY <2>1, <2>2, <2>3 DEF ServerInv, Typed, wireVars, engineVars, book
<1>2. CallersPlaced'
  BY DEF CallersPlaced, ServerInv, At, Pc, Go, TickAt, CallAt, SigAt, StopRest
<1>3. CommitCovers'
  BY DEF CommitCovers, ServerInv, engineVars, book, StopRest
<1>4. BootOrder'
  BY DEF BootOrder, Safe, Kept, ServerInv, At, Pc, Go, wireVars, engineVars, book, StopRest
<1>5. FlushesTrack'
  BY DEF FlushesTrack, Safe, Kept, ServerInv, At, Pc, Go, engineVars, book, StopRest
<1>6. ShutdownsInOrder'
  BY DEF ShutdownsInOrder, ShutdownOrder, Alone, ServerInv, At, Pc, Go, wireVars, engineVars,
     BeforeWire, BeforeClose, AfterClose, StopRest
<1> QED
  BY <1>1, <1>2, <1>3, <1>4, <1>5, <1>6 DEF ServerInv

LEMMA StopWireStep ==
    ASSUME ServerInv, NEW s \in Sig, StopWire(s)
    PROVE  ServerInv'
<1>1. Typed'
  BY DEF Typed, TypeOK, Live, ServerInv, Caller, At, Go, bootVars, engineVars, SigAt, StopWire,
     StopFrom
<1>2. CallersPlaced'
  BY DEF CallersPlaced, ServerInv, At, Pc, Go, TickAt, CallAt, SigAt, StopWire, StopFrom
<1>3. CommitCovers'
  BY DEF CommitCovers, ServerInv, engineVars, StopWire, StopFrom
<1>4. BootOrder'
  BY DEF BootOrder, Safe, Kept, ServerInv, At, Pc, Go, bootVars, engineVars, StopWire, StopFrom
<1>5. FlushesTrack'
  BY DEF FlushesTrack, Safe, Kept, ServerInv, At, Pc, Go, engineVars, StopWire, StopFrom
<1>6. ShutdownsInOrder'
  BY DEF ShutdownsInOrder, ShutdownOrder, Alone, FaceShut, TypeOK, BootOrder, ServerInv, Typed,
     Caller, At, Pc, Go, bootVars, engineVars, BeforeWire, BeforeClose, AfterClose, StopWire,
     StopFrom
<1> QED
  BY <1>1, <1>2, <1>3, <1>4, <1>5, <1>6 DEF ServerInv

LEMMA WireEndedStep ==
    ASSUME ServerInv, NEW s \in Sig, WireEnded(s)
    PROVE  ServerInv'
<1>1. Typed'
  BY DEF Typed, TypeOK, Live, ServerInv, Caller, At, Go, bootVars, engineVars, book, SigAt,
     WireEnded
<1>2. CallersPlaced'
  BY DEF CallersPlaced, ServerInv, At, Pc, Go, TickAt, CallAt, SigAt, WireEnded
<1>3. CommitCovers'
  BY DEF CommitCovers, ServerInv, engineVars, book, WireEnded
<1>4. BootOrder'
  BY DEF BootOrder, Safe, Kept, ServerInv, At, Pc, Go, bootVars, engineVars, book, WireEnded
<1>5. FlushesTrack'
  BY DEF FlushesTrack, Safe, Kept, ServerInv, At, Pc, Go, engineVars, book, WireEnded
<1>6. ShutdownsInOrder'
  BY NobodyLive DEF ShutdownsInOrder, ShutdownOrder, Alone, FaceShut, ServerInv, At, Pc, Go,
     bootVars, engineVars, book, BeforeWire, BeforeClose, AfterClose, WireEnded
<1> QED
  BY <1>1, <1>2, <1>3, <1>4, <1>5, <1>6 DEF ServerInv

LEMMA CloseDbStep ==
    ASSUME ServerInv, NEW s \in Sig, CloseDb(s)
    PROVE  ServerInv'
<1>1. Typed'
  <2>1. /\ at' \in [Caller -> [pc : TickAt \cup CallAt \cup SigAt, w : Nat]]
        /\ \A f \in Caller : at'[f].w <= applied
    <3>1. PICK p \in SigAt : at' = [at EXCEPT ![s] = At(p)]
      BY DEF ServerInv, Go, SigAt, CloseDb
    <3> QED
      BY <3>1 DEF Typed, ServerInv, Caller, At
  <2> QED
    BY <2>1 DEF Typed, TypeOK, Live, ServerInv, bootVars, wireVars, Pacing, CloseDb
<1>2. CallersPlaced'
  BY DEF CallersPlaced, ServerInv, Typed, Caller, At, Pc, Go, TickAt, CallAt, SigAt, CloseDb
<1>3. CommitCovers'
  BY DEF CommitCovers, ServerInv, Pacing, CloseDb
<1>4. BootOrder'
  BY DEF BootOrder, Safe, Kept, ServerInv, Typed, Caller, At, Pc, Go, bootVars, wireVars,
     CloseDb
<1>5. FlushesTrack'
  BY DEF FlushesTrack, Safe, Kept, ServerInv, Typed, Caller, At, Pc, Go, CloseDb
<1>6. ShutdownsInOrder'
  <2> SUFFICES ASSUME NEW x \in Sig, Alone(x)'
               PROVE  ShutdownOrder(x)'
    BY DEF ShutdownsInOrder, ServerInv
  <2>1. Alone(x) /\ ShutdownOrder(x)
    BY DEF Alone, ShutdownsInOrder, ServerInv, Typed, Caller, At, Pc, Go, CloseDb
  <2>2. x = s /\ Pc(s) = "flushed" /\ Pc(s)' \in {"closing", "closed"}
    BY DEF Alone, ServerInv, Typed, Caller, At, Pc, Go, CloseDb
  <2>3. /\ FaceShut(s) /\ FaceShut(s)'
        /\ Safe(applied)
        /\ db \in {"none", "up"}
    BY <2>1, <2>2 DEF ShutdownOrder, FaceShut, BeforeWire, BeforeClose, bootVars, wireVars,
       CloseDb
  <2>4. CASE db = "up"
    <3>1. Pc(s)' = "closing" /\ db' = "closing"
      BY <2>4 DEF ServerInv, Typed, Caller, At, Pc, Go, CloseDb
    <3>2. commit' # NoCommit \/ Kept(applied)'
      BY <2>3, <2>4 DEF Safe, Kept, NoCommit, Pacing, CloseDb
    <3> QED
      BY <2>2, <2>3, <3>1, <3>2 DEF ShutdownOrder, BeforeWire, BeforeClose, AfterClose
  <2>5. CASE db = "none"
    <3>1. Pc(s)' = "closed" /\ UNCHANGED <<applied, durable, excused>>
      BY <2>5 DEF ServerInv, Typed, Caller, At, Pc, Go, CloseDb
    <3>2. applied = 0 /\ "wire" \in early'
      BY <2>3, <2>5 DEF BootOrder, ServerInv, FaceShut, CloseDb
    <3> QED
      BY <2>2, <2>3, <3>1, <3>2 DEF ShutdownOrder, Kept, BeforeWire, BeforeClose, AfterClose
  <2> QED
    BY <2>2, <2>3, <2>4, <2>5
<1> QED
  BY <1>1, <1>2, <1>3, <1>4, <1>5, <1>6 DEF ServerInv

LEMMA ClosedStep ==
    ASSUME ServerInv, NEW s \in Sig, Closed(s)
    PROVE  ServerInv'
<1>1. Typed'
  BY DEF Typed, TypeOK, Live, ServerInv, Caller, At, Go, bootVars, wireVars, book, SigAt, Closed
<1>2. CallersPlaced'
  BY DEF CallersPlaced, ServerInv, At, Pc, Go, TickAt, CallAt, SigAt, Closed
<1>3. CommitCovers'
  BY DEF CommitCovers, ServerInv, NoCommit, Closed
<1>4. BootOrder'
  BY DEF BootOrder, Safe, Kept, ServerInv, bootVars, wireVars, book, Closed
<1>5. FlushesTrack'
  BY DEF FlushesTrack, Safe, Kept, ServerInv, At, Pc, Go, book, Closed
<1>6. ShutdownsInOrder'
  BY DEF ShutdownsInOrder, ShutdownOrder, Alone, FaceShut, Kept, ServerInv, Typed, Caller, At,
     Pc, Go, bootVars, wireVars, book, BeforeWire, BeforeClose, Closed
<1> QED
  BY <1>1, <1>2, <1>3, <1>4, <1>5, <1>6 DEF ServerInv

LEMMA CloseHttpStep ==
    ASSUME ServerInv, NEW s \in Sig, CloseHttp(s)
    PROVE  ServerInv'
<1>1. Typed'
  BY DEF Typed, TypeOK, Live, ServerInv, Caller, At, Go, bootVars, wireVars, engineVars, book,
     SigAt, CloseHttp
<1>2. CallersPlaced'
  BY DEF CallersPlaced, ServerInv, At, Pc, Go, TickAt, CallAt, SigAt, CloseHttp
<1>3. CommitCovers'
  BY DEF CommitCovers, ServerInv, engineVars, book, CloseHttp
<1>4. BootOrder'
  BY DEF BootOrder, Safe, Kept, ServerInv, At, Pc, Go, bootVars, wireVars, engineVars, book,
     CloseHttp
<1>5. FlushesTrack'
  BY DEF FlushesTrack, Safe, Kept, ServerInv, At, Pc, Go, engineVars, book, CloseHttp
<1>6. ShutdownsInOrder'
  BY DEF ShutdownsInOrder, ShutdownOrder, Alone, FaceShut, Kept, ServerInv, At, Pc, Go,
     bootVars, wireVars, engineVars, book, BeforeWire, BeforeClose, AfterClose, CloseHttp
<1> QED
  BY <1>1, <1>2, <1>3, <1>4, <1>5, <1>6 DEF ServerInv

LEMMA ExitStep ==
    ASSUME ServerInv, NEW s \in Sig, Exit(s)
    PROVE  ServerInv'
<1>1. Typed'
  <2>1. /\ at' \in [Caller -> [pc : TickAt \cup CallAt \cup SigAt, w : Nat]]
        /\ \A f \in Caller : at'[f].w <= applied
    BY DEF Typed, ServerInv, At, SigAt, Exit
  <2>2. Live' <= Budget'
    BY FS_EmptySet, ServerAssumption DEF Live, Budget, ServerInv, Exit
  <2>3. IsFiniteSet(conns')
    BY FS_EmptySet DEF ServerInv, Exit
  <2> QED
    BY <2>1, <2>2, <2>3 DEF Typed, TypeOK, ServerInv, Caller, At, book, NoCommit, Exit
<1>2. CallersPlaced'
  BY DEF CallersPlaced, ServerInv, Caller, At, Pc, TickAt, CallAt, SigAt, Exit
<1>3. CommitCovers'
  BY DEF CommitCovers, ServerInv, NoCommit, Exit
<1>4. BootOrder'
  BY DEF BootOrder, ServerInv, Unopened, Unlistened, Exit
<1>5. FlushesTrack'
  BY DEF FlushesTrack, Safe, Kept, ServerInv, Caller, At, Pc, book, Exit
<1>6. ShutdownsInOrder'
  <2> SUFFICES ASSUME NEW x \in Sig, Alone(x)'
               PROVE  ShutdownOrder(x)'
    BY DEF ShutdownsInOrder, ServerInv
  <2>1. Alone(x) /\ ShutdownOrder(x)
    BY DEF Alone, ShutdownsInOrder, ServerInv, Caller, At, Pc, Exit
  <2> QED
    BY <2>1 DEF Alone, ShutdownOrder, FaceShut, Kept, ServerInv, Caller, At, Pc, book,
       Unlistened, BeforeWire, BeforeClose, AfterClose, Exit
<1> QED
  BY <1>1, <1>2, <1>3, <1>4, <1>5, <1>6 DEF ServerInv

LEMMA FlushEngineStep ==
    ASSUME ServerInv, NEW f \in Call, FlushEngine(f)
    PROVE  ServerInv'
<1>1. Typed'
  BY DEF Typed, TypeOK, Live, ServerInv, At, Go, bootVars, Pacing, CallAt, FlushFrame,
     FlushEngine, JoinCommit
<1>2. CallersPlaced'
  BY ServerAssumption DEF CallersPlaced, BootOrder, ServerInv, Typed, Caller, At, Pc, Go,
     TickAt, CallAt, SigAt, FlushEngine
<1>3. CommitCovers'
  BY DEF CommitCovers, ServerInv, Pacing, FlushFrame, FlushEngine, JoinCommit
<1>4. BootOrder'
  BY DEF BootOrder, Safe, Kept, ServerInv, Typed, Caller, At, Pc, Go, bootVars, FlushFrame,
     FlushEngine
<1>5. FlushesTrack'
  <2>1. /\ UNCHANGED <<last, dirty, durable, applied, asked, excused>>
        /\ commit # NoCommit => commit' # NoCommit
        /\ \A g \in Caller : g # f => at'[g] = at[g]
    BY DEF FlushEngine, FlushFrame, JoinCommit, Go, ServerInv, Typed, NoCommit
  <2>2. /\ Pc(f) = "flush"
        /\ Pc(f)' \in {"idle", "ok", "flushing"}
        /\ Pc(f)' = "ok" => ~dirty
        /\ Pc(f)' = "flushing" => commit' # NoCommit
    BY DEF FlushEngine, JoinCommit, Go, At, Pc, ServerInv, Typed, Caller, NoCommit, Pacing
  <2>3. Safe(asked[f])
    BY <2>2 DEF ServerInv, FlushesTrack
  <2> QED
    BY <2>1, <2>2, <2>3 DEF ServerInv, FlushesTrack, Safe, Kept, Pc, Caller
<1>6. ShutdownsInOrder'
  <2> SUFFICES ASSUME NEW x \in Sig, Alone(x)'
               PROVE  ShutdownOrder(x)'
    BY DEF ShutdownsInOrder, ServerInv
  <2>1. Alone(x) /\ ShutdownOrder(x)
    BY DEF Alone, ShutdownsInOrder, ServerInv, Typed, CallersPlaced, Caller, Pc, Go, SigAt,
       FlushEngine
  <2> QED
    BY <2>1 DEF ShutdownOrder, FaceShut, Safe, Kept, ServerInv, Typed, CallersPlaced, Caller,
       Pc, Go, bootVars, SigAt, FlushFrame, FlushEngine
<1> QED
  BY <1>1, <1>2, <1>3, <1>4, <1>5, <1>6 DEF ServerInv

(* A commit that fails leaves the engine dirty, except for the shutdown    *)
(* that awaited it, whose writes are then excused.                         *)
LEMMA CommitFailsStep ==
    ASSUME ServerInv, CommitFails
    PROVE  ServerInv'
<1>1. Typed'
  BY DEF Typed, TypeOK, Live, ServerInv, At, bootVars, wireVars, NoCommit, CallAt, SigAt,
     Unsaved, CommitFails, Failure, Woken, Fault
<1>2. CallersPlaced'
  BY ServerAssumption DEF CallersPlaced, ServerInv, Caller, Sig, At, Pc, TickAt, CallAt, SigAt,
     CommitFails, Woken
<1>3. CommitCovers'
  BY DEF CommitCovers, ServerInv, NoCommit, CommitFails, Failure
<1>4. BootOrder'
  BY DEF BootOrder, Safe, Kept, ServerInv, Caller, At, Pc, bootVars, wireVars, CommitFails,
     Failure, Woken
<1>5. FlushesTrack'
  BY DEF FlushesTrack, Safe, Kept, TypeOK, ServerInv, Typed, Caller, At, Pc, CommitFails,
     Failure, Woken
<1>6. ShutdownsInOrder'
  <2> SUFFICES ASSUME NEW x \in Sig, Alone(x)'
               PROVE  ShutdownOrder(x)'
    BY DEF ShutdownsInOrder, ServerInv
  <2>1. \A y \in Sig : at'[y] = IF Pc(y) = "waiting" THEN At("flushed") ELSE at[y]
    BY WokenGo DEF ServerInv, Caller, CommitFails
  <2>2. Alone(x) /\ ShutdownOrder(x)
    BY <2>1, ServerAssumption DEF Alone, ShutdownsInOrder, ServerInv, Caller, At, Pc
  <2>3. commit # NoCommit /\ dirty /\ dirty'
    BY DEF TypeOK, ServerInv, Typed, NoCommit, CommitFails, Failure
  <2>4. Pc(x)' = "closing" => Kept(applied)'
    BY <2>1, <2>2 DEF ShutdownOrder, Kept, ServerInv, Typed, At, Pc, Unsaved, CommitFails,
       Failure, Woken
  <2> QED
    BY <2>1, <2>2, <2>3, <2>4, ServerAssumption DEF ShutdownOrder, FaceShut, Safe, Kept,
       ServerInv, Caller, At, Pc, bootVars, wireVars, BeforeWire, BeforeClose, AfterClose,
       CommitFails, Failure, Woken
<1> QED
  BY <1>1, <1>2, <1>3, <1>4, <1>5, <1>6 DEF ServerInv

LEMMA PollStep ==
    ASSUME ServerInv, NEW t \in Tick, Poll(t)
    PROVE  ServerInv'
<1>0. /\ FlushOutcome(t, "idle")
      /\ FlushFrame /\ UNCHANGED <<asked, front, last>>
      /\ Pc(t) = "idle"
  BY FlushStep DEF Poll, ServerInv, Caller, FlushFrame
<1>1. Typed'
  BY <1>0 DEF Typed, TypeOK, Live, ServerInv, At, Go, bootVars, Pacing, SigAt, FlushFrame,
     FlushOutcome, Returned, AwaitsCommit
<1>2. CallersPlaced'
  BY <1>0, ServerAssumption DEF CallersPlaced, ServerInv, Typed, Caller, At, Pc, Go, TickAt,
     SigAt, FlushOutcome, Returned, AwaitsCommit
<1>3. CommitCovers'
  BY <1>0 DEF CommitCovers, ServerInv, Pacing, FlushFrame, FlushOutcome
<1>4. BootOrder'
  BY <1>0 DEF BootOrder, Safe, Kept, ServerInv, Typed, Caller, At, Pc, Go, bootVars, FlushFrame,
     FlushOutcome, Returned, AwaitsCommit
<1>5. FlushesTrack'
  BY <1>0 DEF FlushesTrack, Safe, Kept, ServerInv, Typed, Caller, At, Pc, Go, FlushFrame,
     FlushOutcome, Returned, AwaitsCommit
<1>6. ShutdownsInOrder'
  <2> SUFFICES ASSUME NEW x \in Sig, Alone(x)'
               PROVE  ShutdownOrder(x)'
    BY DEF ShutdownsInOrder, ServerInv
  <2>1. \A y \in Sig : at'[y] = at[y]
    BY <1>0, ServerAssumption DEF ServerInv, Typed, Caller, Sig, Go, FlushOutcome, Returned,
       AwaitsCommit
  <2>2. Alone(x) /\ ShutdownOrder(x)
    BY <2>1 DEF Alone, ShutdownsInOrder, ServerInv, Pc
  <2> QED
    BY <1>0, <2>1, <2>2 DEF ShutdownOrder, FaceShut, Safe, Kept, ServerInv, Pc, bootVars,
       FlushFrame, FlushOutcome
<1> QED
  BY <1>1, <1>2, <1>3, <1>4, <1>5, <1>6 DEF ServerInv

LEMMA FlushNowStep ==
    ASSUME ServerInv, NEW f \in Call, FlushNow(f)
    PROVE  ServerInv'
<1>0. /\ FlushOutcome(f, "flush")
      /\ FlushFrame /\ UNCHANGED <<front, last>>
      /\ Pc(f) = "idle"
  BY FlushStep DEF FlushNow, ServerInv, Caller, FlushFrame
<1>x. asked' = [asked EXCEPT ![f] = applied]
  BY DEF FlushNow, ServerInv
<1>y. /\ AtTyped' /\ CallersPlaced'
      /\ Pc(f)' \in {"flush", "waiting"}
      /\ \A g \in Caller : g # f => at'[g] = at[g]
  <2>1. f \in Caller /\ "flush" \in Places(f)
    BY ServerAssumption DEF Caller, Places, CallAt
  <2>2. applied' = applied
    BY <1>0 DEF FlushFrame
  <2> QED
    BY <1>0, <2>1, <2>2, FlushMoves
<1>1. Typed'
  BY <1>0, <1>x, <1>y DEF Typed, TypeOK, AtTyped, Live, ServerInv, bootVars, Pacing, FlushFrame,
     FlushOutcome
<1>2. CallersPlaced'
  BY <1>y
<1>3. CommitCovers'
  BY <1>0, <1>x DEF CommitCovers, ServerInv, Pacing, FlushFrame, FlushOutcome
<1>4. BootOrder'
  BY <1>0, <1>x DEF BootOrder, Safe, Kept, ServerInv, Typed, Caller, At, Pc, Go, bootVars,
     FlushFrame, FlushOutcome, Returned, AwaitsCommit
<1>5. FlushesTrack'
  BY <1>0, <1>x, ServerAssumption DEF FlushesTrack, Safe, Kept, ServerInv, Typed, Caller, At,
     Pc, Go, FlushFrame, FlushOutcome, Returned, AwaitsCommit
<1>6. ShutdownsInOrder'
  <2> SUFFICES ASSUME NEW x \in Sig, Alone(x)'
               PROVE  ShutdownOrder(x)'
    BY DEF ShutdownsInOrder, ServerInv
  <2>1. \A y \in Sig : at'[y] = at[y]
    BY <1>0, ServerAssumption DEF ServerInv, Typed, Caller, Sig, Go, FlushOutcome, Returned,
       AwaitsCommit
  <2>2. Alone(x) /\ ShutdownOrder(x)
    BY <2>1 DEF Alone, ShutdownsInOrder, ServerInv, Pc
  <2> QED
    BY <1>0, <2>1, <2>2 DEF ShutdownOrder, FaceShut, Safe, Kept, ServerInv, Pc, bootVars,
       FlushFrame, FlushOutcome
<1> QED
  BY <1>1, <1>2, <1>3, <1>4, <1>5, <1>6 DEF ServerInv

LEMMA FinalFlushStep ==
    ASSUME ServerInv, NEW s \in Sig, FinalFlush(s)
    PROVE  ServerInv'
<1>0. /\ FlushOutcome(s, "flushed")
      /\ FlushFrame /\ UNCHANGED <<asked, front, last>>
      /\ Pc(s) = "counting"
  BY FlushStep DEF FinalFlush, ServerInv, Caller, FlushFrame
<1>y. /\ AtTyped' /\ CallersPlaced'
      /\ Pc(s)' \in {"flushed", "waiting"}
      /\ \A g \in Caller : g # s => at'[g] = at[g]
  <2>1. s \in Caller /\ "flushed" \in Places(s)
    BY ServerAssumption DEF Caller, Sig, Places, SigAt
  <2>2. applied' = applied
    BY <1>0 DEF FlushFrame
  <2> QED
    BY <1>0, <2>1, <2>2, FlushMoves
<1>1. Typed'
  BY <1>0, <1>y DEF Typed, TypeOK, AtTyped, Live, ServerInv, bootVars, Pacing, FlushFrame,
     FlushOutcome
<1>2. CallersPlaced'
  BY <1>y
<1>3. CommitCovers'
  BY <1>0 DEF CommitCovers, ServerInv, Pacing, FlushFrame, FlushOutcome
<1>4. BootOrder'
  BY <1>0, <1>y DEF BootOrder, Safe, Kept, ServerInv, Caller, Pc, bootVars, FlushFrame,
     FlushOutcome
<1>5. FlushesTrack'
  BY <1>0 DEF FlushesTrack, Safe, Kept, ServerInv, Typed, Caller, At, Pc, Go, bootVars,
     NoCommit, FlushFrame, FlushOutcome, Returned, AwaitsCommit
<1>6. ShutdownsInOrder'
  <2> SUFFICES ASSUME NEW x \in Sig, Alone(x)'
               PROVE  ShutdownOrder(x)'
    BY DEF ShutdownsInOrder, ServerInv
  <2>1. at'[s].pc \in {"flushed", "waiting"} /\ \A y \in Sig : y # s => at'[y] = at[y]
    BY <1>0 DEF ServerInv, Typed, Caller, At, Go, FlushOutcome, Returned, AwaitsCommit
  <2>2. x = s /\ Alone(s) /\ ShutdownOrder(s)
    BY <2>1 DEF Alone, ShutdownsInOrder, ServerInv, Pc
  <2>3. at'[s].pc = "flushed" => Safe(applied)'
    BY <1>0 DEF ServerInv, Typed, CallersPlaced, Pc, TickAt, FlushOutcome, Returned,
       AwaitsCommit
  <2> QED
    BY <1>0, <2>1, <2>2, <2>3 DEF ShutdownOrder, FaceShut, ServerInv, Pc, bootVars, BeforeWire,
       BeforeClose, AfterClose, FlushFrame
<1> QED
  BY <1>1, <1>2, <1>3, <1>4, <1>5, <1>6 DEF ServerInv

(* A commit that is done clears the dirty flag.  All that has been applied *)
(* is durable then, or excused (<1>b), so whoever it wakes may go on.      *)
LEMMA CommitDoneStep ==
    ASSUME ServerInv, CommitDone
    PROVE  ServerInv'
<1>a. durable' \in Nat /\ commit.upto <= durable' /\ durable <= durable' /\ durable' <= applied
  <2>1. commit.upto \in Nat /\ commit.upto <= applied
    BY DEF TypeOK, ServerInv, Typed, NoCommit
  <2> DEFINE S == {commit.upto, durable}
  <2>2. S \in SUBSET Nat /\ S # {} /\ \A x \in S : x <= applied
    BY <2>1 DEF TypeOK, ServerInv, Typed
  <2>3. durable' = Max(S) /\ commit.upto \in S /\ durable \in S
    BY DEF CommitDone, ServerInv
  <2> HIDE DEF S
  <2>4. Max(S) \in S /\ \A x \in S : x <= Max(S)
    BY <2>2, MaxIs DEF ServerInv, Typed
  <2> QED
    BY <2>2, <2>3, <2>4 DEF ServerInv
<1>b. Kept(applied)'
  BY <1>a DEF CommitDone, CommitCovers, Kept, ServerInv, Typed, book, NoCommit
<1>c. last' \in Nat /\ last' <= applied
  <2>1. CASE Waiting = {}
    BY <2>1 DEF CommitDone, Baseline, TypeOK, ServerInv, Typed
  <2>2. CASE Waiting # {}
    <3> DEFINE S == {at[f].w : f \in Waiting}
    <3>1. S \in SUBSET Nat /\ S # {} /\ \A x \in S : x <= applied
      <4>1. \A f \in Caller : at[f].w \in Nat /\ at[f].w <= applied
        BY DEF ServerInv, Typed
      <4> QED
        BY <2>2, <4>1, ServerAssumption DEF Waiting, ServerInv
    <3>2. last' = Max(S)
      BY <2>2 DEF CommitDone, Baseline, ServerInv
    <3> HIDE DEF S
    <3> QED
      BY <3>1, <3>2, MaxIs DEF ServerInv, Typed
  <2> QED
    BY <2>1, <2>2 DEF ServerInv
<1>d. /\ \A f \in Tick : at'[f] = IF Pc(f) = "waiting" THEN At("idle") ELSE at[f]
      /\ \A f \in Sig : at'[f] = IF Pc(f) = "waiting" THEN At("flushed") ELSE at[f]
      /\ \A f \in Call :
            at'[f] = CASE Pc(f) = "waiting" -> At("flush")
                       [] Pc(f) = "flushing" -> At("ok")
                       [] OTHER -> at[f]
  BY WokenGo DEF CommitDone, ServerInv, Caller
<1>e. /\ commit.phase = "uploading" /\ commit' = NoCommit /\ dirty' = FALSE
      /\ at' = [f \in Caller |-> at'[f]]
      /\ UNCHANGED <<bootVars, wireVars, http, db, lease, fenced, book>>
  BY DEF CommitDone, ServerInv
<1>1. Typed'
  <2>1. \A f \in Caller : at'[f] \in [pc : TickAt \cup CallAt \cup SigAt, w : Nat]
                       /\ at'[f].w <= applied
    <3>1. \A f \in Caller : at'[f] = at[f] \/ \E p \in CallAt \cup SigAt : at'[f] = At(p)
      BY <1>d DEF ServerInv, Caller, CallAt, SigAt
    <3>2. \A f \in Caller : at[f] \in [pc : TickAt \cup CallAt \cup SigAt, w : Nat]
                       /\ at[f].w <= applied
      BY DEF ServerInv, Typed
    <3>3. \A p \in CallAt \cup SigAt : At(p) \in [pc : TickAt \cup CallAt \cup SigAt, w : Nat]
                       /\ At(p).w <= applied
      BY DEF ServerInv, Typed, At
    <3> QED
      BY <3>1, <3>2, <3>3, ServerAssumption DEF ServerInv
  <2>2. at' \in [Caller -> [pc : TickAt \cup CallAt \cup SigAt, w : Nat]]
    <3> DEFINE then(f) == at'[f]
    <3>1. at' = [f \in Caller |-> then(f)]
      BY <1>e DEF ServerInv
    <3>2. \A f \in Caller : then(f) \in [pc : TickAt \cup CallAt \cup SigAt, w : Nat]
      BY <2>1 DEF ServerInv
    <3> HIDE DEF then
    <3> QED
      BY <3>1, <3>2 DEF ServerInv
  <2>3. TypeOK'
    BY <1>a, <1>c, <1>e DEF TypeOK, Live, ServerInv, Typed, bootVars, wireVars, book, NoCommit
  <2> QED
    BY <1>a, <1>c, <1>e, <2>1, <2>2, <2>3 DEF ServerInv, Typed, bootVars, wireVars, book
<1>2. CallersPlaced'
  BY <1>a, <1>b, <1>c, <1>d, <1>e DEF CallersPlaced, ServerInv, At, Pc, TickAt, CallAt, SigAt
<1>3. CommitCovers'
  BY <1>a, <1>b, <1>c, <1>d, <1>e DEF CommitCovers, ServerInv, NoCommit
<1>4. BootOrder'
  BY <1>a, <1>b, <1>c, <1>d, <1>e DEF BootOrder, Safe, ServerInv, At, Pc, bootVars, wireVars,
     book
<1>5. FlushesTrack'
  BY <1>a, <1>b, <1>c, <1>d, <1>e DEF FlushesTrack, Safe, Kept, ServerInv, Typed, CallersPlaced,
     Caller, At, Pc, book, TickAt, SigAt
<1>6. ShutdownsInOrder'
  BY <1>a, <1>b, <1>c, <1>d, <1>e, ServerAssumption DEF ShutdownsInOrder, ShutdownOrder, Alone,
     FaceShut, Safe, ServerInv, At, Pc, bootVars, wireVars, book, BeforeWire, BeforeClose,
     AfterClose
<1> QED
  BY <1>1, <1>2, <1>3, <1>4, <1>5, <1>6 DEF ServerInv

(* What leaves all variables alone.                                        *)
LEMMA NothingStep ==
    ASSUME ServerInv, UNCHANGED vars
    PROVE  ServerInv'
<1> USE DEF vars, bootVars, wireVars, engineVars, book
<1>1. Typed'
  BY DEF ServerInv, Typed, TypeOK, Live, Budget
<1>2. CallersPlaced' /\ CommitCovers' /\ BootOrder'
  BY DEF ServerInv, CallersPlaced, CommitCovers, BootOrder, Safe, Kept, Pc
<1>3. FlushesTrack'
  BY DEF ServerInv, FlushesTrack, Safe, Kept, Pc
<1>4. ShutdownsInOrder'
  BY DEF ServerInv, ShutdownsInOrder, ShutdownOrder, Alone, FaceShut, Safe, Kept, Pc
<1> QED
  BY <1>1, <1>2, <1>3, <1>4 DEF ServerInv

----------------------------------------------------------------------------
LEMMA ServerStep == ServerInv /\ [Next]_vars => ServerInv'
<1> SUFFICES ASSUME ServerInv, [Next]_vars
             PROVE  ServerInv'
  OBVIOUS
<1>1. ASSUME Boot PROVE ServerInv'
  BY <1>1, BootLeaseStep, BootOpenStep, BootWireStep, BootReadyStep, BootFailsStep DEF Boot
<1>2. ASSUME NEW s \in Sig, ShutdownStep(s) PROVE ServerInv'
  BY <1>2, StopRestStep, StopWireStep, WireEndedStep, FinalFlushStep, CloseDbStep, ClosedStep,
     CloseHttpStep, ExitStep DEF ShutdownStep
<1> QED
  BY <1>1, <1>2, NothingStep, ConnectStep, DisconnectStep, SqlWriteStep, WireWriteStep,
     PollStep,
     FlushNowStep, FlushEngineStep, CommitReadStep, CommitDoneStep, CommitFailsStep,
     TakenOverStep, SignalStep DEF Next

LEMMA ServerStarts == Init => ServerInv
<1> SUFFICES ASSUME Init PROVE ServerInv
  OBVIOUS
<1>1. IsFiniteSet(conns) /\ Live <= Budget
  <2>1. conns = {} /\ rest = FALSE
    BY DEF Init
  <2>2. IsFiniteSet(conns) /\ Cardinality(conns) = 0
    BY <2>1, FS_EmptySet
  <2>3. Live = 0
    BY <2>1, <2>2 DEF Live
  <2>4. Budget \in Nat
    BY ServerAssumption DEF Budget
  <2> QED
    BY <2>2, <2>3, <2>4
<1>2. Typed
  <2>1. /\ at \in [Caller -> [pc : TickAt \cup CallAt \cup SigAt, w : Nat]]
        /\ \A f \in Caller : at[f].w = 0
    BY DEF Init, At, TickAt
  <2>2. TypeOK
    BY <1>1 DEF Init, TypeOK, NoCommit
  <2>3. asked \in [Call -> Nat] /\ \A f \in Call : asked[f] = 0
    BY DEF Init
  <2>4. /\ rest \in BOOLEAN /\ timer \in BOOLEAN /\ stopped \in BOOLEAN
        /\ dirty \in BOOLEAN /\ fenced \in BOOLEAN
    BY DEF Init
  <2>5. applied = 0 /\ durable = 0 /\ last = 0 /\ faults = 0 /\ commit = NoCommit
    BY DEF Init
  <2> QED
    BY <1>1, <2>1, <2>2, <2>3, <2>4, <2>5 DEF Typed
<1>5. CallersPlaced
  BY DEF Init, CallersPlaced, Pc, At, Caller, TickAt, CallAt, SigAt
<1>3. CommitCovers /\ BootOrder /\ FlushesTrack
  BY DEF Init, CommitCovers, BootOrder, FlushesTrack, Safe, Kept, Pc, At, Caller, NoCommit,
     Unopened, Sig
<1>4. ShutdownsInOrder
  BY DEF Init, ShutdownsInOrder, ShutdownOrder, Pc, At, Caller, BeforeWire, BeforeClose,
     AfterClose
<1> QED
  BY <1>2, <1>3, <1>4, <1>5 DEF ServerInv

(* The inductive invariant of the server holds always: no commit clears    *)
(* the dirty flag over a write that is neither in the bucket nor excused,  *)
(* and no shutdown passes a face that is still open.                       *)
THEOREM ServerInvariance == Spec => []ServerInv
  BY ServerStarts, ServerStep, PTL DEF Spec

(* The connections stay within the budget, the baseline of the counter and *)
(* the durable prefix within what has been applied, and a commit is under  *)
(* way only over a dirty engine.                                           *)
THEOREM ServerTypeCorrect == Spec => []TypeOK
<1>1. ServerInv => TypeOK
  BY DEF ServerInv, Typed
<1> QED
  BY <1>1, ServerInvariance, PTL

(* shutdown() on one signal: when the process exits, every answered write  *)
(* is in the bucket, the wire's included, except those in a window that    *)
(* the model names.  The other signals of the bound have not come: then    *)
(* its caller is alone, and ShutdownOrder says what holds at the exit.     *)
THEOREM ShutdownIsKept == Spec => []ShutdownKeeps
<1>1. ServerInv => ShutdownKeeps
  <2> SUFFICES ASSUME ServerInv, NEW s \in Sig, Pc(s) = "exit", Cardinality(Signalled) = 1
               PROVE  Kept(applied)
    BY DEF ShutdownKeeps, Exited
  <2>1. Signalled \subseteq 1..MaxSig
    BY DEF Signalled, Sig
  <2>2. IsFiniteSet(Signalled)
    <3>1. IsFiniteSet(1..MaxSig)
      BY ServerAssumption, FS_Interval
    <3> QED
      BY <2>1, <3>1, FS_Subset
  <2>3. PICK x : Signalled = {x}
    BY <2>2, FS_Singleton
  <2>4. Alone(s)
    BY <2>3 DEF Alone, Signalled
  <2> QED
    BY <2>4 DEF ServerInv, ShutdownsInOrder, ShutdownOrder, AfterClose
<1> QED
  BY <1>1, ServerInvariance, PTL

(* POST /flush that answers {"flushed": true} covers what had been         *)
(* answered before it was asked for, for any number of requests and polls  *)
(* that share commits.                                                     *)
THEOREM FlushesCover == Spec => []FlushCovers
<1>1. ServerInv => FlushCovers
  BY DEF ServerInv, FlushesTrack, FlushCovers
<1> QED
  BY <1>1, ServerInvariance, PTL
=============================================================================
