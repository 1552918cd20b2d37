----------------------------- MODULE QueueProofs ----------------------------
(***************************************************************************)
(* Theorems about WireQueue, for any number of connections, messages and   *)
(* evictions: its types, whose transactions are left open                  *)
(* (OrphansExplained), that they are isolated (TxIsolated) and whole       *)
(* (TxWhole).                                                              *)
(*                                                                         *)
(* The inductive invariant, QueueInv, looks at the jobs in the engine and  *)
(* then in the queue, of one connection at a time.  They are a chain       *)
(* (Chained): the first goes on from what the session is in, each from the *)
(* one before, and the client will go on from the last.  So a job marked   *)
(* as sent inside a transaction is executed inside one.  The steps keep    *)
(* the chains because take(), clearForHandler() and the engine change the  *)
(* order of no connection's own jobs (SameOrder).  That the transaction is *)
(* its own follows because nobody else gets into the engine while one is   *)
(* open (OwnerAlone), and nobody's ROLLBACK but its own ends it            *)
(* (RollbacksAimed).                                                       *)
(***************************************************************************)
EXTENDS WireQueue, FiniteSetTheorems, SequenceTheorems, WellFoundedInduction, TLAPS

(* Where w holds jobs of h.                                                *)
Mine(w, h) == {i \in DOMAIN w : w[i].h = h}

(* What message m leaves open behind it.                                   *)
Opens(m) == (m.inside \/ m.kind = "begin") /\ m.kind # "end"

(* n is what a client that has sent m may send next.                       *)
Follows(m, n) ==
    /\ n.inside <=> Opens(m)
    /\ n.kind = "bind" <=> m.kind = "parse"

(* The jobs of h in w lead from the session, where h is in a transaction   *)
(* of its own or not (in) and has filled the unnamed slot or not (fill),   *)
(* to what the client has sent last (open, parse).                         *)
Chained(h, w, in, fill, open, parse) ==
    /\ \A j \in Mine(w, h) :
          (\A k \in Mine(w, h) : j <= k) =>
              /\ w[j].inside <=> in
              /\ w[j].inside /\ w[j].kind = "bind" => fill
    /\ \A i, j \in Mine(w, h) :
          i < j /\ (\A k \in Mine(w, h) : k <= i \/ j <= k) => Follows(w[i], w[j])
    /\ \A i \in Mine(w, h) :
          (\A k \in Mine(w, h) : k <= i) =>
              /\ open <=> Opens(w[i])
              /\ parse <=> w[i].kind = "parse"
    /\ Mine(w, h) = {} => (open <=> in) /\ (open /\ parse => fill)

(* The messages of an open connection, in the engine and then in the       *)
(* queue, are such a chain.                                                *)
ClientsChained ==
    \A h \in Handler : conn[h] = "open" =>
        Chained(h, engine \o queue, inTx /\ owner = h, slot = h, opened[h], parsed[h])

(* A connection that never opened has sent nothing.                        *)
NewAreSilent ==
    \A h \in Handler : conn[h] = "new" =>
        /\ Mine(engine \o queue, h) = {}
        /\ owner # h /\ ~opened[h] /\ ~parsed[h]

(* While a transaction is open, the engine works for its owner alone.      *)
OwnerAlone ==
    inTx => last = owner /\ \A i \in DOMAIN engine : engine[i].h = owner

(* A ROLLBACK on its way is that of a connection that is leaving, and no   *)
(* message of another is ahead of it.                                      *)
RollbacksAimed ==
    \A i \in DOMAIN engine : ~IsMessage(engine[i]) =>
        /\ conn[engine[i].h] \notin {"new", "open"}
        /\ \A j \in DOMAIN engine : j < i => engine[j].h = engine[i].h \/ ~IsMessage(engine[j])

(* Whose messages are about.                                               *)
SendersKnown ==
    /\ \A i \in DOMAIN queue : Attached(queue[i].h)
    /\ \A i \in DOMAIN engine : engine[i].kind = "begin" =>
          Attached(engine[i].h) \/ engine[i].h \in missed

QueueInv ==
    /\ TypeOK
    /\ OwnerAlone
    /\ RollbacksAimed
    /\ SendersKnown
    /\ OrphansExplained
    /\ NewAreSilent
    /\ ClientsChained
----------------------------------------------------------------------------
(* Without() keeps the order of what it keeps.                             *)

(* Where q holds jobs of others than h.                                    *)
Kept(q, h) == {i \in DOMAIN q : q[i].h # h}

(* r lists what q has at the places kept, in the same order.               *)
Lists(r, q, kept) ==
    \E f \in [DOMAIN r -> kept] :
        /\ \A n \in DOMAIN r : r[n] = q[f[n]]
        /\ \A m, n \in DOMAIN r : m < n => f[m] < f[n]
        /\ \A i \in kept : \E n \in DOMAIN r : f[n] = i

(* Without() numbers the places kept in their order: the n-th is the one    *)
(* that has n of them up to itself.                                        *)
LEMMA WithoutKeeps ==
  ASSUME NEW S, NEW q \in Seq(S), NEW h
  PROVE  /\ Without(q, h) \in Seq(S)
         /\ Lists(Without(q, h), q, Kept(q, h))
<1> DEFINE kept == {i \in DOMAIN q : q[i].h # h}
           upTo(i) == {j \in kept : j <= i}
           total == Cardinality(kept)
           count == [i \in kept |-> Cardinality(upTo(i))]
           nth(n) == CHOOSE i \in kept : Cardinality(upTo(i)) = n
           f == [n \in 1..total |-> nth(n)]
           r == Without(q, h)
<1>1. /\ IsFiniteSet(kept) /\ total \in Nat /\ kept \subseteq 1..Len(q)
      /\ Len(q) \in Nat
  <2>1. Len(q) \in Nat /\ kept \subseteq 1..Len(q)
    OBVIOUS
  <2>2. IsFiniteSet(1..Len(q))
    BY <2>1, FS_Interval
  <2> QED BY <2>1, <2>2, FS_Subset, FS_CardinalityType
<1>2. ASSUME NEW i \in kept
      PROVE  IsFiniteSet(upTo(i)) /\ Cardinality(upTo(i)) \in 1..total
  <2>1. upTo(i) \subseteq kept /\ i \in upTo(i)
    BY <1>1
  <2>2. IsFiniteSet(upTo(i)) /\ Cardinality(upTo(i)) <= total /\ Cardinality(upTo(i)) \in Nat
    BY <1>1, <2>1, FS_Subset, FS_CardinalityType
  <2>3. Cardinality(upTo(i)) # 0
    BY <2>1, <2>2, FS_EmptySet
  <2> QED BY <2>2, <2>3, <1>1
<1>3. ASSUME NEW i \in kept, NEW j \in kept, i < j
      PROVE  Cardinality(upTo(i)) < Cardinality(upTo(j))
  <2>1. upTo(i) \subseteq upTo(j) /\ j \in upTo(j) /\ j \notin upTo(i)
    BY <1>1, <1>3
  <2>2. /\ Cardinality(upTo(i)) \in Nat /\ Cardinality(upTo(j)) \in Nat
        /\ IsFiniteSet(upTo(j))
    <3>1. 1..total \subseteq Nat
      BY <1>1
    <3> HIDE DEF upTo, total, kept
    <3> QED BY <3>1, <1>2
  <2>3. Cardinality(upTo(i)) <= Cardinality(upTo(j)) /\ Cardinality(upTo(i)) # Cardinality(upTo(j))
    BY <2>1, <2>2, FS_Subset
  <2> QED BY <2>2, <2>3
<1>4. count \in [kept -> 1..total]
  BY <1>2
<1>5. ASSUME NEW n \in 1..total
      PROVE  \E i \in kept : count[i] = n
  <2> DEFINE img == {count[i] : i \in kept}
  <2>1. \A i, j \in kept : i # j => count[i] # count[j]
    <3> SUFFICES ASSUME NEW i \in kept, NEW j \in kept, i # j
                 PROVE  count[i] # count[j]
      OBVIOUS
    <3>1. i < j \/ j < i
      BY <1>1
    <3>2. count[i] \in 1..total /\ count[j] \in 1..total
      BY <1>4
    <3>3. count[i] < count[j] \/ count[j] < count[i]
      BY <3>1, <1>3
    <3> QED BY <3>2, <3>3, <1>1
  <2>2. IsFiniteSet(1..total) /\ Cardinality(1..total) = total
    BY <1>1, FS_Interval
  <2>3. count \in Bijection(kept, img)
    BY <2>1, <1>4 DEF Bijection, Injection, Surjection, IsInjective
  <2>4. Cardinality(img) = total
    BY <2>3, <1>1, FS_Bijection DEF ExistsBijection
  <2>5. img \subseteq 1..total
    BY <1>4
  <2>6. img = 1..total
    BY <2>2, <2>4, <2>5, FS_Subset
  <2> QED BY <2>6
<1>6. ASSUME NEW n \in 1..total
      PROVE  f[n] \in kept /\ count[f[n]] = n
  BY <1>5
<1>7. /\ r = [n \in 1..total |-> q[nth(n)]]
      /\ r \in Seq(S) /\ DOMAIN r = 1..total
      /\ \A n \in 1..total : r[n] = q[f[n]]
  <2>1. r = [n \in 1..total |-> q[nth(n)]]
    BY DEF Without
  <2>2. \A n \in 1..total : q[nth(n)] \in S
    <3> SUFFICES ASSUME NEW n \in 1..total PROVE q[nth(n)] \in S
      OBVIOUS
    <3>1. nth(n) \in 1..Len(q)
      BY <1>6, <1>1
    <3> QED BY <3>1, ElementOfSeq
  <2>3. r \in Seq(S)
    <3> HIDE DEF nth, r, total
    <3> QED BY <2>1, <2>2, <1>1, IsASeq
  <2> QED BY <2>1, <2>3
<1>b. kept \subseteq Nat /\ 1..total \subseteq Nat
  BY <1>1
<1>c. f \in [1..total -> kept]
  BY <1>6
<1>d. \A i, j \in kept : i < j => count[i] < count[j]
  BY <1>3
<1>e. \A n \in 1..total : f[n] \in kept /\ count[f[n]] = n
  BY <1>6
<1> HIDE DEF f, count, total, kept, r
<1>8. ASSUME NEW m \in 1..total, NEW n \in 1..total, m < n
      PROVE  f[m] < f[n]
  <2>1. /\ f[m] \in kept /\ count[f[m]] = m
        /\ f[n] \in kept /\ count[f[n]] = n
    BY <1>e
  <2>2. f[m] # f[n] /\ f[m] \in Nat /\ f[n] \in Nat /\ m \in Nat /\ n \in Nat
    <3>1. f[m] \in Nat /\ f[n] \in Nat /\ m \in Nat /\ n \in Nat
      BY <2>1, <1>b
    <3>2. m # n
      BY <3>1, <1>8
    <3> QED BY <3>1, <3>2, <2>1
  <2>3. CASE f[n] < f[m]
    <3>1. count[f[n]] < count[f[m]]
      BY <2>1, <2>3, <1>d
    <3> QED BY <3>1, <2>1, <2>2, <1>8
  <2> QED BY <2>2, <2>3
<1>9. ASSUME NEW i \in kept
      PROVE  \E n \in 1..total : f[n] = i
  <2>1. count[i] \in 1..total
    BY <1>4
  <2> DEFINE n == count[i]
  <2>2. f[n] \in kept /\ count[f[n]] = count[i]
    BY <2>1, <1>e
  <2>3. f[n] = i
    <3>1. f[n] \in Nat /\ i \in Nat /\ count[i] \in Nat
      BY <2>1, <2>2, <1>b
    <3>2. ~ (f[n] < i) /\ ~ (i < f[n])
      <4> HIDE DEF n
      <4> QED BY <3>1, <2>2, <1>d
    <3> QED BY <3>1, <3>2
  <2> QED BY <2>1, <2>3
<1> QED
  <2>1. /\ f \in [DOMAIN r -> kept]
        /\ \A n \in DOMAIN r : r[n] = q[f[n]]
        /\ \A m, n \in DOMAIN r : m < n => f[m] < f[n]
        /\ \A i \in kept : \E n \in DOMAIN r : f[n] = i
    BY <1>7, <1>8, <1>9, <1>c
  <2>2. Lists(r, q, kept)
    BY <2>1 DEF Lists
  <2> QED BY <2>2, <1>7 DEF kept, r, Kept
----------------------------------------------------------------------------
(* Chains and the ways a queue changes.                                    *)

(* v holds the jobs of h that w holds, in the same order.                  *)
SameOrder(w, v, h) ==
    \E f \in [Mine(v, h) -> Mine(w, h)] :
        /\ \A i \in Mine(v, h) : v[i] = w[f[i]]
        /\ \A i, j \in Mine(v, h) : i < j => f[i] < f[j]
        /\ \A i \in Mine(w, h) : \E j \in Mine(v, h) : f[j] = i

(* The places of w are numbers.                                            *)
Places(w) == DOMAIN w \subseteq Nat

(* A chain is a matter of the order of a connection's own jobs.            *)
LEMMA ChainMoves ==
  ASSUME NEW h, NEW w, NEW v, NEW in, NEW fill, NEW open, NEW parse,
         Places(w), Places(v), SameOrder(w, v, h),
         Chained(h, w, in, fill, open, parse)
  PROVE  Chained(h, v, in, fill, open, parse)
<1> DEFINE W == Mine(w, h)
           V == Mine(v, h)
<1>1. PICK f \in [V -> W] :
         /\ \A i \in V : v[i] = w[f[i]]
         /\ \A i, j \in V : i < j => f[i] < f[j]
         /\ \A i \in W : \E j \in V : f[j] = i
  BY DEF SameOrder
<1>2. V \subseteq Nat /\ W \subseteq Nat
  BY DEF Places, Mine
<1>3. \A i, j \in V : i <= j <=> f[i] <= f[j]
  <2> SUFFICES ASSUME NEW i \in V, NEW j \in V PROVE i <= j <=> f[i] <= f[j]
    OBVIOUS
  <2>1. i \in Nat /\ j \in Nat /\ f[i] \in Nat /\ f[j] \in Nat
    BY <1>1, <1>2
  <2>2. (i < j => f[i] < f[j]) /\ (j < i => f[j] < f[i]) /\ (i = j => f[i] = f[j])
    BY <1>1
  <2> QED BY <2>1, <2>2
<1> HIDE DEF W, V
<1>4. ASSUME NEW j \in V, \A k \in V : j <= k
      PROVE  /\ v[j].inside <=> in
             /\ v[j].inside /\ v[j].kind = "bind" => fill
  <2>1. f[j] \in W /\ v[j] = w[f[j]]
    BY <1>1
  <2>2. \A k \in W : f[j] <= k
    BY <1>1, <1>3, <1>4
  <2> QED BY <2>1, <2>2 DEF Chained, W
<1>5. ASSUME NEW i \in V, NEW j \in V, i < j, \A k \in V : k <= i \/ j <= k
      PROVE  Follows(v[i], v[j])
  <2>1. f[i] \in W /\ f[j] \in W /\ v[i] = w[f[i]] /\ v[j] = w[f[j]] /\ f[i] < f[j]
    BY <1>1, <1>5
  <2>2. \A k \in W : k <= f[i] \/ f[j] <= k
    BY <1>1, <1>3, <1>5
  <2> QED BY <2>1, <2>2 DEF Chained, W
<1>6. ASSUME NEW i \in V, \A k \in V : k <= i
      PROVE  /\ open <=> Opens(v[i])
             /\ parse <=> v[i].kind = "parse"
  <2>1. f[i] \in W /\ v[i] = w[f[i]]
    BY <1>1
  <2>2. \A k \in W : k <= f[i]
    BY <1>1, <1>3, <1>6
  <2> QED BY <2>1, <2>2 DEF Chained, W
<1>7. ASSUME V = {}
      PROVE  (open <=> in) /\ (open /\ parse => fill)
  <2>1. W = {}
    BY <1>1, <1>7
  <2> QED BY <2>1 DEF Chained, W
<1> QED BY <1>4, <1>5, <1>6, <1>7 DEF Chained, V

(* What h left in the unnamed slot matters only inside its transaction.    *)
LEMMA ChainOutside ==
  ASSUME NEW h, NEW w, NEW in, NEW in2, NEW fill, NEW fill2, NEW open, NEW parse,
         ~in, ~in2, Chained(h, w, in, fill, open, parse)
  PROVE  Chained(h, w, in2, fill2, open, parse)
BY DEF Chained

(* The first job of the chain runs.                                        *)
LEMMA ChainAdvances ==
  ASSUME NEW S, NEW w \in Seq(S), w # <<>>, NEW h, Head(w).h = h,
         NEW in, NEW fill, NEW fill2, NEW open, NEW parse,
         Chained(h, w, in, fill, open, parse),
         Head(w).kind = "parse" => fill2
  PROVE  Chained(h, Tail(w), Opens(Head(w)), fill2, open, parse)
<1> DEFINE v == Tail(w)
<1>1. /\ Len(w) \in Nat /\ Len(w) > 0 /\ DOMAIN w = 1..Len(w) /\ DOMAIN v = 1..(Len(w)-1)
      /\ w[1] = Head(w) /\ \A i \in DOMAIN v : v[i] = w[i+1]
  OBVIOUS
<1> HIDE DEF v
<1>2. /\ 1 \in Mine(w, h) /\ Mine(w, h) \subseteq 1..Len(w)
      /\ \A i \in Mine(v, h) : i+1 \in Mine(w, h) /\ i \in Nat /\ i > 0 /\ v[i] = w[i+1]
      /\ \A i \in Mine(w, h) : i = 1 \/ (i-1 \in Mine(v, h) /\ i-1 > 0)
  <2>1. ASSUME NEW i \in Mine(w, h), i # 1
        PROVE  i-1 \in Mine(v, h) /\ i-1 > 0
    <3>1. i \in 2..Len(w) /\ w[i].h = h
      BY <1>1, <2>1 DEF Mine
    <3>2. i-1 \in 1..(Len(w)-1) /\ (i-1)+1 = i
      BY <3>1, <1>1
    <3> QED BY <3>1, <3>2, <1>1 DEF Mine
  <2> QED BY <1>1, <2>1 DEF Mine
<1>3. ASSUME NEW j \in Mine(v, h), \A k \in Mine(v, h) : j <= k
      PROVE  /\ v[j].inside <=> Opens(Head(w))
             /\ v[j].inside /\ v[j].kind = "bind" => fill2
  <2>1. 1 < j+1 /\ \A k \in Mine(w, h) : k <= 1 \/ j+1 <= k
    BY <1>2, <1>3, <1>1
  <2>2. Follows(w[1], w[j+1])
    BY <2>1, <1>2 DEF Chained
  <2> QED BY <2>2, <1>1, <1>2 DEF Follows
<1>4. ASSUME NEW i \in Mine(v, h), NEW j \in Mine(v, h), i < j,
             \A k \in Mine(v, h) : k <= i \/ j <= k
      PROVE  Follows(v[i], v[j])
  <2>1. i+1 < j+1 /\ \A k \in Mine(w, h) : k <= i+1 \/ j+1 <= k
    BY <1>2, <1>4, <1>1
  <2> QED BY <2>1, <1>2 DEF Chained
<1>5. ASSUME NEW i \in Mine(v, h), \A k \in Mine(v, h) : k <= i
      PROVE  /\ open <=> Opens(v[i])
             /\ parse <=> v[i].kind = "parse"
  <2>1. \A k \in Mine(w, h) : k <= i+1
    BY <1>2, <1>5, <1>1
  <2> QED BY <2>1, <1>2 DEF Chained
<1>6. ASSUME Mine(v, h) = {}
      PROVE  (open <=> Opens(Head(w))) /\ (open /\ parse => fill2)
  <2>1. \A k \in Mine(w, h) : k <= 1
    BY <1>2, <1>6
  <2>2. (open <=> Opens(w[1])) /\ (parse <=> w[1].kind = "parse")
    BY <2>1, <1>2 DEF Chained
  <2> QED BY <2>2, <1>1
<1> QED BY <1>3, <1>4, <1>5, <1>6 DEF Chained, v

(* The client sends what it may send.                                      *)
LEMMA ChainGrows ==
  ASSUME NEW S, NEW w \in Seq(S), NEW x \in S, NEW h, x.h = h,
         NEW in, NEW fill,
         Chained(h, w, in, fill, x.inside, x.kind = "bind")
  PROVE  Chained(h, Append(w, x), in, fill, Opens(x), x.kind = "parse")
<1> DEFINE v == Append(w, x)
           n == Len(w) + 1
<1>1. /\ Len(w) \in Nat /\ DOMAIN w = 1..Len(w) /\ DOMAIN v = 1..n
      /\ v[n] = x /\ \A i \in DOMAIN w : v[i] = w[i]
  OBVIOUS
<1> HIDE DEF v
<1>2. /\ n \in Mine(v, h) /\ n \in Nat
      /\ \A i \in Mine(v, h) : i = n \/ (i \in Mine(w, h) /\ i \in Nat /\ v[i] = w[i])
      /\ \A i \in Mine(w, h) : i \in Mine(v, h) /\ i < n /\ i \in Nat
  BY <1>1 DEF Mine
<1>3. ASSUME NEW j \in Mine(v, h), \A k \in Mine(v, h) : j <= k
      PROVE  /\ v[j].inside <=> in
             /\ v[j].inside /\ v[j].kind = "bind" => fill
  <2>1. CASE j = n
    <3>1. ASSUME NEW i \in Mine(w, h) PROVE FALSE
      <4>1. i < n /\ i \in Nat /\ i \in Mine(v, h) /\ n \in Nat
        BY <1>2
      <4>2. n <= i
        BY <4>1, <1>3, <2>1
      <4> HIDE DEF n
      <4> QED BY <4>1, <4>2
    <3>2. (x.inside <=> in) /\ (x.inside /\ x.kind = "bind" => fill)
      BY <3>1 DEF Chained
    <3> QED BY <3>2, <2>1, <1>1
  <2>2. CASE j # n
    <3>1. j \in Mine(w, h) /\ v[j] = w[j] /\ \A k \in Mine(w, h) : j <= k
      BY <2>2, <1>2, <1>3
    <3> QED BY <3>1 DEF Chained
  <2> QED BY <2>1, <2>2
<1>4. ASSUME NEW i \in Mine(v, h), NEW j \in Mine(v, h), i < j,
             \A k \in Mine(v, h) : k <= i \/ j <= k
      PROVE  Follows(v[i], v[j])
  <2>1. i \in Mine(w, h) /\ v[i] = w[i]
    BY <1>2, <1>4
  <2>2. CASE j = n
    <3>1. \A k \in Mine(w, h) : k <= i
      BY <1>2, <1>4, <2>2
    <3>2. (x.inside <=> Opens(w[i])) /\ (x.kind = "bind" <=> w[i].kind = "parse")
      BY <3>1, <2>1 DEF Chained
    <3> QED BY <3>2, <2>1, <2>2, <1>1 DEF Follows
  <2>3. CASE j # n
    <3>1. j \in Mine(w, h) /\ v[j] = w[j] /\ \A k \in Mine(w, h) : k <= i \/ j <= k
      BY <2>3, <1>2, <1>4
    <3> QED BY <3>1, <2>1, <1>4 DEF Chained
  <2> QED BY <2>2, <2>3
<1>5. ASSUME NEW i \in Mine(v, h), \A k \in Mine(v, h) : k <= i
      PROVE  /\ Opens(x) <=> Opens(v[i])
             /\ x.kind = "parse" <=> v[i].kind = "parse"
  <2>1. i = n
    BY <1>2, <1>5
  <2> QED BY <2>1, <1>1
<1>6. Mine(v, h) # {}
  BY <1>2
<1> QED BY <1>3, <1>4, <1>5, <1>6 DEF Chained, v

(* Where the jobs of the others are when one is added, taken or dropped.   *)
LEMMA OrderOfTail ==
  ASSUME NEW S, NEW w \in Seq(S), w # <<>>, NEW h, Head(w).h # h
  PROVE  SameOrder(w, Tail(w), h)
<1> DEFINE v == Tail(w)
           f == [i \in Mine(v, h) |-> i + 1]
<1>1. /\ Len(w) \in Nat /\ Len(w) > 0 /\ DOMAIN w = 1..Len(w) /\ DOMAIN v = 1..(Len(w)-1)
      /\ w[1] = Head(w) /\ \A i \in DOMAIN v : v[i] = w[i+1]
  OBVIOUS
<1> HIDE DEF v
<1>2. f \in [Mine(v, h) -> Mine(w, h)] /\ \A i \in Mine(v, h) : v[i] = w[f[i]]
  BY <1>1 DEF Mine
<1>3. \A i, j \in Mine(v, h) : i < j => f[i] < f[j]
  BY <1>1 DEF Mine
<1>4. ASSUME NEW i \in Mine(w, h)
      PROVE  \E j \in Mine(v, h) : f[j] = i
  <2>1. i \in 2..Len(w) /\ w[i].h = h
    BY <1>1 DEF Mine
  <2>2. i-1 \in DOMAIN v /\ (i-1)+1 = i
    BY <2>1, <1>1
  <2>3. i-1 \in Mine(v, h)
    BY <2>1, <2>2, <1>1 DEF Mine
  <2> QED BY <2>2, <2>3
<1> QED
  <2> HIDE DEF f
  <2> QED BY <1>2, <1>3, <1>4 DEF SameOrder, v

LEMMA OrderOfAppend ==
  ASSUME NEW S, NEW w \in Seq(S), NEW x \in S, NEW h, x.h # h
  PROVE  SameOrder(w, Append(w, x), h)
<1> DEFINE v == Append(w, x)
           f == [i \in Mine(v, h) |-> i]
<1>1. /\ Len(w) \in Nat /\ DOMAIN w = 1..Len(w) /\ DOMAIN v = 1..Len(w)+1
      /\ v[Len(w)+1] = x /\ \A i \in DOMAIN w : v[i] = w[i]
  OBVIOUS
<1> HIDE DEF v
<1>2. Mine(v, h) = Mine(w, h) /\ \A i \in Mine(v, h) : v[i] = w[i]
  BY <1>1 DEF Mine
<1> QED
  <2>1. f \in [Mine(v, h) -> Mine(w, h)] /\ \A i \in Mine(v, h) : f[i] = i
    BY <1>2
  <2> HIDE DEF f
  <2> QED BY <1>2, <2>1 DEF SameOrder, v

(* The ROLLBACK of another joins what is before the engine.                *)
LEMMA OrderOfJoin ==
  ASSUME NEW S, NEW e \in Seq(S), NEW q \in Seq(S), NEW x \in S, NEW h, x.h # h
  PROVE  SameOrder(e \o q, Append(e, x) \o q, h)
<1> DEFINE w == e \o q
           v == Append(e, x) \o q
           m == Len(e)
           f == [i \in Mine(v, h) |-> IF i <= m THEN i ELSE i-1]
<1>1. /\ m \in Nat /\ Len(q) \in Nat
      /\ DOMAIN w = 1..(m + Len(q)) /\ DOMAIN v = 1..(m + 1 + Len(q))
      /\ \A i \in 1..m : v[i] = w[i]
      /\ v[m+1] = x
      /\ \A i \in (m+2)..(m + 1 + Len(q)) : v[i] = w[i-1]
  OBVIOUS
<1> HIDE DEF w, v, m
<1>2. ASSUME NEW i \in Mine(v, h)
      PROVE  f[i] \in Mine(w, h) /\ v[i] = w[f[i]] /\ i \in Nat /\ i # m+1
  BY <1>1 DEF Mine
<1>3. \A i, j \in Mine(v, h) : i < j => f[i] < f[j]
  BY <1>1, <1>2
<1>4. ASSUME NEW i \in Mine(w, h)
      PROVE  \E j \in Mine(v, h) : f[j] = i
  <2>1. i \in 1..(m + Len(q)) /\ w[i].h = h
    BY <1>1 DEF Mine
  <2>2. CASE i <= m
    <3>1. i \in Mine(v, h)
      BY <2>1, <2>2, <1>1 DEF Mine
    <3> QED BY <3>1, <2>2
  <2>3. CASE i > m
    <3>1. i+1 \in (m+2)..(m + 1 + Len(q)) /\ (i+1)-1 = i
      BY <2>1, <2>3, <1>1
    <3>2. i+1 \in Mine(v, h)
      BY <3>1, <2>1, <1>1 DEF Mine
    <3>3. ~ (i+1 <= m)
      BY <2>1, <2>3, <1>1
    <3> QED BY <3>1, <3>2, <3>3
  <2> QED BY <2>1, <2>2, <2>3, <1>1
<1>5. f \in [Mine(v, h) -> Mine(w, h)]
  BY <1>2
<1> QED
  <2> HIDE DEF f
  <2> QED BY <1>2, <1>3, <1>4, <1>5 DEF SameOrder, v, w

(* Concatenation, place by place.                                          *)
LEMMA JoinIs ==
  ASSUME NEW S, NEW a \in Seq(S), NEW b \in Seq(S)
  PROVE  /\ a \o b \in Seq(S) /\ Len(a \o b) = Len(a) + Len(b)
         /\ DOMAIN (a \o b) = 1..(Len(a) + Len(b))
         /\ Len(a) \in Nat /\ Len(b) \in Nat
         /\ \A i \in 1..Len(a) : (a \o b)[i] = a[i]
         /\ \A i \in 1..Len(b) : (a \o b)[Len(a)+i] = b[i]
         /\ \A i \in (Len(a)+1)..(Len(a)+Len(b)) : (a \o b)[i] = b[i-Len(a)]
OBVIOUS

(* RemoveAt() of the community modules.                                    *)
LEMMA RemoveAtIs ==
  ASSUME NEW S, NEW q \in Seq(S), NEW k \in DOMAIN q
  PROVE  LET r == RemoveAt(q, k)
         IN  /\ r \in Seq(S) /\ Len(r) = Len(q) - 1 /\ Len(q) \in Nat /\ k \in 1..Len(q)
             /\ \A i \in 1..(k-1) : r[i] = q[i]
             /\ \A i \in k..(Len(q)-1) : r[i] = q[i+1]
<1>1. Len(q) \in Nat /\ k \in 1..Len(q)
  OBVIOUS
<1>2. /\ SubSeq(q, 1, k-1) \in Seq(S) /\ Len(SubSeq(q, 1, k-1)) = k-1
      /\ \A i \in 1..(k-1) : SubSeq(q, 1, k-1)[i] = q[i]
  BY <1>1
<1>3. /\ SubSeq(q, k+1, Len(q)) \in Seq(S) /\ Len(SubSeq(q, k+1, Len(q))) = Len(q)-k
      /\ \A i \in 1..(Len(q)-k) : SubSeq(q, k+1, Len(q))[i] = q[k+i]
  BY <1>1
<1> DEFINE a == SubSeq(q, 1, k-1)
           b == SubSeq(q, k+1, Len(q))
<1>4. RemoveAt(q, k) = a \o b
  BY DEF RemoveAt
<1> HIDE DEF a, b
<1>5. /\ a \o b \in Seq(S) /\ Len(a \o b) = Len(q) - 1
      /\ \A i \in 1..(k-1) : (a \o b)[i] = a[i]
      /\ \A i \in k..(Len(q)-1) : (a \o b)[i] = b[i-(k-1)]
  <2>1. a \in Seq(S) /\ b \in Seq(S) /\ Len(a) = k-1 /\ Len(b) = Len(q)-k
    BY <1>2, <1>3 DEF a, b
  <2>2. \A i \in k..(Len(q)-1) : i \in (Len(a)+1)..(Len(a)+Len(b))
    BY <2>1, <1>1
  <2>3. (a \o b) \in Seq(S) /\ Len(a \o b) = Len(a) + Len(b)
    BY <2>1, JoinIs
  <2>4. \A i \in 1..Len(a) : (a \o b)[i] = a[i]
    BY <2>1, JoinIs
  <2>5. \A i \in (Len(a)+1)..(Len(a)+Len(b)) : (a \o b)[i] = b[i-Len(a)]
    BY <2>1, JoinIs
  <2>6. Len(a) + Len(b) = Len(q) - 1
    BY <2>1, <1>1
  <2> QED BY <2>1, <2>2, <2>3, <2>4, <2>5, <2>6
<1>6. \A i \in k..(Len(q)-1) : b[i-(k-1)] = q[i+1]
  <2> SUFFICES ASSUME NEW i \in k..(Len(q)-1) PROVE b[i-(k-1)] = q[i+1]
    OBVIOUS
  <2>1. i-(k-1) \in 1..(Len(q)-k) /\ k+(i-(k-1)) = i+1
    BY <1>1
  <2> QED BY <2>1, <1>3 DEF b
<1> QED BY <1>1, <1>2, <1>4, <1>5, <1>6 DEF a

(* take(): no job of the same connection is ahead of the one taken.        *)
LEMMA OrderOfTake ==
  ASSUME NEW S, NEW e \in Seq(S), NEW q \in Seq(S), NEW k \in DOMAIN q, NEW h,
         q[k].h = h => \A j \in DOMAIN q : j < k => q[j].h # h
  PROVE  SameOrder(e \o q, Append(e, q[k]) \o RemoveAt(q, k), h)
<1> DEFINE r == RemoveAt(q, k)
           w == e \o q
           v == Append(e, q[k]) \o r
           m == Len(e)
           n == Len(q)
           f == [i \in Mine(v, h) |->
                   IF i <= m THEN i ELSE IF i = m+1 THEN m+k ELSE IF i <= m+k THEN i-1 ELSE i]
<1>1. /\ r \in Seq(S) /\ Len(r) = n - 1 /\ k \in 1..n
      /\ \A i \in 1..(k-1) : r[i] = q[i]
      /\ \A i \in k..(n-1) : r[i] = q[i+1]
      /\ m \in Nat /\ n \in Nat /\ q[k] \in S
  BY RemoveAtIs
<1>2. /\ DOMAIN w = 1..(m+n)
      /\ \A i \in 1..m : w[i] = e[i]
      /\ \A i \in 1..n : w[m+i] = q[i]
  OBVIOUS
<1>3. /\ DOMAIN v = 1..(m+n)
      /\ \A i \in 1..m : v[i] = e[i]
      /\ v[m+1] = q[k]
      /\ \A i \in 1..(n-1) : v[m+1+i] = r[i]
  <2> HIDE DEF r, n
  <2> DEFINE a == Append(e, q[k])
  <2>1. /\ a \in Seq(S) /\ Len(a) = m+1 /\ a[m+1] = q[k]
        /\ \A i \in 1..m : a[i] = e[i]
    BY <1>1
  <2> HIDE DEF a, m
  <2>2. m \in Nat /\ n \in Nat /\ Len(r) = n-1 /\ n > 0 /\ r \in Seq(S)
    BY <1>1
  <2>3. /\ DOMAIN (a \o r) = 1..(m+n)
        /\ \A i \in 1..(m+1) : (a \o r)[i] = a[i]
        /\ \A i \in 1..(n-1) : (a \o r)[m+1+i] = r[i]
    <3>0. a \in Seq(S) /\ r \in Seq(S)
      BY <2>1, <2>2
    <3>1. /\ DOMAIN (a \o r) = 1..(Len(a) + Len(r))
          /\ \A i \in 1..Len(a) : (a \o r)[i] = a[i]
          /\ \A i \in 1..Len(r) : (a \o r)[Len(a)+i] = r[i]
      BY <3>0, JoinIs
    <3>2. Len(a) + Len(r) = m+n
      BY <2>1, <2>2
    <3> QED BY <3>1, <3>2, <2>1, <2>2
  <2> QED BY <2>1, <2>2, <2>3 DEF a
<1>0. m \in Nat /\ n \in Nat /\ k \in 1..n
  BY <1>1
<1> HIDE DEF r, w, v, m, n
<1>4. ASSUME NEW i \in (m+2)..(m+n)
      PROVE  v[i] = IF i <= m+k THEN w[i-1] ELSE w[i]
  <2>1. i-m-1 \in 1..(n-1) /\ m+1+(i-m-1) = i /\ i \in Nat
    BY <1>1
  <2>2. v[i] = r[i-m-1]
    BY <2>1, <1>3
  <2>3. CASE i <= m+k
    <3>1. i-m-1 \in 1..(k-1) /\ i-m-1 \in 1..n /\ m+(i-m-1) = i-1
      BY <2>3, <1>0
    <3>2. v[i] = q[i-m-1] /\ w[i-1] = q[i-m-1]
      BY <3>1, <2>2, <1>1, <1>2
    <3> QED BY <3>2, <2>3
  <2>4. CASE ~ (i <= m+k)
    <3>1. i-m-1 \in k..(n-1) /\ (i-m-1)+1 = i-m /\ i-m \in 1..n /\ m+(i-m) = i
      BY <2>4, <1>0
    <3>2. v[i] = q[i-m] /\ w[i] = q[i-m]
      BY <3>1, <2>2, <1>1, <1>2
    <3> QED BY <3>2, <2>4
  <2> QED BY <2>3, <2>4
<1>5. q[k].h = h => \A i \in (m+1)..(m+k-1) : w[i].h # h
  <2> SUFFICES ASSUME q[k].h = h, NEW i \in (m+1)..(m+k-1) PROVE w[i].h # h
    OBVIOUS
  <2>1. i-m < k /\ m+(i-m) = i /\ i-m \in 1..n
    BY <1>0
  <2>2. i-m \in DOMAIN q
    BY <2>1 DEF n
  <2> QED BY <2>1, <2>2, <1>2
<1>6. w[m+k] = q[k] /\ m+k \in DOMAIN w
  BY <1>0, <1>2
<1>7. ASSUME NEW i \in Mine(v, h)
      PROVE  f[i] \in Mine(w, h) /\ v[i] = w[f[i]] /\ i \in 1..(m+n)
  <2>1. i \in 1..(m+n) /\ v[i].h = h
    BY <1>3 DEF Mine
  <2>2. CASE i <= m
    BY <2>1, <2>2, <1>1, <1>2, <1>3 DEF Mine
  <2>3. CASE i = m+1
    BY <2>1, <2>3, <1>1, <1>3, <1>6 DEF Mine
  <2>4. CASE i > m+1
    <3>1. i \in (m+2)..(m+n)
      BY <2>1, <2>4, <1>1
    <3>2. i \in 1..(m+n) /\ i-1 \in 1..(m+n) /\ ~ (i <= m) /\ i # m+1
      BY <3>1, <1>1
    <3> QED BY <3>1, <3>2, <2>1, <1>2, <1>4 DEF Mine
  <2> QED BY <2>1, <2>2, <2>3, <2>4, <1>1
<1>8. ASSUME NEW i \in Mine(v, h), NEW j \in Mine(v, h), i < j
      PROVE  f[i] < f[j]
  <2>1. i \in 1..(m+n) /\ j \in 1..(m+n) /\ f[j] \in Mine(w, h) /\ v[i].h = h
    BY <1>7 DEF Mine
  <2>2. CASE i = m+1
    <3>1. q[k].h = h
      BY <2>1, <2>2, <1>3
    <3>2. w[f[j]].h = h /\ f[j] \in DOMAIN w
      BY <2>1 DEF Mine
    <3>3. f[j] \notin (m+1)..(m+k-1)
      BY <3>1, <3>2, <1>5
    <3>4. f[j] = IF j <= m+k THEN j-1 ELSE j
      BY <2>1, <2>2, <1>8, <1>1
    <3>5. f[i] = m+k
      BY <2>2, <1>1
    <3> HIDE DEF f
    <3> QED BY <2>1, <2>2, <3>3, <3>4, <3>5, <1>1, <1>8
  <2>3. CASE i # m+1
    BY <2>1, <2>3, <1>1, <1>8
  <2> QED BY <2>2, <2>3
<1>9. ASSUME NEW i \in Mine(w, h)
      PROVE  \E j \in Mine(v, h) : f[j] = i
  <2>1. i \in 1..(m+n) /\ w[i].h = h
    BY <1>2 DEF Mine
  <2>2. CASE i <= m
    <3>1. i \in 1..m /\ i \in 1..(m+n)
      BY <2>1, <2>2, <1>0
    <3>2. i \in Mine(v, h)
      BY <3>1, <2>1, <1>2, <1>3 DEF Mine
    <3> QED BY <3>2, <2>2
  <2>3. CASE i = m+k
    <3>1. m+1 \in Mine(v, h)
      BY <2>1, <2>3, <1>1, <1>3, <1>6 DEF Mine
    <3> QED BY <3>1, <1>1, <2>3
  <2>4. CASE i > m /\ i < m+k
    <3>1. i+1 \in (m+2)..(m+n) /\ (i+1)-1 = i /\ i+1 <= m+k /\ ~ (i+1 <= m) /\ i+1 # m+1
      BY <2>1, <2>4, <1>1
    <3>2. v[i+1] = w[i] /\ i+1 \in DOMAIN v
      BY <3>1, <1>1, <1>3, <1>4
    <3>3. i+1 \in Mine(v, h)
      BY <3>2, <2>1 DEF Mine
    <3> QED BY <3>1, <3>3
  <2>5. CASE i > m+k
    <3>1. i \in (m+2)..(m+n) /\ ~ (i <= m+k) /\ ~ (i <= m) /\ i # m+1
      BY <2>1, <2>5, <1>1
    <3>2. v[i] = w[i] /\ i \in DOMAIN v
      BY <3>1, <1>1, <1>3, <1>4
    <3>3. i \in Mine(v, h)
      BY <3>2, <2>1 DEF Mine
    <3> QED BY <3>1, <3>3
  <2> QED BY <2>1, <2>2, <2>3, <2>4, <2>5, <1>1
<1>10. f \in [Mine(v, h) -> Mine(w, h)]
  BY <1>7
<1> QED
  <2> HIDE DEF f
  <2> QED BY <1>7, <1>8, <1>9, <1>10 DEF SameOrder, v, w, r

(* clearForHandler() drops the jobs of g only.                             *)
LEMMA OrderOfWithout ==
  ASSUME NEW S, NEW e \in Seq(S), NEW q \in Seq(S), NEW g, NEW h, g # h
  PROVE  SameOrder(e \o q, e \o Without(q, g), h)
<1> DEFINE r == Without(q, g)
           kept == Kept(q, g)
           w == e \o q
           v == e \o r
           m == Len(e)
           n == Len(q)
<1>1. r \in Seq(S)
  BY WithoutKeeps
<1>w. Lists(r, q, kept)
  BY WithoutKeeps
<1>2. PICK p \in [DOMAIN r -> kept] :
         /\ \A i \in DOMAIN r : r[i] = q[p[i]]
         /\ \A i, j \in DOMAIN r : i < j => p[i] < p[j]
         /\ \A i \in kept : \E j \in DOMAIN r : p[j] = i
  BY <1>w DEF Lists
<1>3. /\ DOMAIN w = 1..(m+n) /\ DOMAIN q = 1..n
      /\ \A i \in 1..m : w[i] = e[i]
      /\ \A i \in 1..n : w[m+i] = q[i]
      /\ m \in Nat /\ n \in Nat
  OBVIOUS
<1>4. /\ DOMAIN v = 1..(m+Len(r)) /\ DOMAIN r = 1..Len(r)
      /\ \A i \in 1..m : v[i] = e[i]
      /\ \A i \in 1..Len(r) : v[m+i] = r[i]
      /\ Len(r) \in Nat
  <2> HIDE DEF r
  <2> QED BY <1>1
<1>5. kept \subseteq 1..n /\ \A i \in kept : q[i].h # g
  BY <1>3 DEF Kept
<1>6. \A i \in 1..n : q[i].h = h => i \in kept
  BY <1>3 DEF Kept
<1> DEFINE f == [i \in Mine(v, h) |-> IF i <= m THEN i ELSE m + p[i-m]]
<1> HIDE DEF r, w, v, m, n, kept
<1>7. ASSUME NEW i \in Mine(v, h)
      PROVE  /\ f[i] \in Mine(w, h) /\ v[i] = w[f[i]] /\ i \in Nat /\ f[i] \in Nat
             /\ i <= m => f[i] = i
             /\ i > m => i-m \in DOMAIN r /\ f[i] = m + p[i-m] /\ p[i-m] \in 1..n
  <2>1. i \in 1..(m+Len(r)) /\ v[i].h = h
    BY <1>4 DEF Mine
  <2>2. CASE i <= m
    BY <2>1, <2>2, <1>3, <1>4 DEF Mine
  <2>3. CASE i > m
    <3>1. i-m \in DOMAIN r /\ m+(i-m) = i /\ ~ (i <= m)
      BY <2>1, <2>3, <1>3, <1>4
    <3>2. p[i-m] \in 1..n /\ r[i-m] = q[p[i-m]] /\ v[i] = r[i-m]
      BY <3>1, <1>2, <1>4, <1>5
    <3>3. m+p[i-m] \in DOMAIN w /\ w[m+p[i-m]] = q[p[i-m]] /\ m+p[i-m] \in Nat
      BY <3>2, <1>3
    <3>4. f[i] = m + p[i-m] /\ i \in Nat
      BY <2>1, <3>1, <1>3
    <3>5. v[i] = w[m+p[i-m]]
      BY <3>2, <3>3
    <3>6. m+p[i-m] \in Mine(w, h)
      BY <3>3, <3>5, <2>1 DEF Mine
    <3> HIDE DEF f
    <3> QED BY <2>3, <3>1, <3>2, <3>3, <3>4, <3>5, <3>6
  <2> QED BY <2>1, <2>2, <2>3, <1>3
<1>8. ASSUME NEW i \in Mine(v, h), NEW j \in Mine(v, h), i < j
      PROVE  f[i] < f[j]
  <2> HIDE DEF f
  <2>1. CASE i > m
    <3>1. i-m \in DOMAIN r /\ j-m \in DOMAIN r /\ i-m < j-m
      BY <1>7, <1>8, <2>1, <1>3
    <3>2. p[i-m] < p[j-m]
      BY <3>1, <1>2
    <3>3. f[i] = m + p[i-m] /\ f[j] = m + p[j-m] /\ p[i-m] \in Nat /\ p[j-m] \in Nat /\ m \in Nat
      BY <1>7, <1>8, <2>1, <1>3
    <3> QED BY <3>2, <3>3
  <2>2. CASE i <= m
    BY <1>7, <1>8, <2>2, <1>3
  <2> QED BY <2>1, <2>2, <1>7, <1>3
<1>9. ASSUME NEW i \in Mine(w, h)
      PROVE  \E j \in Mine(v, h) : f[j] = i
  <2>1. i \in 1..(m+n) /\ w[i].h = h
    BY <1>3 DEF Mine
  <2>2. CASE i <= m
    <3>1. i \in Mine(v, h)
      BY <2>1, <2>2, <1>3, <1>4 DEF Mine
    <3> QED BY <3>1, <2>2
  <2>3. CASE i > m
    <3>1. i-m \in 1..n /\ m+(i-m) = i
      BY <2>1, <2>3, <1>3
    <3>2. q[i-m].h = h /\ w[i] = q[i-m]
      BY <3>1, <2>1, <1>3
    <3>3. PICK j \in DOMAIN r : p[j] = i-m
      BY <3>1, <3>2, <1>2, <1>6
    <3>4. m+j \in DOMAIN v /\ v[m+j] = r[j] /\ ~ (m+j <= m) /\ (m+j)-m = j
      BY <1>3, <1>4
    <3>5. m+j \in Mine(v, h)
      BY <3>2, <3>3, <3>4, <1>2 DEF Mine
    <3> QED BY <3>1, <3>3, <3>4, <3>5
  <2> QED BY <2>1, <2>2, <2>3, <1>3
<1>10. f \in [Mine(v, h) -> Mine(w, h)]
  BY <1>7
<1> QED
  <2> HIDE DEF f
  <2> QED BY <1>7, <1>8, <1>9, <1>10 DEF SameOrder, v, w, r
----------------------------------------------------------------------------
(* drain() takes at most one message out of the queue.                     *)

(* What the engine holds: messages and ROLLBACKs.                          *)
Job == Message \cup {RollbackOf(h) : h \in Handler}

(* No two messages are in the engine.                                      *)
OneAtATime(e) ==
    \A i, j \in DOMAIN e : IsMessage(e[i]) /\ IsMessage(e[j]) => i = j

(* The message x may be taken while tx and l say who is in a transaction.  *)
Taken(x, q, tx, l, e) ==
    /\ x \in Message
    /\ \E k \in DOMAIN q : x = q[k]
    /\ tx /\ l # Nobody => x.h = l
    /\ ~Processing(e)
    /\ engine' = Append(e, x)

(* What drain() does with q queued and e in the engine.                    *)
Moved(q, tx, l, e) ==
    /\ queue' \in Seq(Message)
    /\ \A i \in DOMAIN queue' : \E k \in DOMAIN q : queue'[i] = q[k]
    /\ engine' = e \/ \E x \in Message : Taken(x, q, tx, l, e)
    /\ \A h \in Handler : SameOrder(e \o q, engine' \o queue', h)

(* The order of numbers, as a set of pairs.                                *)
Before == {p \in Nat \X Nat : p[1] < p[2]}

LEMMA BeforeIsWellFounded == IsWellFoundedOn(Before, Nat)
  BY NatLessThanWellFounded DEF OpToRel, Before

(* A set of numbers has a least one.                                       *)
LEMMA LeastNumber ==
  ASSUME NEW T \in SUBSET Nat, T # {}
  PROVE  \E x \in T : \A y \in T : x <= y
<1>1. PICK x \in T : \A y \in T : ~(<<y, x>> \in Before)
  BY BeforeIsWellFounded, WFMin, Zenon
<1>2. ASSUME NEW y \in T PROVE x <= y
  <2>1. x \in Nat /\ y \in Nat
    OBVIOUS
  <2>2. ~(<<y, x>>[1] < <<y, x>>[2])
    BY <1>1, <2>1 DEF Before
  <2> QED BY <2>1, <2>2
<1> QED BY <1>2

LEMMA OrderStays ==
  ASSUME NEW w, NEW h
  PROVE  SameOrder(w, w, h)
<1> DEFINE f == [i \in Mine(w, h) |-> i]
<1>1. f \in [Mine(w, h) -> Mine(w, h)] /\ \A i \in Mine(w, h) : f[i] = i
  OBVIOUS
<1> HIDE DEF f
<1> QED BY <1>1 DEF SameOrder

LEMMA JobsAreJobs ==
  ASSUME NEW m \in Message
  PROVE  m \in Job /\ IsMessage(m) /\ m.h \in Handler /\ m.inside \in BOOLEAN
         /\ m.kind \in Kind
BY DEF Message, Job, IsMessage, Kind

LEMMA MessagesAreJobs ==
  ASSUME NEW q \in Seq(Message)
  PROVE  q \in Seq(Job) /\ \A i \in DOMAIN q : q[i] \in Message
<1>1. Len(q) \in Nat /\ DOMAIN q = 1..Len(q) /\ \A i \in 1..Len(q) : q[i] \in Message
  OBVIOUS
<1>2. \A i \in 1..Len(q) : q[i] \in Job
  BY <1>1 DEF Job
<1>3. q = [i \in 1..Len(q) |-> q[i]]
  OBVIOUS
<1> QED BY <1>1, <1>2, <1>3, IsASeq

LEMMA DrainDoes ==
  ASSUME NEW q \in Seq(Message), NEW tx, NEW l, NEW e \in Seq(Job), ~Processing(e),
         Drain(q, tx, l, e)
  PROVE  Moved(q, tx, l, e)
<1> DEFINE able == Eligible(q, tx, l)
           first == CHOOSE i \in able : \A j \in able : i <= j
<1>1. able \subseteq DOMAIN q /\ able \subseteq Nat /\ DOMAIN q = 1..Len(q) /\ Len(q) \in Nat
  BY DEF Eligible
<1>2. CASE able = {}
  <2>1. queue' = q /\ engine' = e
    BY <1>2 DEF Drain
  <2> QED BY <2>1, OrderStays DEF Moved
<1>3. CASE able # {}
  <2>1. queue' = RemoveAt(q, first) /\ engine' = Append(e, q[first])
    BY <1>3 DEF Drain
  <2>2. first \in able /\ \A j \in able : first <= j
    <3>1. \E i \in able : \A j \in able : i <= j
      <4> HIDE DEF able
      <4> QED BY <1>1, <1>3, LeastNumber
    <3> HIDE DEF able
    <3> QED BY <3>1
  <2> HIDE DEF first
  <2>3. first \in DOMAIN q /\ q[first] \in Message /\ first \in Nat
    BY <1>1, <2>2, MessagesAreJobs
  <2>4. tx /\ l # Nobody => q[first].h = l
    BY <2>2 DEF Eligible
  <2>5. \A j \in DOMAIN q : j < first => q[j].h # q[first].h
    <3> SUFFICES ASSUME NEW j \in DOMAIN q, j < first, q[j].h = q[first].h PROVE FALSE
      OBVIOUS
    <3>1. j \in able
      BY <2>2, <2>4 DEF Eligible
    <3>2. first <= j /\ j \in Nat
      BY <3>1, <2>2, <1>1
    <3> HIDE DEF able
    <3> QED BY <3>2, <2>3
  <2>6. /\ RemoveAt(q, first) \in Seq(Message)
        /\ \A i \in DOMAIN RemoveAt(q, first) : \E k \in DOMAIN q : RemoveAt(q, first)[i] = q[k]
    <3> DEFINE r == RemoveAt(q, first)
    <3>1. /\ r \in Seq(Message) /\ Len(r) = Len(q) - 1 /\ first \in 1..Len(q)
          /\ \A i \in 1..(first-1) : r[i] = q[i]
          /\ \A i \in first..(Len(q)-1) : r[i] = q[i+1]
      BY <2>3, RemoveAtIs
    <3> HIDE DEF r
    <3>2. ASSUME NEW i \in DOMAIN r PROVE \E k \in DOMAIN q : r[i] = q[k]
      <4>1. i \in 1..(Len(q)-1)
        BY <3>1
      <4>2. CASE i < first
        <5>1. r[i] = q[i] /\ i \in DOMAIN q
          BY <3>1, <4>1, <4>2, <1>1
        <5> QED BY <5>1
      <4>3. CASE ~ (i < first)
        <5>1. r[i] = q[i+1] /\ i+1 \in DOMAIN q
          BY <3>1, <4>1, <4>3, <1>1
        <5> QED BY <5>1
      <4> QED BY <4>2, <4>3
    <3> QED BY <3>1, <3>2 DEF r
  <2>7. \A h \in Handler : SameOrder(e \o q, Append(e, q[first]) \o RemoveAt(q, first), h)
    <3> SUFFICES ASSUME NEW h \in Handler
                 PROVE  SameOrder(e \o q, Append(e, q[first]) \o RemoveAt(q, first), h)
      OBVIOUS
    <3>1. q \in Seq(Job)
      BY MessagesAreJobs
    <3> HIDE DEF able
    <3> QED BY <3>1, <2>3, <2>5, OrderOfTake
  <2>8. Taken(q[first], q, tx, l, e)
    BY <2>1, <2>3, <2>4 DEF Taken
  <2> QED BY <2>1, <2>3, <2>6, <2>7, <2>8 DEF Moved
<1> QED BY <1>2, <1>3

LEMMA NothingMoved ==
  ASSUME NEW q \in Seq(Message), NEW tx, NEW l, NEW e, queue' = q, engine' = e
  PROVE  Moved(q, tx, l, e)
<1>1. \A h \in Handler : SameOrder(e \o q, engine' \o queue', h)
  BY OrderStays
<1> QED BY <1>1 DEF Moved

(* What comes out of it.                                                   *)
LEMMA MovedKeeps ==
  ASSUME NEW q \in Seq(Message), NEW tx, NEW l, NEW e \in Seq(Job), OneAtATime(e),
         Moved(q, tx, l, e)
  PROVE  /\ queue' \in Seq(Message) /\ engine' \in Seq(Job) /\ OneAtATime(engine')
         /\ \A i \in DOMAIN e : i \in DOMAIN engine' /\ engine'[i] = e[i]
         /\ \A i \in DOMAIN engine' :
               \/ i \in DOMAIN e
               \/ /\ engine'[i] \in Message
                  /\ \E k \in DOMAIN q : engine'[i] = q[k]
                  /\ tx /\ l # Nobody => engine'[i].h = l
                  /\ \A j \in DOMAIN engine' : j = i \/ j \in DOMAIN e
         /\ \A i \in DOMAIN e, j \in DOMAIN engine' : j < i => j \in DOMAIN e
<1>1. CASE engine' = e
  BY <1>1 DEF Moved
<1>2. CASE engine' # e
  <2>1. PICK x \in Message : Taken(x, q, tx, l, e)
    BY <1>2 DEF Moved
  <2>2. /\ engine' = Append(e, x) /\ x \in Job /\ IsMessage(x)
        /\ \A i \in DOMAIN e : ~IsMessage(e[i])
    BY <2>1, JobsAreJobs DEF Taken, Processing
  <2>3. /\ engine' \in Seq(Job) /\ DOMAIN engine' = 1..Len(e)+1 /\ engine'[Len(e)+1] = x
        /\ DOMAIN e = 1..Len(e) /\ \A i \in DOMAIN e : engine'[i] = e[i]
        /\ Len(e) \in Nat
    BY <2>2
  <2>4. \A i \in DOMAIN engine' : i \in DOMAIN e \/ i = Len(e)+1
    BY <2>3
  <2>5. OneAtATime(engine')
    BY <2>2, <2>3, <2>4 DEF OneAtATime
  <2>6. ASSUME NEW i \in DOMAIN engine', i \notin DOMAIN e
        PROVE  /\ engine'[i] \in Message
               /\ \E k \in DOMAIN q : engine'[i] = q[k]
               /\ tx /\ l # Nobody => engine'[i].h = l
               /\ \A j \in DOMAIN engine' : j = i \/ j \in DOMAIN e
    <3>1. i = Len(e)+1 /\ engine'[i] = x
      BY <2>3, <2>4, <2>6
    <3> QED BY <3>1, <2>1, <2>4 DEF Taken
  <2>7. queue' \in Seq(Message)
    BY DEF Moved
  <2>8. \A i \in DOMAIN e : i \in DOMAIN engine'
    BY <2>3
  <2>9. \A i \in DOMAIN e, j \in DOMAIN engine' : j < i => j \in DOMAIN e
    BY <2>3
  <2> QED BY <2>3, <2>5, <2>6, <2>7, <2>8, <2>9
<1> QED BY <1>1, <1>2
----------------------------------------------------------------------------
(* The invariant, one lemma per action.                                    *)

LEMMA JobsHaveHandlers ==
  ASSUME NEW e \in Seq(Job), NEW i \in DOMAIN e
  PROVE  e[i] \in Job /\ e[i].h \in Handler /\ (IsMessage(e[i]) => e[i] \in Message)
<1>1. e[i] \in Job
  OBVIOUS
<1> QED BY <1>1 DEF Job, Message, RollbackOf, IsMessage

(* What the types say in terms of jobs.                                    *)
LEMMA Basics ==
  ASSUME TypeOK
  PROVE  /\ engine \in Seq(Job) /\ OneAtATime(engine)
         /\ queue \in Seq(Message) /\ queue \in Seq(Job)
         /\ engine \o queue \in Seq(Job) /\ Places(engine \o queue)
<1>1. engine \in Seq(Job) /\ OneAtATime(engine) /\ queue \in Seq(Message)
  BY DEF TypeOK, Job, OneAtATime
<1>2. queue \in Seq(Job)
  BY <1>1, MessagesAreJobs
<1>3. engine \o queue \in Seq(Job)
  BY <1>1, <1>2
<1> QED BY <1>1, <1>2, <1>3 DEF Places

LEMMA SeqsHavePlaces ==
  ASSUME NEW S, NEW w \in Seq(S)
  PROVE  Places(w)
BY DEF Places

LEMMA SilentMoves ==
  ASSUME NEW w, NEW v, NEW h, SameOrder(w, v, h), Mine(w, h) = {}
  PROVE  Mine(v, h) = {}
BY DEF SameOrder

LEMMA JoinAppend ==
  ASSUME NEW S, NEW e \in Seq(S), NEW q \in Seq(S), NEW x \in S
  PROVE  e \o Append(q, x) = Append(e \o q, x)
OBVIOUS

LEMMA JoinTail ==
  ASSUME NEW S, NEW e \in Seq(S), NEW q \in Seq(S), e # <<>>
  PROVE  /\ Tail(e) \o q = Tail(e \o q) /\ e \o q # <<>> /\ Head(e \o q) = Head(e)
         /\ Tail(e) \in Seq(S) /\ Head(e) \in S
<1>1. /\ Len(e) \in Nat /\ Len(e) > 0 /\ Len(q) \in Nat
      /\ Tail(e) \in Seq(S) /\ Len(Tail(e)) = Len(e) - 1
      /\ e \o q \in Seq(S) /\ Len(e \o q) = Len(e) + Len(q)
      /\ Head(e) = e[1] /\ Head(e) \in S
      /\ \A i \in 1..Len(e)-1 : Tail(e)[i] = e[i+1]
  OBVIOUS
<1> DEFINE a == Tail(e) \o q
           b == Tail(e \o q)
<1>2. a \in Seq(S) /\ b \in Seq(S) /\ Len(a) = Len(e)-1+Len(q) /\ Len(b) = Len(e)-1+Len(q)
  BY <1>1
<1>3. \A i \in 1..(Len(e)-1+Len(q)) : a[i] = b[i]
  BY <1>1
<1>4. a = b
  <2> HIDE DEF a, b
  <2> QED BY <1>1, <1>2, <1>3, SeqEqual
<1>5. e \o q # <<>> /\ Head(e \o q) = e[1]
  BY <1>1
<1> QED BY <1>1, <1>4, <1>5

(* The client's chain grows by what it sends; a free engine may take it.   *)
LEMMA SendKeeps ==
  ASSUME QueueInv, WireQueueAssumption, NEW h \in Handler, NEW kind \in Kind, Send(h, kind)
  PROVE  QueueInv'
<1> DEFINE x == [h |-> h, kind |-> kind, inside |-> opened[h]]
           q == Append(queue, x)
<1>1. TypeOK /\ OwnerAlone /\ RollbacksAimed /\ SendersKnown /\ OrphansExplained
      /\ NewAreSilent /\ ClientsChained
  BY DEF QueueInv
<1>2. /\ conn[h] = "open" /\ (parsed[h] <=> kind = "bind")
      /\ UNCHANGED <<conn, inTx, slot, last, owner, evict, evictions, missed>>
      /\ sent' = [sent EXCEPT ![h] = @ + 1]
      /\ opened' = [opened EXCEPT ![h] = (@ \/ kind = "begin") /\ kind # "end"]
      /\ parsed' = [parsed EXCEPT ![h] = kind = "parse"]
      /\ Enqueue(x) /\ sent[h] < MaxSent
  BY DEF Send, sessionVars, evictVars
<1>3. x \in Message /\ q \in Seq(Message) /\ x.h = h /\ x.inside = opened[h] /\ x.kind = kind
  BY <1>1 DEF Message, TypeOK
<1>4. Moved(q, inTx, last, engine)
  <2>1. CASE Processing(engine)
    BY <2>1, <1>2, <1>3, NothingMoved DEF Enqueue
  <2>2. CASE ~Processing(engine)
    <3>1. Drain(q, inTx, last, engine)
      BY <2>2, <1>2 DEF Enqueue
    <3> HIDE DEF q
    <3> QED BY <2>2, <3>1, <1>1, <1>3, Basics, DrainDoes
  <2> QED BY <2>1, <2>2
<1>5. \A k \in DOMAIN q : q[k] = x \/ (k \in DOMAIN queue /\ q[k] = queue[k])
  BY <1>1 DEF TypeOK
<1> HIDE DEF x, q
<1>6. /\ queue' \in Seq(Message) /\ engine' \in Seq(Job) /\ OneAtATime(engine')
      /\ \A i \in DOMAIN engine : i \in DOMAIN engine' /\ engine'[i] = engine[i]
      /\ \A i \in DOMAIN engine' :
            \/ i \in DOMAIN engine
            \/ /\ engine'[i] \in Message
               /\ \E k \in DOMAIN q : engine'[i] = q[k]
               /\ inTx /\ last # Nobody => engine'[i].h = last
      /\ \A i \in DOMAIN engine, j \in DOMAIN engine' : j < i => j \in DOMAIN engine
      /\ \A i \in DOMAIN queue' : \E k \in DOMAIN q : queue'[i] = q[k]
  <2>1. engine \in Seq(Job) /\ OneAtATime(engine)
    BY <1>1, Basics
  <2>2. \A i \in DOMAIN queue' : \E k \in DOMAIN q : queue'[i] = q[k]
    BY <1>4 DEF Moved
  <2> QED BY <2>1, <2>2, <1>3, <1>4, MovedKeeps
<1>7. \A i \in DOMAIN engine' : engine'[i] \in Message => IsMessage(engine'[i])
  BY JobsAreJobs
<1>a. TypeOK'
  <2>1. sent' \in [Handler -> 0..MaxSent] /\ opened' \in [Handler -> BOOLEAN]
        /\ parsed' \in [Handler -> BOOLEAN]
    BY <1>1, <1>2, WireQueueAssumption DEF TypeOK, WireQueueAssumption
  <2> QED BY <2>1, <1>1, <1>2, <1>6 DEF TypeOK, OneAtATime, Job
<1>b. OwnerAlone'
  BY <1>1, <1>2, <1>6 DEF OwnerAlone, TypeOK
<1>c. RollbacksAimed'
  <2> SUFFICES ASSUME NEW i \in DOMAIN engine', ~IsMessage(engine'[i])
               PROVE  /\ conn'[engine'[i].h] \notin {"new", "open"}
                      /\ \A j \in DOMAIN engine' : j < i =>
                            engine'[j].h = engine'[i].h \/ ~IsMessage(engine'[j])
    BY DEF RollbacksAimed, IsMessage
  <2>1. i \in DOMAIN engine /\ engine'[i] = engine[i]
    BY <1>6, <1>7
  <2> QED BY <2>1, <1>1, <1>2, <1>6 DEF RollbacksAimed
<1>d. SendersKnown'
  <2>1. \A k \in DOMAIN q : Attached(q[k].h)
    BY <1>1, <1>2, <1>3, <1>5 DEF SendersKnown, Attached
  <2>2. \A i \in DOMAIN queue' : Attached(queue'[i].h)
    BY <2>1, <1>6
  <2>3. \A i \in DOMAIN engine' : engine'[i].kind = "begin" =>
           Attached(engine'[i].h) \/ engine'[i].h \in missed
    BY <2>1, <1>1, <1>6 DEF SendersKnown
  <2> QED BY <2>2, <2>3, <1>2 DEF SendersKnown, Attached
<1>e. OrphansExplained'
  <2>1. Attended => Attended'
    BY <1>2, <1>6 DEF Attended, Attached, RollbackOf
  <2> QED BY <2>1, <1>1, <1>2 DEF OrphansExplained
<1>8. /\ engine \o q = Append(engine \o queue, x)
      /\ engine \o queue \in Seq(Job) /\ x \in Job
      /\ Places(engine \o q) /\ Places(engine' \o queue')
      /\ \A g \in Handler : SameOrder(engine \o q, engine' \o queue', g)
  <2>1. engine \o q = Append(engine \o queue, x) /\ x \in Job
    BY <1>1, <1>3, Basics, JoinAppend, JobsAreJobs DEF q
  <2>2. engine' \o queue' \in Seq(Job)
    BY <1>a, Basics, <1>6, MessagesAreJobs
  <2>3. Append(engine \o queue, x) \in Seq(Job) /\ engine \o queue \in Seq(Job)
    BY <1>1, <2>1, Basics
  <2> QED BY <2>1, <2>2, <2>3, <1>4, SeqsHavePlaces DEF Moved
<1>9. \A g \in Handler : g # h => SameOrder(engine \o queue, engine \o q, g)
  BY <1>8, <1>3, OrderOfAppend
<1>f. NewAreSilent'
  <2> SUFFICES ASSUME NEW g \in Handler, conn'[g] = "new"
               PROVE  /\ Mine(engine' \o queue', g) = {}
                      /\ owner' # g /\ ~opened'[g] /\ ~parsed'[g]
    BY DEF NewAreSilent, Mine
  <2>1. g # h /\ conn[g] = "new"
    BY <1>2
  <2>2. Mine(engine \o queue, g) = {} /\ owner # g /\ ~opened[g] /\ ~parsed[g]
    BY <2>1, <1>1 DEF NewAreSilent
  <2>3. Mine(engine \o q, g) = {}
    BY <2>1, <2>2, <1>9, SilentMoves
  <2>4. Mine(engine' \o queue', g) = {}
    BY <2>3, <1>8, SilentMoves
  <2> QED BY <2>1, <2>2, <2>4, <1>1, <1>2 DEF TypeOK
<1>g. ClientsChained'
  <2> SUFFICES ASSUME NEW g \in Handler, conn'[g] = "open"
               PROVE  Chained(g, engine' \o queue', inTx' /\ owner' = g, slot' = g,
                              opened'[g], parsed'[g])
    BY DEF ClientsChained, Chained, Mine, Follows, Opens
  <2>1. Chained(g, engine \o queue, inTx /\ owner = g, slot = g, opened[g], parsed[g])
    BY <1>1, <1>2 DEF ClientsChained
  <2>2. Chained(g, engine \o q, inTx /\ owner = g, slot = g, opened'[g], parsed'[g])
    <3>1. CASE g # h
      <4>1. opened'[g] = opened[g] /\ parsed'[g] = parsed[g]
        BY <3>1, <1>1, <1>2 DEF TypeOK
      <4> QED BY <4>1, <3>1, <2>1, <1>1, <1>8, <1>9, ChainMoves, Basics
    <3>2. CASE g = h
      <4>1. opened'[h] = Opens(x) /\ parsed'[h] = (x.kind = "parse")
        BY <1>1, <1>2, <1>3 DEF TypeOK, Opens
      <4>2. x.inside = opened[h] /\ (x.kind = "bind") = parsed[h]
        BY <1>1, <1>2, <1>3 DEF TypeOK
      <4>3. Chained(h, engine \o queue, inTx /\ owner = h, slot = h, x.inside, x.kind = "bind")
        BY <3>2, <2>1, <4>2
      <4>4. engine \o queue \in Seq(Job) /\ x \in Job /\ x.h = h
        BY <1>3, <1>8
      <4>5. Chained(h, Append(engine \o queue, x), inTx /\ owner = h, slot = h,
                    Opens(x), x.kind = "parse")
        BY <4>3, <4>4, ChainGrows
      <4> QED BY <4>1, <4>5, <3>2, <1>8
    <3> QED BY <3>1, <3>2
  <2>3. Chained(g, engine' \o queue', inTx /\ owner = g, slot = g, opened'[g], parsed'[g])
    BY <2>2, <1>8, ChainMoves
  <2> QED BY <2>3, <1>2
<1> QED BY <1>a, <1>b, <1>c, <1>d, <1>e, <1>f, <1>g DEF QueueInv

LEMMA TailKeeps ==
  ASSUME TypeOK, engine # <<>>
  PROVE  LET e == Tail(engine)
         IN  /\ e \in Seq(Job) /\ OneAtATime(e)
             /\ 1 \in DOMAIN engine /\ Head(engine) = engine[1] /\ Head(engine) \in Job
             /\ IsMessage(Head(engine)) => Head(engine) \in Message /\ ~Processing(e)
             /\ \A i \in DOMAIN e :
                     /\ i \in Nat /\ i+1 \in DOMAIN engine
                     /\ i+1 # 1 /\ 1 < i+1 /\ e[i] = engine[i+1]
             /\ \A i \in DOMAIN engine : i = 1 \/ (i-1 \in DOMAIN e /\ e[i-1] = engine[i])
             /\ e \o queue = Tail(engine \o queue)
             /\ engine \o queue # <<>> /\ Head(engine \o queue) = Head(engine)
             /\ engine \o queue \in Seq(Job) /\ Places(engine \o queue) /\ Places(e \o queue)
<1> DEFINE e == Tail(engine)
<1>1. engine \in Seq(Job) /\ OneAtATime(engine) /\ queue \in Seq(Job)
      /\ engine \o queue \in Seq(Job) /\ Places(engine \o queue)
  BY Basics
<1>2. /\ e \in Seq(Job) /\ DOMAIN e = 1..Len(engine)-1 /\ DOMAIN engine = 1..Len(engine)
      /\ Len(engine) \in Nat /\ Len(engine) > 0 /\ Head(engine) = engine[1]
      /\ \A i \in DOMAIN e : e[i] = engine[i+1]
  BY <1>1
<1>3. /\ e \o queue = Tail(engine \o queue) /\ engine \o queue # <<>>
      /\ Head(engine \o queue) = Head(engine) /\ Head(engine) \in Job
  BY <1>1, JoinTail
<1>4. Places(e \o queue)
  <2>1. e \in Seq(Job) /\ queue \in Seq(Job)
    BY <1>1, <1>2
  <2> HIDE DEF e
  <2>2. e \o queue \in Seq(Job)
    BY <2>1
  <2> QED BY <2>2, SeqsHavePlaces
<1> HIDE DEF e
<1>5. /\ \A i \in DOMAIN e :
              /\ i \in Nat /\ i+1 \in DOMAIN engine
              /\ i+1 # 1 /\ 1 < i+1 /\ e[i] = engine[i+1]
      /\ 1 \in DOMAIN engine
  BY <1>2
<1>6. ASSUME NEW i \in DOMAIN engine, i # 1
      PROVE  i-1 \in DOMAIN e /\ e[i-1] = engine[i]
  <2>1. i-1 \in 1..Len(engine)-1 /\ (i-1)+1 = i
    BY <1>2, <1>6
  <2> QED BY <2>1, <1>2
<1>7. OneAtATime(e)
  <2> SUFFICES ASSUME NEW i \in DOMAIN e, NEW j \in DOMAIN e, IsMessage(e[i]), IsMessage(e[j])
               PROVE  i = j
    BY DEF OneAtATime
  <2>1. i+1 = j+1 /\ i \in Nat /\ j \in Nat
    BY <1>1, <1>5 DEF OneAtATime
  <2> QED BY <2>1
<1>8. IsMessage(Head(engine)) => Head(engine) \in Message /\ ~Processing(e)
  <2>1. IsMessage(engine[1]) => \A i \in DOMAIN e : ~IsMessage(e[i])
    BY <1>1, <1>5 DEF OneAtATime
  <2> QED BY <2>1, <1>1, <1>2, <1>5, JobsHaveHandlers DEF Processing
<1> QED BY <1>1, <1>2, <1>3, <1>4, <1>5, <1>6, <1>7, <1>8 DEF e

(* The first job of a chain runs, and the session goes on as it says.      *)
LEMMA SucceedKeeps ==
  ASSUME QueueInv, WireQueueAssumption, Execute, Succeed
  PROVE  QueueInv'
<1> DEFINE m == Head(engine)
           e == Tail(engine)
           w == engine \o queue
<1>1. TypeOK /\ OwnerAlone /\ RollbacksAimed /\ SendersKnown /\ OrphansExplained
      /\ NewAreSilent /\ ClientsChained
  BY DEF QueueInv
<1>2. /\ engine # <<>> /\ IsMessage(m)
      /\ UNCHANGED <<conn, sent, opened, parsed, evict, evictions, missed>>
      /\ inTx' = ((inTx \/ m.kind = "begin") /\ m.kind # "end")
      /\ slot' = SlotAfter(m)
      /\ owner' = (IF ~inTx' THEN Nobody ELSE IF inTx THEN owner ELSE m.h)
      /\ last' = m.h
      /\ Drain(queue, inTx', last', e)
  BY DEF Execute, Succeed, clientVars, evictVars
<1>3. /\ e \in Seq(Job) /\ OneAtATime(e)
      /\ 1 \in DOMAIN engine /\ m = engine[1] /\ m \in Message /\ ~Processing(e)
      /\ \A i \in DOMAIN e :
              /\ i \in Nat /\ i+1 \in DOMAIN engine
              /\ i+1 # 1 /\ 1 < i+1 /\ e[i] = engine[i+1]
      /\ \A i \in DOMAIN engine : i = 1 \/ (i-1 \in DOMAIN e /\ e[i-1] = engine[i])
      /\ e \o queue = Tail(w) /\ w # <<>> /\ Head(w) = m
      /\ w \in Seq(Job) /\ Places(w) /\ Places(e \o queue)
  BY <1>1, <1>2, TailKeeps
<1>4. m.h \in Handler /\ m.inside \in BOOLEAN /\ m.kind \in Kind /\ m.h # Nobody
  BY <1>3, JobsAreJobs, WireQueueAssumption DEF WireQueueAssumption
<1> HIDE DEF e, m, w
<1>5. Moved(queue, inTx', last', e)
  BY <1>1, <1>2, <1>3, Basics, DrainDoes
<1>6. /\ queue' \in Seq(Message) /\ engine' \in Seq(Job) /\ OneAtATime(engine')
      /\ \A i \in DOMAIN e : i \in DOMAIN engine' /\ engine'[i] = e[i]
      /\ \A i \in DOMAIN engine' :
            \/ i \in DOMAIN e
            \/ /\ engine'[i] \in Message
               /\ \E k \in DOMAIN queue : engine'[i] = queue[k]
               /\ inTx' /\ last' # Nobody => engine'[i].h = last'
      /\ \A i \in DOMAIN e, j \in DOMAIN engine' : j < i => j \in DOMAIN e
  BY <1>1, <1>3, <1>5, Basics, MovedKeeps
<1>7. \A i \in DOMAIN queue' : \E k \in DOMAIN queue : queue'[i] = queue[k]
  BY <1>5 DEF Moved
<1>8. \A i \in DOMAIN engine' : engine'[i] \in Message => IsMessage(engine'[i])
  BY JobsAreJobs
<1>9. \A i \in DOMAIN e : ~IsMessage(e[i]) /\ e[i].h = m.h /\ conn[e[i].h] \notin {"new", "open"}
  BY <1>1, <1>2, <1>3 DEF RollbacksAimed, Processing
<1>10. (inTx => owner = m.h) /\ (inTx' => owner' = m.h)
  BY <1>1, <1>2, <1>3 DEF OwnerAlone
<1>a. TypeOK'
  <2>1. inTx' \in BOOLEAN /\ (inTx' <=> owner' # Nobody) /\ owner' \in Handler \cup {Nobody}
    BY <1>1, <1>2, <1>4 DEF TypeOK
  <2>2. slot' \in Handler \cup {Nobody} /\ last' \in Handler \cup {Nobody}
    BY <1>1, <1>2, <1>4 DEF TypeOK, SlotAfter
  <2> QED BY <2>1, <2>2, <1>1, <1>2, <1>6 DEF TypeOK, OneAtATime, Job
<1>b. OwnerAlone'
  <2> SUFFICES ASSUME inTx' PROVE last' = owner' /\ \A i \in DOMAIN engine' : engine'[i].h = owner'
    BY DEF OwnerAlone
  <2> QED BY <1>2, <1>4, <1>6, <1>9, <1>10
<1>c. RollbacksAimed'
  <2> SUFFICES ASSUME NEW i \in DOMAIN engine', ~IsMessage(engine'[i])
               PROVE  /\ conn'[engine'[i].h] \notin {"new", "open"}
                      /\ \A j \in DOMAIN engine' : j < i =>
                            engine'[j].h = engine'[i].h \/ ~IsMessage(engine'[j])
    BY DEF RollbacksAimed, IsMessage
  <2>1. i \in DOMAIN e /\ engine'[i] = e[i]
    BY <1>6, <1>8
  <2> QED BY <2>1, <1>2, <1>6, <1>9
<1>d. SendersKnown'
  <2>1. \A i \in DOMAIN queue' : Attached(queue'[i].h)
    BY <1>1, <1>7 DEF SendersKnown
  <2>2. \A i \in DOMAIN engine' : engine'[i].kind = "begin" =>
           Attached(engine'[i].h) \/ engine'[i].h \in missed
    <3>1. \A i \in DOMAIN e : e[i].kind # "begin"
      BY <1>9 DEF IsMessage
    <3> QED BY <3>1, <1>1, <1>6 DEF SendersKnown
  <2> QED BY <2>1, <2>2, <1>2 DEF SendersKnown, Attached
<1>e. OrphansExplained'
  <2> SUFFICES ASSUME inTx', ~Attended' PROVE owner' \in missed'
    BY DEF OrphansExplained
  <2>1. owner' = m.h /\ ~Attached(m.h)
    BY <1>2, <1>10 DEF Attended, Attached
  <2>2. CASE inTx
    <3>1. ~Attended
      <4> SUFFICES ASSUME NEW i \in DOMAIN engine, engine[i] = RollbackOf(owner) PROVE FALSE
        BY <2>1, <2>2, <1>10 DEF Attended
      <4>1. i # 1
        BY <1>2, <1>3 DEF RollbackOf, IsMessage
      <4>2. i-1 \in DOMAIN engine' /\ engine'[i-1] = RollbackOf(owner')
        BY <4>1, <1>3, <1>6, <1>10, <2>2
      <4> QED BY <4>2 DEF Attended, RollbackOf
    <3> QED BY <3>1, <2>2, <1>1, <1>2, <1>10 DEF OrphansExplained
  <2>3. CASE ~inTx
    <3>1. m.kind = "begin"
      BY <2>3, <1>2
    <3> QED BY <3>1, <2>1, <1>1, <1>2, <1>3 DEF SendersKnown
  <2> QED BY <2>2, <2>3
<1>11. /\ \A g \in Handler : SameOrder(e \o queue, engine' \o queue', g)
       /\ \A g \in Handler : g # m.h => SameOrder(w, e \o queue, g)
       /\ Places(engine' \o queue')
  <2>1. \A g \in Handler : g # m.h => SameOrder(w, e \o queue, g)
    BY <1>3, OrderOfTail
  <2>2. engine' \in Seq(Job) /\ queue' \in Seq(Job)
    BY <1>6, MessagesAreJobs
  <2>3. engine' \o queue' \in Seq(Job)
    BY <2>2
  <2>4. Places(engine' \o queue')
    BY <2>3, SeqsHavePlaces
  <2> QED BY <2>1, <2>4, <1>5 DEF Moved
<1>f. NewAreSilent'
  <2> SUFFICES ASSUME NEW g \in Handler, conn'[g] = "new"
               PROVE  /\ Mine(engine' \o queue', g) = {}
                      /\ owner' # g /\ ~opened'[g] /\ ~parsed'[g]
    BY DEF NewAreSilent, Mine
  <2>1. Mine(w, g) = {} /\ owner # g /\ ~opened[g] /\ ~parsed[g]
    BY <1>1, <1>2 DEF NewAreSilent, w
  <2>2. g # m.h
    <3>1. 1 \in DOMAIN w /\ w[1] = m
      BY <1>3
    <3> QED BY <3>1, <2>1 DEF Mine
  <2>3. Mine(engine' \o queue', g) = {}
    BY <2>1, <2>2, <1>11, SilentMoves
  <2>4. owner' # g
    BY <2>2, <2>1, <1>2, <1>4, WireQueueAssumption DEF WireQueueAssumption
  <2> QED BY <2>1, <2>3, <2>4, <1>2
<1>g. ClientsChained'
  <2> SUFFICES ASSUME NEW g \in Handler, conn'[g] = "open"
               PROVE  Chained(g, engine' \o queue', inTx' /\ owner' = g, slot' = g,
                              opened'[g], parsed'[g])
    BY DEF ClientsChained, Chained, Mine, Follows, Opens
  <2>1. Chained(g, w, inTx /\ owner = g, slot = g, opened[g], parsed[g])
    BY <1>1, <1>2 DEF ClientsChained, w
  <2>2. Chained(g, e \o queue, inTx' /\ owner' = g, slot' = g, opened[g], parsed[g])
    <3>1. CASE g # m.h
      <4>1. ~ (inTx /\ owner = g) /\ ~ (inTx' /\ owner' = g)
        BY <3>1, <1>10
      <4>2. Chained(g, e \o queue, inTx /\ owner = g, slot = g, opened[g], parsed[g])
        BY <3>1, <2>1, <1>3, <1>11, ChainMoves
      <4> HIDE DEF Chained
      <4> QED BY <4>1, <4>2, ChainOutside
    <3>2. CASE g = m.h
      <4>1. Chained(m.h, w, inTx /\ owner = m.h, slot = m.h, opened[m.h], parsed[m.h])
        BY <3>2, <2>1
      <4>2. m.kind = "parse" => slot' = m.h
        BY <1>2 DEF SlotAfter
      <4>3. Head(w).h = m.h /\ (Head(w).kind = "parse" => slot' = m.h)
        BY <4>2, <1>3
      <4>4. Chained(m.h, Tail(w), Opens(m), slot' = m.h, opened[m.h], parsed[m.h])
        BY <4>1, <4>3, <1>3, ChainAdvances
      <4>5. 1 \in Mine(w, m.h) /\ w[1] = m /\ \A k \in Mine(w, m.h) : 1 <= k
        BY <1>3 DEF Mine
      <4>6. m.inside <=> inTx
        BY <4>1, <4>5, <1>10 DEF Chained
      <4>7. Opens(m) = (inTx' /\ owner' = m.h)
        BY <4>6, <1>2, <1>10 DEF Opens
      <4> QED BY <4>4, <4>7, <3>2, <1>3
    <3> QED BY <3>1, <3>2
  <2>3. Chained(g, engine' \o queue', inTx' /\ owner' = g, slot' = g, opened[g], parsed[g])
    BY <2>2, <1>3, <1>11, ChainMoves
  <2> QED BY <2>3, <1>2
<1> QED BY <1>a, <1>b, <1>c, <1>d, <1>e, <1>f, <1>g DEF QueueInv

(* A message fails, and its connection with it: the chain is nobody's now. *)
LEMMA FailKeeps ==
  ASSUME QueueInv, WireQueueAssumption, Execute, Fail
  PROVE  QueueInv'
<1> DEFINE m == Head(engine)
           e == Tail(engine)
           w == engine \o queue
<1>1. TypeOK /\ OwnerAlone /\ RollbacksAimed /\ SendersKnown /\ OrphansExplained
      /\ NewAreSilent /\ ClientsChained
  BY DEF QueueInv
<1>2. /\ engine # <<>> /\ IsMessage(m)
      /\ UNCHANGED <<inTx, slot, last, owner, sent, opened, parsed, evict, evictions, missed>>
      /\ conn' = [conn EXCEPT ![m.h] = IF Attached(m.h) THEN "ending" ELSE @]
      /\ Drain(queue, inTx, last, e)
  BY DEF Execute, Fail, clientVars, sessionVars, evictVars
<1>3. /\ e \in Seq(Job) /\ OneAtATime(e)
      /\ 1 \in DOMAIN engine /\ m = engine[1] /\ m \in Message /\ ~Processing(e)
      /\ \A i \in DOMAIN e :
              /\ i \in Nat /\ i+1 \in DOMAIN engine
              /\ i+1 # 1 /\ 1 < i+1 /\ e[i] = engine[i+1]
      /\ \A i \in DOMAIN engine : i = 1 \/ (i-1 \in DOMAIN e /\ e[i-1] = engine[i])
      /\ e \o queue = Tail(w) /\ w # <<>> /\ Head(w) = m
      /\ w \in Seq(Job) /\ Places(w) /\ Places(e \o queue)
  BY <1>1, <1>2, TailKeeps
<1>4. m.h \in Handler /\ m.inside \in BOOLEAN /\ m.kind \in Kind /\ m.h # Nobody
  BY <1>3, JobsAreJobs, WireQueueAssumption DEF WireQueueAssumption
<1> HIDE DEF e, m, w
<1>5. Moved(queue, inTx, last, e)
  BY <1>1, <1>2, <1>3, Basics, DrainDoes
<1>6. /\ queue' \in Seq(Message) /\ engine' \in Seq(Job) /\ OneAtATime(engine')
      /\ \A i \in DOMAIN e : i \in DOMAIN engine' /\ engine'[i] = e[i]
      /\ \A i \in DOMAIN engine' :
            \/ i \in DOMAIN e
            \/ /\ engine'[i] \in Message
               /\ \E k \in DOMAIN queue : engine'[i] = queue[k]
               /\ inTx /\ last # Nobody => engine'[i].h = last
      /\ \A i \in DOMAIN e, j \in DOMAIN engine' : j < i => j \in DOMAIN e
  BY <1>1, <1>3, <1>5, Basics, MovedKeeps
<1>7. \A i \in DOMAIN queue' : \E k \in DOMAIN queue : queue'[i] = queue[k]
  BY <1>5 DEF Moved
<1>8. \A i \in DOMAIN engine' : engine'[i] \in Message => IsMessage(engine'[i])
  BY JobsAreJobs
<1>9. \A i \in DOMAIN e : ~IsMessage(e[i]) /\ e[i].h = m.h /\ conn[e[i].h] \notin {"new", "open"}
  BY <1>1, <1>2, <1>3 DEF RollbacksAimed, Processing
<1>10. /\ inTx => owner = m.h
       /\ conn' \in [Handler -> {"new", "open", "terminating", "ending", "gone", "cut"}]
       /\ \A g \in Handler : (Attached(g) <=> Attached(g)')
                            /\ (conn'[g] \in {"new", "open"} => conn[g] = conn'[g])
                            /\ (g = m.h => conn'[g] # "open")
  <2>1. inTx => owner = m.h
    BY <1>1, <1>3 DEF OwnerAlone
  <2>2. conn \in [Handler -> {"new", "open", "terminating", "ending", "gone", "cut"}]
    BY <1>1 DEF TypeOK
  <2>3. conn' \in [Handler -> {"new", "open", "terminating", "ending", "gone", "cut"}]
    BY <2>2, <1>2, <1>4
  <2>4. \A g \in Handler : conn'[g] = IF g = m.h /\ Attached(g) THEN "ending" ELSE conn[g]
    BY <2>2, <1>2, <1>4
  <2> QED BY <2>1, <2>3, <2>4 DEF Attached
<1>a. TypeOK'
  BY <1>1, <1>2, <1>6, <1>10 DEF TypeOK, OneAtATime, Job
<1>b. OwnerAlone'
  <2> SUFFICES ASSUME inTx' PROVE last' = owner' /\ \A i \in DOMAIN engine' : engine'[i].h = owner'
    BY DEF OwnerAlone
  <2> QED BY <1>1, <1>2, <1>4, <1>6, <1>9, <1>10 DEF OwnerAlone, TypeOK
<1>c. RollbacksAimed'
  <2> SUFFICES ASSUME NEW i \in DOMAIN engine', ~IsMessage(engine'[i])
               PROVE  /\ conn'[engine'[i].h] \notin {"new", "open"}
                      /\ \A j \in DOMAIN engine' : j < i =>
                            engine'[j].h = engine'[i].h \/ ~IsMessage(engine'[j])
    BY DEF RollbacksAimed, IsMessage
  <2>1. i \in DOMAIN e /\ engine'[i] = e[i]
    BY <1>6, <1>8
  <2>2. e[i].h \in Handler
    BY <2>1, <1>3, JobsHaveHandlers
  <2> QED BY <2>1, <2>2, <1>6, <1>9, <1>10
<1>d. SendersKnown'
  <2>1. \A i \in DOMAIN queue' : Attached(queue'[i].h) /\ queue'[i].h \in Handler
    BY <1>1, <1>7, Basics, JobsHaveHandlers DEF SendersKnown
  <2>2. \A i \in DOMAIN engine' : engine'[i].kind = "begin" =>
           engine'[i].h \in Handler /\ (Attached(engine'[i].h) \/ engine'[i].h \in missed)
    <3>1. \A i \in DOMAIN e : e[i].kind # "begin"
      BY <1>9 DEF IsMessage
    <3> QED BY <3>1, <1>1, <1>6, JobsHaveHandlers DEF SendersKnown
  <2> QED BY <2>1, <2>2, <1>2, <1>10 DEF SendersKnown, Attached
<1>e. OrphansExplained'
  <2> SUFFICES ASSUME inTx', ~Attended' PROVE owner' \in missed'
    BY DEF OrphansExplained
  <2>1. owner' = owner /\ owner \in Handler /\ inTx /\ ~Attached(owner)
    BY <1>1, <1>2, <1>10 DEF Attended, Attached, TypeOK
  <2>2. ~Attended
    <3> SUFFICES ASSUME NEW i \in DOMAIN engine, engine[i] = RollbackOf(owner) PROVE FALSE
      BY <2>1 DEF Attended
    <3>1. i # 1
      BY <1>2, <1>3 DEF RollbackOf, IsMessage
    <3>2. i-1 \in DOMAIN engine' /\ engine'[i-1] = RollbackOf(owner')
      BY <3>1, <2>1, <1>3, <1>6
    <3> QED BY <3>2 DEF Attended, RollbackOf
  <2> QED BY <2>1, <2>2, <1>1, <1>2 DEF OrphansExplained
<1>11. /\ \A g \in Handler : SameOrder(e \o queue, engine' \o queue', g)
       /\ \A g \in Handler : g # m.h => SameOrder(w, e \o queue, g)
       /\ Places(engine' \o queue')
  <2>1. \A g \in Handler : g # m.h => SameOrder(w, e \o queue, g)
    BY <1>3, OrderOfTail
  <2>2. engine' \in Seq(Job) /\ queue' \in Seq(Job)
    BY <1>6, MessagesAreJobs
  <2>3. engine' \o queue' \in Seq(Job)
    BY <2>2
  <2>4. Places(engine' \o queue')
    BY <2>3, SeqsHavePlaces
  <2> QED BY <2>1, <2>4, <1>5 DEF Moved
<1>f. NewAreSilent'
  <2> SUFFICES ASSUME NEW g \in Handler, conn'[g] = "new"
               PROVE  /\ Mine(engine' \o queue', g) = {}
                      /\ owner' # g /\ ~opened'[g] /\ ~parsed'[g]
    BY DEF NewAreSilent, Mine
  <2>1. Mine(w, g) = {} /\ owner # g /\ ~opened[g] /\ ~parsed[g]
    BY <1>1, <1>2, <1>10 DEF NewAreSilent, w
  <2>2. g # m.h
    <3>1. 1 \in DOMAIN w /\ w[1] = m
      BY <1>3
    <3> QED BY <3>1, <2>1 DEF Mine
  <2>3. Mine(engine' \o queue', g) = {}
    BY <2>1, <2>2, <1>11, SilentMoves
  <2> QED BY <2>1, <2>3, <1>2
<1>g. ClientsChained'
  <2> SUFFICES ASSUME NEW g \in Handler, conn'[g] = "open"
               PROVE  Chained(g, engine' \o queue', inTx' /\ owner' = g, slot' = g,
                              opened'[g], parsed'[g])
    BY DEF ClientsChained, Chained, Mine, Follows, Opens
  <2>1. g # m.h /\ conn[g] = "open"
    BY <1>10
  <2>2. Chained(g, w, inTx /\ owner = g, slot = g, opened[g], parsed[g])
    BY <2>1, <1>1 DEF ClientsChained, w
  <2>3. Chained(g, e \o queue, inTx /\ owner = g, slot = g, opened[g], parsed[g])
    BY <2>1, <2>2, <1>3, <1>11, ChainMoves
  <2>4. Chained(g, engine' \o queue', inTx /\ owner = g, slot = g, opened[g], parsed[g])
    BY <2>3, <1>3, <1>11, ChainMoves
  <2> QED BY <2>4, <1>2
<1> QED BY <1>a, <1>b, <1>c, <1>d, <1>e, <1>f, <1>g DEF QueueInv

(* The transaction that a ROLLBACK ends is of no open connection.          *)
LEMMA RollbackKeeps ==
  ASSUME QueueInv, WireQueueAssumption, Rollback
  PROVE  QueueInv'
<1> DEFINE m == Head(engine)
           e == Tail(engine)
           w == engine \o queue
<1>1. TypeOK /\ OwnerAlone /\ RollbacksAimed /\ SendersKnown /\ OrphansExplained
      /\ NewAreSilent /\ ClientsChained
  BY DEF QueueInv
<1>2. /\ engine # <<>> /\ ~IsMessage(m)
      /\ UNCHANGED <<sent, opened, parsed, evict, evictions, missed>>
      /\ inTx' = FALSE /\ slot' = Nobody /\ owner' = Nobody /\ last' = Nobody
      /\ conn' = [conn EXCEPT ![m.h] = IF @ = "terminating" THEN "ending" ELSE @]
      /\ AfterRollback(queue, e)
  BY DEF Rollback, clientVars, evictVars
<1>3. /\ e \in Seq(Job) /\ OneAtATime(e)
      /\ 1 \in DOMAIN engine /\ m = engine[1] /\ m \in Job
      /\ \A i \in DOMAIN e :
              /\ i \in Nat /\ i+1 \in DOMAIN engine
              /\ i+1 # 1 /\ 1 < i+1 /\ e[i] = engine[i+1]
      /\ e \o queue = Tail(w) /\ w # <<>> /\ Head(w) = m
      /\ w \in Seq(Job) /\ Places(w) /\ Places(e \o queue)
  BY <1>1, <1>2, TailKeeps
<1>4. m.h \in Handler /\ conn[m.h] \notin {"new", "open"} /\ (inTx => owner = m.h)
  <2>1. m.h \in Handler
    BY <1>3 DEF Job, Message, RollbackOf
  <2> HIDE DEF m
  <2> QED BY <2>1, <1>1, <1>2, <1>3 DEF RollbacksAimed, OwnerAlone
<1> HIDE DEF e, m, w
<1>5. Moved(queue, FALSE, Nobody, e)
  <2>1. CASE Processing(e)
    BY <2>1, <1>1, <1>2, Basics, NothingMoved DEF AfterRollback
  <2>2. CASE ~Processing(e)
    BY <2>2, <1>1, <1>2, <1>3, Basics, DrainDoes DEF AfterRollback
  <2> QED BY <2>1, <2>2
<1>6. /\ queue' \in Seq(Message) /\ engine' \in Seq(Job) /\ OneAtATime(engine')
      /\ \A i \in DOMAIN e : i \in DOMAIN engine' /\ engine'[i] = e[i]
      /\ \A i \in DOMAIN engine' :
            \/ i \in DOMAIN e
            \/ engine'[i] \in Message /\ \E k \in DOMAIN queue : engine'[i] = queue[k]
      /\ \A i \in DOMAIN e, j \in DOMAIN engine' : j < i => j \in DOMAIN e
  <2>1. queue \in Seq(Message)
    BY <1>1, Basics
  <2>2. e \in Seq(Job) /\ OneAtATime(e)
    BY <1>3
  <2>3. /\ queue' \in Seq(Message) /\ engine' \in Seq(Job) /\ OneAtATime(engine')
        /\ \A i \in DOMAIN e : i \in DOMAIN engine' /\ engine'[i] = e[i]
        /\ \A i \in DOMAIN engine' :
               \/ i \in DOMAIN e
               \/ /\ engine'[i] \in Message
                  /\ \E k \in DOMAIN queue : engine'[i] = queue[k]
                  /\ FALSE /\ Nobody # Nobody => engine'[i].h = Nobody
                  /\ \A j \in DOMAIN engine' : j = i \/ j \in DOMAIN e
        /\ \A i \in DOMAIN e, j \in DOMAIN engine' : j < i => j \in DOMAIN e
    BY <2>1, <2>2, <1>5, MovedKeeps
  <2> QED BY <2>3
<1>7. \A i \in DOMAIN queue' : \E k \in DOMAIN queue : queue'[i] = queue[k]
  BY <1>5 DEF Moved
<1>8. \A i \in DOMAIN engine' : engine'[i] \in Message => IsMessage(engine'[i])
  BY JobsAreJobs
<1>9. /\ conn' \in [Handler -> {"new", "open", "terminating", "ending", "gone", "cut"}]
      /\ \A g \in Handler : /\ Attached(g) <=> Attached(g)'
                            /\ conn'[g] \in {"new", "open"} => conn[g] = conn'[g] /\ g # m.h
  <2>1. conn \in [Handler -> {"new", "open", "terminating", "ending", "gone", "cut"}]
    BY <1>1 DEF TypeOK
  <2>2. conn' \in [Handler -> {"new", "open", "terminating", "ending", "gone", "cut"}]
    BY <2>1, <1>2, <1>4
  <2>3. \A g \in Handler : conn'[g] = IF g = m.h /\ conn[g] = "terminating" THEN "ending"
                                      ELSE conn[g]
    BY <2>1, <1>2, <1>4
  <2> QED BY <2>2, <2>3, <1>4 DEF Attached
<1>a. TypeOK'
  BY <1>1, <1>2, <1>6, <1>9 DEF TypeOK, OneAtATime, Job
<1>b. OwnerAlone'
  BY <1>2 DEF OwnerAlone
<1>c. RollbacksAimed'
  <2> SUFFICES ASSUME NEW i \in DOMAIN engine', ~IsMessage(engine'[i])
               PROVE  /\ conn'[engine'[i].h] \notin {"new", "open"}
                      /\ \A j \in DOMAIN engine' : j < i =>
                            engine'[j].h = engine'[i].h \/ ~IsMessage(engine'[j])
    BY DEF RollbacksAimed, IsMessage
  <2>1. i \in DOMAIN e /\ engine'[i] = e[i]
    BY <1>6, <1>8
  <2>2. e[i].h \in Handler /\ e[i] = engine[i+1] /\ i+1 \in DOMAIN engine /\ i \in Nat
    BY <2>1, <1>3, JobsHaveHandlers
  <2>3. conn'[e[i].h] \notin {"new", "open"}
    BY <2>1, <2>2, <1>1, <1>9 DEF RollbacksAimed
  <2>4. ASSUME NEW j \in DOMAIN engine', j < i
        PROVE  engine'[j].h = engine'[i].h \/ ~IsMessage(engine'[j])
    <3>1. j \in DOMAIN e /\ engine'[j] = e[j] /\ j \in Nat /\ j+1 < i+1
      BY <2>1, <2>2, <2>4, <1>3, <1>6
    <3>2. engine[j+1].h = engine[i+1].h \/ ~IsMessage(engine[j+1])
      BY <3>1, <2>1, <2>2, <1>1, <1>3 DEF RollbacksAimed
    <3> QED BY <3>1, <3>2, <2>1, <2>2, <1>3
  <2> QED BY <2>1, <2>3, <2>4
<1>d. SendersKnown'
  <2>1. \A i \in DOMAIN queue' : Attached(queue'[i].h) /\ queue'[i].h \in Handler
    BY <1>1, <1>7, Basics, JobsHaveHandlers DEF SendersKnown
  <2>2. \A i \in DOMAIN engine' : engine'[i].kind = "begin" =>
           engine'[i].h \in Handler /\ (Attached(engine'[i].h) \/ engine'[i].h \in missed)
    <3>1. \A i \in DOMAIN e : e[i].kind = "begin" => Attached(e[i].h) \/ e[i].h \in missed
      BY <1>1, <1>3 DEF SendersKnown
    <3>2. \A i \in DOMAIN engine' : engine'[i].h \in Handler
      BY <1>6, JobsHaveHandlers
    <3> QED BY <3>1, <3>2, <1>1, <1>6 DEF SendersKnown
  <2> QED BY <2>1, <2>2, <1>2, <1>9 DEF SendersKnown, Attached
<1>e. OrphansExplained'
  BY <1>2 DEF OrphansExplained
<1>10. /\ \A g \in Handler : SameOrder(e \o queue, engine' \o queue', g)
       /\ \A g \in Handler : g # m.h => SameOrder(w, e \o queue, g)
       /\ Places(engine' \o queue')
  <2>1. \A g \in Handler : g # m.h => SameOrder(w, e \o queue, g)
    BY <1>3, OrderOfTail
  <2>2. engine' \in Seq(Job) /\ queue' \in Seq(Job)
    BY <1>6, MessagesAreJobs
  <2>3. engine' \o queue' \in Seq(Job)
    BY <2>2
  <2>4. Places(engine' \o queue')
    BY <2>3, SeqsHavePlaces
  <2> QED BY <2>1, <2>4, <1>5 DEF Moved
<1>f. NewAreSilent'
  <2> SUFFICES ASSUME NEW g \in Handler, conn'[g] = "new"
               PROVE  /\ Mine(engine' \o queue', g) = {}
                      /\ owner' # g /\ ~opened'[g] /\ ~parsed'[g]
    BY DEF NewAreSilent, Mine
  <2>1. Mine(w, g) = {} /\ ~opened[g] /\ ~parsed[g] /\ g # m.h
    BY <1>1, <1>9 DEF NewAreSilent, w
  <2>2. Mine(engine' \o queue', g) = {}
    BY <2>1, <1>10, SilentMoves
  <2>3. owner' # g
    BY <1>2, WireQueueAssumption DEF WireQueueAssumption
  <2> QED BY <2>1, <2>2, <2>3, <1>2
<1>g. ClientsChained'
  <2> SUFFICES ASSUME NEW g \in Handler, conn'[g] = "open"
               PROVE  Chained(g, engine' \o queue', inTx' /\ owner' = g, slot' = g,
                              opened'[g], parsed'[g])
    BY DEF ClientsChained, Chained, Mine, Follows, Opens
  <2>1. g # m.h /\ conn[g] = "open"
    BY <1>9
  <2>2. Chained(g, w, inTx /\ owner = g, slot = g, opened[g], parsed[g])
    BY <2>1, <1>1 DEF ClientsChained, w
  <2>3. Chained(g, e \o queue, inTx /\ owner = g, slot = g, opened[g], parsed[g])
    BY <2>1, <2>2, <1>3, <1>10, ChainMoves
  <2>4. Chained(g, engine' \o queue', inTx /\ owner = g, slot = g, opened[g], parsed[g])
    BY <2>3, <1>3, <1>10, ChainMoves
  <2>5. ~ (inTx /\ owner = g) /\ ~ (inTx' /\ owner' = g)
    BY <2>1, <1>2, <1>4
  <2>6. Chained(g, engine' \o queue', inTx' /\ owner' = g, slot' = g, opened[g], parsed[g])
    BY <2>4, <2>5, ChainOutside
  <2> QED BY <2>6, <1>2
<1> QED BY <1>a, <1>b, <1>c, <1>d, <1>e, <1>f, <1>g DEF QueueInv

LEMMA AttachKeeps ==
  ASSUME QueueInv, NEW h \in Handler, Attach(h)
  PROVE  QueueInv'
<1>1. TypeOK /\ OwnerAlone /\ RollbacksAimed /\ SendersKnown /\ OrphansExplained
      /\ NewAreSilent /\ ClientsChained
  BY DEF QueueInv
<1>2. /\ conn[h] = "new" /\ conn' = [conn EXCEPT ![h] = "open"]
      /\ UNCHANGED <<sent, opened, parsed, queue, engine, inTx, slot, last,
                     owner, evict, evictions, missed>>
  BY DEF Attach, clientVars, sessionVars, evictVars
<1>3. /\ conn' \in [Handler -> {"new", "open", "terminating", "ending", "gone", "cut"}]
      /\ \A g \in Handler : conn'[g] = IF g = h THEN "open" ELSE conn[g]
  BY <1>1, <1>2 DEF TypeOK
<1>4. Mine(engine \o queue, h) = {} /\ owner # h /\ ~opened[h] /\ ~parsed[h]
  BY <1>1, <1>2 DEF NewAreSilent
<1>5. /\ \A i \in DOMAIN engine : engine[i].h \in Handler
      /\ \A i \in DOMAIN queue : queue[i].h \in Handler
  BY <1>1, Basics, JobsHaveHandlers
<1>a. TypeOK'
  BY <1>1, <1>2, <1>3 DEF TypeOK
<1>b. OwnerAlone'
  BY <1>1, <1>2 DEF OwnerAlone
<1>c. RollbacksAimed'
  <2> SUFFICES ASSUME NEW i \in DOMAIN engine, ~IsMessage(engine[i])
               PROVE  /\ conn'[engine[i].h] \notin {"new", "open"}
                      /\ \A j \in DOMAIN engine : j < i =>
                            engine[j].h = engine[i].h \/ ~IsMessage(engine[j])
    BY <1>2 DEF RollbacksAimed, IsMessage
  <2> QED BY <1>1, <1>2, <1>3, <1>5 DEF RollbacksAimed
<1>d. SendersKnown'
  BY <1>1, <1>2, <1>3, <1>5 DEF SendersKnown, Attached
<1>e. OrphansExplained'
  <2>1. Attended => Attended'
    <3>1. owner \in Handler =>
            (Attached(owner) => conn'[owner] \in {"open", "terminating", "ending"})
      BY <1>3 DEF Attached
    <3>2. inTx => owner \in Handler
      BY <1>1 DEF TypeOK
    <3> QED BY <3>1, <3>2, <1>2 DEF Attended, Attached, RollbackOf
  <2> QED BY <2>1, <1>1, <1>2 DEF OrphansExplained
<1>f. NewAreSilent'
  BY <1>1, <1>2, <1>3 DEF NewAreSilent, Mine
<1>g. ClientsChained'
  <2> SUFFICES ASSUME NEW g \in Handler, conn'[g] = "open"
               PROVE  Chained(g, engine \o queue, inTx /\ owner = g, slot = g, opened[g], parsed[g])
    <3>1. /\ engine' = engine /\ queue' = queue /\ inTx' = inTx /\ owner' = owner
          /\ slot' = slot /\ opened' = opened /\ parsed' = parsed
      BY <1>2
    <3> QED BY <3>1 DEF ClientsChained
  <2>1. CASE g = h
    <3>1. Chained(h, engine \o queue, inTx /\ owner = h, slot = h, opened[h], parsed[h])
      BY <1>4 DEF Chained
    <3> QED BY <3>1, <2>1
  <2>2. CASE g # h
    BY <2>2, <1>1, <1>3 DEF ClientsChained
  <2> QED BY <2>1, <2>2
<1> QED BY <1>a, <1>b, <1>c, <1>d, <1>e, <1>f, <1>g DEF QueueInv

(* What Terminate and a closed socket have in common.                      *)
LEMMA DepartureKeeps ==
  ASSUME QueueInv, NEW h \in Handler, Attached(h),
         NEW c \in {"terminating", "ending", "gone"},
         conn' = [conn EXCEPT ![h] = c],
         engine' = IF Owns(h) THEN Append(engine, RollbackOf(h)) ELSE engine,
         queue' \in Seq(Message),
         \A i \in DOMAIN queue' : \E k \in DOMAIN queue : queue'[i] = queue[k],
         \A g \in Handler : g # h => SameOrder(engine \o queue, engine \o queue', g),
         missed \subseteq missed', missed' \subseteq Handler,
         c = "gone" => /\ Beginning(h) => h \in missed'
                       /\ \A i \in DOMAIN queue' : queue'[i].h # h,
         UNCHANGED <<clientVars, sessionVars, evictVars>>
  PROVE  QueueInv'
<1> DEFINE r == RollbackOf(h)
<1>1. TypeOK /\ OwnerAlone /\ RollbacksAimed /\ SendersKnown /\ OrphansExplained
      /\ NewAreSilent /\ ClientsChained
  BY DEF QueueInv
<1>2. UNCHANGED <<sent, opened, parsed, inTx, slot, last, owner, evict, evictions>>
  BY DEF clientVars, sessionVars, evictVars
<1>3. /\ engine \in Seq(Job) /\ OneAtATime(engine) /\ queue \in Seq(Message) /\ queue \in Seq(Job)
      /\ engine \o queue \in Seq(Job) /\ Places(engine \o queue)
      /\ \A i \in DOMAIN engine : engine[i].h \in Handler
      /\ queue' \in Seq(Job)
      /\ \A i \in DOMAIN queue' : queue'[i].h \in Handler
  BY <1>1, Basics, JobsHaveHandlers, MessagesAreJobs
<1>4. r \in Job /\ r.h = h /\ r.kind = "rollback" /\ ~IsMessage(r)
  BY DEF Job, RollbackOf, IsMessage
<1>5. /\ conn' \in [Handler -> {"new", "open", "terminating", "ending", "gone", "cut"}]
      /\ \A g \in Handler : conn'[g] = IF g = h THEN c ELSE conn[g]
  BY <1>1 DEF TypeOK
<1>6. /\ engine' \in Seq(Job)
      /\ \A i \in DOMAIN engine : i \in DOMAIN engine' /\ engine'[i] = engine[i]
      /\ \A i \in DOMAIN engine' : i \in DOMAIN engine \/ (Owns(h) /\ engine'[i] = r)
      /\ \A i \in DOMAIN engine, j \in DOMAIN engine' : j < i => j \in DOMAIN engine
      /\ Owns(h) => \E i \in DOMAIN engine' : engine'[i] = r
  <2>1. CASE Owns(h)
    <3>1. engine' = Append(engine, r)
      BY <2>1
    <3> HIDE DEF r
    <3>2. /\ engine' \in Seq(Job) /\ DOMAIN engine' = 1..Len(engine)+1 /\ engine'[Len(engine)+1] = r
          /\ DOMAIN engine = 1..Len(engine) /\ \A i \in DOMAIN engine : engine'[i] = engine[i]
          /\ Len(engine) \in Nat
      BY <3>1, <1>3, <1>4
    <3> QED BY <3>2, <2>1
  <2>2. CASE ~Owns(h)
    BY <2>2, <1>3
  <2> QED BY <2>1, <2>2
<1>7. Owns(h) => inTx /\ owner = h /\ \A i \in DOMAIN engine : engine[i].h = h
  BY <1>1 DEF Owns, OwnerAlone
<1> HIDE DEF r
<1>a. TypeOK'
  <2>1. OneAtATime(engine')
    BY <1>3, <1>4, <1>6 DEF OneAtATime
  <2> QED BY <2>1, <1>1, <1>2, <1>5, <1>6 DEF TypeOK, OneAtATime, Job
<1>b. OwnerAlone'
  BY <1>1, <1>2, <1>4, <1>6, <1>7 DEF OwnerAlone
<1>c. RollbacksAimed'
  <2> SUFFICES ASSUME NEW i \in DOMAIN engine', ~IsMessage(engine'[i])
               PROVE  /\ conn'[engine'[i].h] \notin {"new", "open"}
                      /\ \A j \in DOMAIN engine' : j < i =>
                            engine'[j].h = engine'[i].h \/ ~IsMessage(engine'[j])
    BY DEF RollbacksAimed, IsMessage
  <2>1. CASE i \in DOMAIN engine
    BY <2>1, <1>1, <1>3, <1>5, <1>6 DEF RollbacksAimed
  <2>2. CASE i \notin DOMAIN engine
    BY <2>2, <1>4, <1>5, <1>6, <1>7
  <2> QED BY <2>1, <2>2
<1>d. SendersKnown'
  <2>1. ASSUME NEW i \in DOMAIN queue'
        PROVE  conn'[queue'[i].h] \in {"open", "terminating", "ending"}
    <3>1. PICK k \in DOMAIN queue : queue'[i] = queue[k]
      OBVIOUS
    <3>2. conn[queue'[i].h] \in {"open", "terminating", "ending"}
      BY <3>1, <1>1 DEF SendersKnown, Attached
    <3>3. queue'[i].h = h => c # "gone"
      OBVIOUS
    <3> QED BY <3>2, <3>3, <1>3, <1>5
  <2>2. ASSUME NEW i \in DOMAIN engine', engine'[i].kind = "begin"
        PROVE  conn'[engine'[i].h] \in {"open", "terminating", "ending"} \/ engine'[i].h \in missed'
    <3>1. i \in DOMAIN engine /\ engine'[i] = engine[i]
      BY <2>2, <1>4, <1>6
    <3>2. conn[engine[i].h] \in {"open", "terminating", "ending"} \/ engine[i].h \in missed
      BY <3>1, <2>2, <1>1 DEF SendersKnown, Attached
    <3>3. engine[i].h = h => Beginning(h)
      BY <3>1, <2>2 DEF Beginning
    <3>4. engine[i].h \in Handler
      BY <3>1, <1>3
    <3>5. CASE engine[i].h = h
      BY <3>1, <3>3, <3>5, <1>5
    <3>6. CASE engine[i].h # h
      BY <3>1, <3>2, <3>4, <3>6, <1>5
    <3> QED BY <3>5, <3>6
  <2> QED BY <2>1, <2>2 DEF SendersKnown, Attached
<1>e. OrphansExplained'
  <2> SUFFICES ASSUME inTx', ~Attended' PROVE owner' \in missed'
    BY DEF OrphansExplained
  <2>1. inTx /\ owner' = owner /\ owner \in Handler /\ last = owner
    BY <1>1, <1>2 DEF TypeOK, OwnerAlone
  <2>2. owner # h
    BY <2>1, <1>6 DEF Owns, Attended, r, RollbackOf
  <2>3. ~Attended
    BY <2>1, <2>2, <1>5, <1>6 DEF Attended, Attached, RollbackOf
  <2> QED BY <2>1, <2>3, <1>1 DEF OrphansExplained
<1>8. /\ Places(engine \o queue') /\ Places(engine' \o queue')
      /\ \A g \in Handler : g # h => SameOrder(engine \o queue', engine' \o queue', g)
  <2>1. engine \o queue' \in Seq(Job) /\ engine' \o queue' \in Seq(Job)
    BY <1>3, <1>6
  <2>2. ASSUME NEW g \in Handler, g # h
        PROVE  SameOrder(engine \o queue', engine' \o queue', g)
    <3>1. CASE Owns(h)
      BY <3>1, <2>2, <1>3, <1>4, OrderOfJoin DEF r
    <3>2. CASE ~Owns(h)
      BY <3>2, OrderStays
    <3> QED BY <3>1, <3>2
  <2> QED BY <2>1, <2>2, SeqsHavePlaces
<1>f. NewAreSilent'
  <2> SUFFICES ASSUME NEW g \in Handler, conn'[g] = "new"
               PROVE  /\ Mine(engine' \o queue', g) = {}
                      /\ owner' # g /\ ~opened'[g] /\ ~parsed'[g]
    BY DEF NewAreSilent, Mine
  <2>1. g # h /\ conn[g] = "new"
    BY <1>5
  <2>2. Mine(engine \o queue, g) = {} /\ owner # g /\ ~opened[g] /\ ~parsed[g]
    BY <2>1, <1>1 DEF NewAreSilent
  <2>3. Mine(engine' \o queue', g) = {}
    BY <2>1, <2>2, <1>8, SilentMoves
  <2> QED BY <2>2, <2>3, <1>2
<1>g. ClientsChained'
  <2> SUFFICES ASSUME NEW g \in Handler, conn'[g] = "open"
               PROVE  Chained(g, engine' \o queue', inTx' /\ owner' = g, slot' = g,
                              opened'[g], parsed'[g])
    BY DEF ClientsChained, Chained, Mine, Follows, Opens
  <2>1. g # h /\ conn[g] = "open"
    BY <1>5
  <2>2. Chained(g, engine \o queue, inTx /\ owner = g, slot = g, opened[g], parsed[g])
    BY <2>1, <1>1 DEF ClientsChained
  <2>3. Chained(g, engine \o queue', inTx /\ owner = g, slot = g, opened[g], parsed[g])
    BY <2>1, <2>2, <1>3, <1>8, ChainMoves
  <2>4. Chained(g, engine' \o queue', inTx /\ owner = g, slot = g, opened[g], parsed[g])
    BY <2>1, <2>3, <1>8, ChainMoves
  <2> QED BY <2>4, <1>2
<1> QED BY <1>a, <1>b, <1>c, <1>d, <1>e, <1>f, <1>g DEF QueueInv

LEMMA TerminateKeeps ==
  ASSUME QueueInv, NEW h \in Handler, Terminate(h)
  PROVE  QueueInv'
<1> DEFINE c == IF Owns(h) THEN "terminating" ELSE "ending"
<1>1. /\ Attached(h) /\ c \in {"terminating", "ending", "gone"} /\ c # "gone"
      /\ conn' = [conn EXCEPT ![h] = c]
      /\ engine' = IF Owns(h) THEN Append(engine, RollbackOf(h)) ELSE engine
      /\ UNCHANGED <<clientVars, queue, sessionVars, evictVars, missed>>
  BY DEF Terminate, Attached
<1>2. queue' \in Seq(Message) /\ missed \subseteq missed' /\ missed' \subseteq Handler
  BY <1>1 DEF QueueInv, TypeOK
<1>3. \A g \in Handler : g # h => SameOrder(engine \o queue, engine \o queue', g)
  BY <1>1, OrderStays
<1>4. \A i \in DOMAIN queue' : \E k \in DOMAIN queue : queue'[i] = queue[k]
  BY <1>1
<1>5. UNCHANGED <<clientVars, sessionVars, evictVars>>
  BY <1>1
<1> HIDE DEF c
<1> QED BY <1>1, <1>2, <1>3, <1>4, <1>5, DepartureKeeps

LEMMA DetachKeeps ==
  ASSUME QueueInv, NEW h \in Handler, Detach(h)
  PROVE  QueueInv'
<1>1. /\ Attached(h) /\ conn' = [conn EXCEPT ![h] = "gone"]
      /\ engine' = IF Owns(h) THEN Append(engine, RollbackOf(h)) ELSE engine
      /\ queue' = Without(queue, h)
      /\ missed' = IF Beginning(h) THEN missed \cup {h} ELSE missed
      /\ UNCHANGED <<clientVars, sessionVars, evictVars>>
  BY DEF Detach
<1>2. /\ engine \in Seq(Job) /\ queue \in Seq(Message) /\ queue \in Seq(Job)
      /\ missed \subseteq Handler
  BY Basics DEF QueueInv, TypeOK
<1>3. missed \subseteq missed' /\ missed' \subseteq Handler /\ (Beginning(h) => h \in missed')
  BY <1>1, <1>2
<1>4. queue' \in Seq(Message) /\ Lists(queue', queue, Kept(queue, h))
  BY <1>1, <1>2, WithoutKeeps
<1>5. /\ \A i \in DOMAIN queue' : \E k \in DOMAIN queue : queue'[i] = queue[k]
      /\ \A i \in DOMAIN queue' : queue'[i].h # h
  BY <1>4 DEF Lists, Kept
<1>6. \A g \in Handler : g # h => SameOrder(engine \o queue, engine \o queue', g)
  BY <1>1, <1>2, OrderOfWithout
<1> QED BY <1>1, <1>3, <1>4, <1>5, <1>6, DepartureKeeps

(* The queue is emptied, and with it every connection cut.                 *)
LEMMA EvictStartKeeps ==
  ASSUME QueueInv, EvictStart
  PROVE  QueueInv'
<1>1. TypeOK /\ OwnerAlone /\ RollbacksAimed /\ SendersKnown /\ OrphansExplained
      /\ NewAreSilent /\ ClientsChained
  BY DEF QueueInv
<1>2. /\ evictions < MaxEvictions /\ evictions' = evictions + 1 /\ evict' = "drain"
      /\ queue' = <<>>
      /\ conn' = [h \in Handler |-> IF Attached(h) THEN "cut" ELSE conn[h]]
      /\ missed' = missed \cup {h \in Handler : Attached(h)}
      /\ UNCHANGED <<sent, opened, parsed, engine, inTx, slot, last, owner>>
  BY DEF EvictStart, clientVars, sessionVars
<1>3. /\ engine \in Seq(Job) /\ queue \in Seq(Job)
      /\ \A i \in DOMAIN engine : engine[i].h \in Handler
  BY <1>1, Basics, JobsHaveHandlers
<1>4. \A h \in Handler : conn'[h] \notin {"open", "terminating", "ending"}
                         /\ (conn'[h] = "new" => conn[h] = "new")
  BY <1>1, <1>2 DEF Attached, TypeOK
<1>a. TypeOK'
  <2>1. evictions' \in 0..MaxEvictions
    BY <1>1, <1>2, WireQueueAssumption DEF TypeOK, WireQueueAssumption
  <2>2. conn' \in [Handler -> {"new", "open", "terminating", "ending", "gone", "cut"}]
    BY <1>1, <1>2 DEF TypeOK
  <2>3. queue' \in Seq(Message)
    BY <1>2
  <2> QED BY <2>1, <2>2, <2>3, <1>1, <1>2 DEF TypeOK
<1>b. OwnerAlone'
  BY <1>1, <1>2 DEF OwnerAlone
<1>c. RollbacksAimed'
  <2> SUFFICES ASSUME NEW i \in DOMAIN engine, ~IsMessage(engine[i])
               PROVE  /\ conn'[engine[i].h] \notin {"new", "open"}
                      /\ \A j \in DOMAIN engine : j < i =>
                            engine[j].h = engine[i].h \/ ~IsMessage(engine[j])
    BY <1>2 DEF RollbacksAimed, IsMessage
  <2> QED BY <1>1, <1>3, <1>4 DEF RollbacksAimed
<1>d. SendersKnown'
  <2>1. DOMAIN queue' = {}
    BY <1>2
  <2> QED BY <2>1, <1>1, <1>2, <1>3 DEF SendersKnown, Attached
<1>e. OrphansExplained'
  <2> SUFFICES ASSUME inTx', ~Attended' PROVE owner' \in missed'
    BY DEF OrphansExplained
  <2>1. inTx /\ owner' = owner /\ owner \in Handler
    BY <1>1, <1>2 DEF TypeOK
  <2>2. CASE Attached(owner)
    BY <2>1, <2>2, <1>2
  <2>3. CASE ~Attached(owner)
    <3>1. ~Attended
      BY <2>1, <2>3, <1>2 DEF Attended, RollbackOf
    <3> QED BY <3>1, <2>1, <1>1, <1>2 DEF OrphansExplained
  <2> QED BY <2>2, <2>3
<1>f. NewAreSilent'
  <2> SUFFICES ASSUME NEW g \in Handler, conn'[g] = "new"
               PROVE  /\ Mine(engine \o <<>>, g) = {}
                      /\ owner # g /\ ~opened[g] /\ ~parsed[g]
    BY <1>2 DEF NewAreSilent, Mine
  <2>1. Mine(engine \o queue, g) = {} /\ owner # g /\ ~opened[g] /\ ~parsed[g]
    BY <1>1, <1>4 DEF NewAreSilent
  <2>2. engine \o <<>> = engine
    BY <1>3
  <2>3. ASSUME NEW i \in DOMAIN engine PROVE engine[i].h # g
    <3>1. i \in DOMAIN (engine \o queue) /\ (engine \o queue)[i] = engine[i]
      BY <1>3
    <3> QED BY <3>1, <2>1 DEF Mine
  <2> QED BY <2>1, <2>2, <2>3 DEF Mine
<1>g. ClientsChained'
  <2>1. \A g \in Handler : conn'[g] # "open"
    BY <1>4
  <2> QED BY <2>1 DEF ClientsChained
<1> QED BY <1>a, <1>b, <1>c, <1>d, <1>e, <1>f, <1>g DEF QueueInv

(* Nothing but the progress of an eviction changes.                        *)
LEMMA EvictKeeps ==
  ASSUME QueueInv, evict' \in {"no", "drain", "flush", "done"},
         UNCHANGED <<conn, clientVars, queue, engine, sessionVars, evictions, missed>>
  PROVE  QueueInv'
<1> USE DEF clientVars, sessionVars
<1>1. TypeOK'
  BY DEF QueueInv, TypeOK
<1>2. OwnerAlone' /\ RollbacksAimed' /\ SendersKnown'
  BY DEF QueueInv, OwnerAlone, RollbacksAimed, SendersKnown, Attached, IsMessage
<1>3. OrphansExplained'
  BY DEF QueueInv, OrphansExplained, Attended, Attached, RollbackOf
<1>4. NewAreSilent' /\ ClientsChained'
  BY DEF QueueInv, NewAreSilent, ClientsChained, Chained, Mine, Follows, Opens
<1> QED BY <1>1, <1>2, <1>3, <1>4 DEF QueueInv

LEMMA QueueStarts ==
  ASSUME Init, WireQueueAssumption
  PROVE  QueueInv
<1>1. /\ conn = [h \in Handler |-> "new"] /\ queue = <<>> /\ engine = <<>>
      /\ opened = [h \in Handler |-> FALSE] /\ parsed = [h \in Handler |-> FALSE]
      /\ inTx = FALSE /\ owner = Nobody
  BY DEF Init
<1>2. DOMAIN queue = {} /\ DOMAIN engine = {} /\ engine \o queue = <<>>
  BY <1>1
<1>3. TypeOK
  <2>1. queue \in Seq(Message) /\ engine \in Seq(Message \cup {RollbackOf(h) : h \in Handler})
    BY <1>1
  <2>2. sent \in [Handler -> 0..MaxSent] /\ evictions \in 0..MaxEvictions
    BY WireQueueAssumption DEF Init, WireQueueAssumption
  <2> QED BY <2>1, <2>2, <1>1, <1>2 DEF TypeOK, Init
<1>4. OwnerAlone /\ RollbacksAimed /\ SendersKnown /\ OrphansExplained
  BY <1>1, <1>2 DEF OwnerAlone, RollbacksAimed, SendersKnown, OrphansExplained
<1>5. NewAreSilent
  BY <1>1, <1>2, WireQueueAssumption DEF NewAreSilent, Mine, WireQueueAssumption
<1>6. ClientsChained
  BY <1>1 DEF ClientsChained
<1> QED BY <1>3, <1>4, <1>5, <1>6 DEF QueueInv

LEMMA QueueSteps ==
  ASSUME QueueInv, [Next]_vars
  PROVE  QueueInv'
<1>1. ASSUME NEW h \in Handler, Attach(h) PROVE QueueInv'
  BY <1>1, AttachKeeps
<1>2. ASSUME NEW h \in Handler, Terminate(h) PROVE QueueInv'
  BY <1>2, TerminateKeeps
<1>3. ASSUME NEW h \in Handler, Detach(h) PROVE QueueInv'
  BY <1>3, DetachKeeps
<1>4. ASSUME NEW h \in Handler, NEW kind \in Kind, Send(h, kind) PROVE QueueInv'
  BY <1>4, SendKeeps, WireQueueAssumption
<1>5. CASE Execute
  <2>1. Succeed \/ Fail
    BY <1>5 DEF Execute
  <2> QED BY <1>5, <2>1, SucceedKeeps, FailKeeps, WireQueueAssumption
<1>6. CASE Rollback
  BY <1>6, RollbackKeeps, WireQueueAssumption
<1>7. CASE EvictStart
  BY <1>7, EvictStartKeeps
<1>8. CASE EvictDrain
  BY <1>8, EvictKeeps DEF EvictDrain
<1>9. CASE EvictFlush
  BY <1>9, EvictKeeps DEF EvictFlush
<1>10. CASE UNCHANGED vars
  <2>1. UNCHANGED <<conn, clientVars, queue, engine, sessionVars, evict, evictions, missed>>
    BY <1>10 DEF vars, evictVars
  <2>2. evict' \in {"no", "drain", "flush", "done"}
    BY <2>1 DEF QueueInv, TypeOK
  <2> QED BY <2>1, <2>2, EvictKeeps
<1> QED BY <1>1, <1>2, <1>3, <1>4, <1>5, <1>6, <1>7, <1>8, <1>9, <1>10 DEF Next

----------------------------------------------------------------------------
(* In every reachable state the jobs in the engine and in the queue are    *)
(* what the connections sent, in their order, and while a transaction is   *)
(* open the engine works for its owner alone, whatever the numbers of      *)
(* connections, messages and evictions (wire-queue.ts; pump(), detach()    *)
(* and evict() of wire-router.ts).                                         *)
THEOREM QueueInvariance == Spec => []QueueInv
<1>1. Init => QueueInv
  BY QueueStarts, WireQueueAssumption
<1>2. QueueInv /\ [Next]_vars => QueueInv'
  BY QueueSteps
<1> QED BY <1>1, <1>2, PTL DEF Spec

(* The state keeps its types, and the engine never has two messages before *)
(* it: "messages execute strictly one at a time".                          *)
THEOREM QueueTypeCorrect == Spec => []TypeOK
<1>1. QueueInv => TypeOK
  BY DEF QueueInv
<1> QED BY <1>1, QueueInvariance, PTL

(* A transaction nobody will end was left by a connection that went while  *)
(* its own BEGIN was executing, or that an eviction cut off: detach() and  *)
(* pump() roll back every other.                                           *)
THEOREM OrphansAreExplained == Spec => []OrphansExplained
<1>1. QueueInv => OrphansExplained
  BY DEF QueueInv
<1> QED BY <1>1, QueueInvariance, PTL

(* take() and the one place in the engine keep every message of another    *)
(* connection out of an open transaction, also while ROLLBACKs of          *)
(* connections that have left are on their way.                            *)
THEOREM TransactionsIsolated == Spec => TxIsolated
<1>1. ASSUME QueueInv, NEW h \in Handler, Executes(h), inTx
      PROVE  owner = h
  <2>1. engine # <<>> /\ Head(engine).h = h /\ TypeOK /\ OwnerAlone
    BY <1>1 DEF QueueInv, Executes, Execute
  <2>2. 1 \in DOMAIN engine /\ Head(engine) = engine[1]
    BY <2>1, TailKeeps
  <2> QED BY <2>1, <2>2, <1>1 DEF OwnerAlone
<1>2. QueueInv => [\A h \in Handler : Executes(h) /\ inTx => owner = h]_vars
  BY <1>1
<1> QED BY <1>2, QueueInvariance, PTL DEF TxIsolated

(* What an open connection sent inside a transaction runs inside that      *)
(* transaction, and a Bind of it after its own Parse: clearForHandler(),   *)
(* the ROLLBACKs and the evictions of others never come between.           *)
THEOREM TransactionsWhole == Spec => TxWhole
<1>1. ASSUME QueueInv, NEW h \in Handler, Executes(h), conn[h] = "open", Head(engine).inside
      PROVE  inTx /\ owner = h /\ (Head(engine).kind = "bind" => slot = h)
  <2> DEFINE w == engine \o queue
  <2>1. engine # <<>> /\ Head(engine).h = h /\ TypeOK /\ ClientsChained
    BY <1>1 DEF QueueInv, Executes, Execute
  <2>2. w # <<>> /\ Head(w) = Head(engine) /\ w \in Seq(Job)
    BY <2>1, TailKeeps
  <2>3. 1 \in Mine(w, h) /\ w[1] = Head(engine) /\ \A k \in Mine(w, h) : 1 <= k
    <3> HIDE DEF w
    <3> QED BY <2>1, <2>2 DEF Mine
  <2>4. Chained(h, w, inTx /\ owner = h, slot = h, opened[h], parsed[h])
    BY <2>1, <1>1 DEF ClientsChained
  <2> HIDE DEF w
  <2> QED BY <2>3, <2>4, <1>1 DEF Chained
<1>2. QueueInv =>
        [\A h \in Handler : Executes(h) /\ conn[h] = "open" /\ Head(engine).inside =>
            /\ inTx /\ owner = h
            /\ Head(engine).kind = "bind" => slot = h]_vars
  BY <1>1
<1> QED BY <1>2, QueueInvariance, PTL DEF TxWhole
=============================================================================
