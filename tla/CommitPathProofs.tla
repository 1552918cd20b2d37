-------------------------- MODULE CommitPathProofs --------------------------
(***************************************************************************)
(* Theorems about the commit path of one process, for any number of        *)
(* requests, of lives and of page headers, and for every durability mode:  *)
(* what the bucket replays is a prefix of the WAL of the life that runs,   *)
(* and it only grows.                                                      *)
(***************************************************************************)
EXTENDS CommitPath, FiniteSetTheorems, SequenceTheorems, WellFoundedInduction, TLAPS

----------------------------------------------------------------------------
(* Sequences of sequences.                                                 *)

Before == {p \in Nat \X Nat : p[1] < p[2]}

LEMMA BeforeIsWellFounded == IsWellFoundedOn(Before, Nat)
  BY NatLessThanWellFounded DEF OpToRel, Before

(* A set of numbers has a least one.                                       *)
LEMMA LeastNumber ==
  ASSUME NEW T \in SUBSET Nat, T # {}
  PROVE  \E x \in T : \A y \in T : x <= y
<1>1. PICK x \in T : \A y \in T : ~(<<y, x>> \in Before)
  BY BeforeIsWellFounded, WFMin, Zenon
<1>2. ASSUME NEW y \in T PROVE x <= y
  <2>1. x \in Nat /\ y \in Nat
    OBVIOUS
  <2>2. ~(<<y, x>>[1] < <<y, x>>[2])
    BY <1>1, <2>1 DEF Before
  <2> QED BY <2>1, <2>2
<1> QED BY <1>2

(* f joins the first n of the sequences s, up to each of them.             *)
Joins(f, s, n) == f = [i \in 1..n |-> IF i = 1 THEN s[i] ELSE f[i - 1] \o s[i]]

LEMMA JoinsAgree ==
  ASSUME NEW s, NEW m \in Nat, NEW n \in Nat, m <= n, NEW f, NEW g, Joins(f, s, m), Joins(g, s, n)
  PROVE  \A i \in 1..m : f[i] = g[i]
<1> DEFINE T == {i \in 1..m : f[i] # g[i]}
<1> SUFFICES ASSUME T # {} PROVE FALSE
  OBVIOUS
<1>1. T \in SUBSET Nat
  OBVIOUS
<1>2. PICK k \in T : \A j \in T : k <= j
  <2> HIDE DEF T
  <2> QED BY <1>1, LeastNumber
<1>3. k \in 1..m /\ k \in 1..n /\ f[k] # g[k]
  BY <1>2
<1>4. f[k] = (IF k = 1 THEN s[k] ELSE f[k - 1] \o s[k])
  BY <1>3 DEF Joins
<1>5. g[k] = (IF k = 1 THEN s[k] ELSE g[k - 1] \o s[k])
  BY <1>3 DEF Joins
<1>6. CASE k = 1
  BY <1>3, <1>4, <1>5, <1>6
<1>7. CASE k # 1
  <2>1. k - 1 \in 1..m /\ ~(k <= k - 1)
    BY <1>3, <1>7
  <2>2. f[k - 1] = g[k - 1]
    BY <1>2, <2>1
  <2> QED BY <1>3, <1>4, <1>5, <1>7, <2>2
<1> QED BY <1>6, <1>7

LEMMA JoinsExists ==
  ASSUME NEW s, NEW n \in Nat
  PROVE  \E f : Joins(f, s, n)
<1> DEFINE T == {k \in Nat : ~\E f : Joins(f, s, k)}
<1> SUFFICES ASSUME T # {} PROVE FALSE
  OBVIOUS
<1>1. T \in SUBSET Nat
  OBVIOUS
<1>2. PICK k \in T : \A j \in T : k <= j
  <2> HIDE DEF T
  <2> QED BY <1>1, LeastNumber
<1>3. CASE k = 0
  <2>1. Joins([i \in 1..0 |-> s[i]], s, 0)
    BY DEF Joins
  <2> QED BY <1>2, <1>3, <2>1
<1>4. CASE k # 0
  <2>1. k - 1 \in Nat /\ ~(k <= k - 1) /\ k \in Nat
    BY <1>2, <1>4
  <2>2. PICK f : Joins(f, s, k - 1)
    BY <1>2, <2>1
  <2> DEFINE g == [i \in 1..k |-> IF i = 1 THEN s[i] ELSE f[i - 1] \o s[i]]
  <2>3. ASSUME NEW i \in 1..k, i # 1 PROVE f[i - 1] = g[i - 1]
    <3>1. i - 1 \in 1..(k - 1) /\ i - 1 \in 1..k
      BY <2>1, <2>3
    <3>2. f[i - 1] = (IF i - 1 = 1 THEN s[i - 1] ELSE f[(i - 1) - 1] \o s[i - 1])
      BY <2>2, <3>1 DEF Joins
    <3>3. g[i - 1] = (IF i - 1 = 1 THEN s[i - 1] ELSE f[(i - 1) - 1] \o s[i - 1])
      BY <3>1
    <3> QED BY <3>2, <3>3
  <2>4. Joins(g, s, k)
    BY <2>3 DEF Joins
  <2> QED BY <1>2, <2>4
<1> QED BY <1>3, <1>4

LEMMA FlattenJoins ==
  ASSUME NEW s, Len(s) \in Nat, Len(s) # 0, NEW f, Joins(f, s, Len(s))
  PROVE  FlattenSeq(s) = f[Len(s)]
<1> DEFINE g == CHOOSE g : g = [i \in 1..Len(s) |-> IF i = 1 THEN s[i] ELSE g[i - 1] \o s[i]]
<1>1. FlattenSeq(s) = g[Len(s)]
  BY DEF FlattenSeq
<1>2. Joins(g, s, Len(s))
  BY DEF Joins
<1> HIDE DEF g
<1>3. Len(s) \in 1..Len(s)
  OBVIOUS
<1> QED BY <1>1, <1>2, <1>3, JoinsAgree

(* FlattenSeq() by its last element.                                       *)
LEMMA FlattenAppend ==
  ASSUME NEW S, NEW s \in Seq(Seq(S)), NEW x \in Seq(S)
  PROVE  FlattenSeq(Append(s, x)) = FlattenSeq(s) \o x
<1> DEFINE t == Append(s, x)
           n == Len(s)
<1>1. n \in Nat /\ Len(t) = n + 1 /\ t[n + 1] = x /\ \A i \in 1..n : t[i] = s[i]
  <2> DEFINE T == Seq(S)
  <2>1. s \in Seq(T) /\ x \in T
    OBVIOUS
  <2> HIDE DEF T
  <2>2. Len(s) \in Nat
    BY <2>1, LenProperties
  <2>3. Len(Append(s, x)) = Len(s) + 1 /\ Append(s, x)[Len(s) + 1] = x
        /\ \A i \in 1..Len(s) : Append(s, x)[i] = s[i]
    BY <2>1, AppendProperties
  <2> QED BY <2>2, <2>3
<1>2. PICK f : Joins(f, t, n + 1)
  <2> HIDE DEF t, n
  <2>1. n \in Nat
    BY <1>1
  <2>2. n + 1 \in Nat
    BY <2>1
  <2> QED BY <2>2, JoinsExists
<1>3. FlattenSeq(t) = f[n + 1]
  <2> HIDE DEF t, n
  <2> QED BY <1>1, <1>2, FlattenJoins
<1>4. f[n + 1] = (IF n + 1 = 1 THEN t[n + 1] ELSE f[n] \o t[n + 1])
  <2> HIDE DEF t, n
  <2>0. n \in Nat
    BY <1>1
  <2>1. n + 1 \in 1..(n + 1) /\ (n + 1) - 1 = n
    BY <2>0
  <2>2. f[n + 1] = (IF n + 1 = 1 THEN t[n + 1] ELSE f[(n + 1) - 1] \o t[n + 1])
    BY <1>2, <2>1 DEF Joins
  <2> QED BY <2>1, <2>2
<1>5. CASE n = 0
  <2>1. FlattenSeq(s) = <<>>
    BY <1>5 DEF FlattenSeq
  <2>2. FlattenSeq(t) = x
    BY <1>1, <1>3, <1>4, <1>5
  <2> QED BY <2>1, <2>2, ConcatEmptySeq
<1>6. CASE n # 0
  <2> HIDE DEF t, n
  <2>1. PICK g : Joins(g, s, n)
    BY <1>1, JoinsExists
  <2>2. Joins(g, t, n)
    BY <1>1, <2>1 DEF Joins
  <2>3. n \in 1..n
    BY <1>1, <1>6
  <2>4. g[n] = f[n]
    BY <1>1, <1>2, <2>2, <2>3, JoinsAgree
  <2>5. FlattenSeq(s) = g[n]
    BY <1>1, <1>6, <2>1, FlattenJoins DEF n
  <2>6. n + 1 # 1
    BY <1>1, <1>6
  <2> QED BY <1>1, <1>3, <1>4, <2>4, <2>5, <2>6 DEF t
<1> QED BY <1>5, <1>6

LEMMA FlattenType ==
  ASSUME NEW S, NEW s \in Seq(Seq(S))
  PROVE  FlattenSeq(s) \in Seq(S)
<1> DEFINE n == Len(s)
<1>1. n \in Nat /\ \A i \in 1..n : s[i] \in Seq(S)
  <2> DEFINE T == Seq(S)
  <2>1. s \in Seq(T)
    OBVIOUS
  <2> HIDE DEF T
  <2>2. Len(s) \in Nat /\ \A i \in 1..Len(s) : s[i] \in T
    BY <2>1, LenProperties, ElementOfSeq
  <2> QED BY <2>2 DEF T
<1>2. CASE n = 0
  <2>1. FlattenSeq(s) = <<>>
    BY <1>2 DEF FlattenSeq
  <2> QED BY <2>1
<1>3. CASE n # 0
  <2> HIDE DEF n
  <2>1. PICK f : Joins(f, s, n)
    BY <1>1, JoinsExists
  <2>2. FlattenSeq(s) = f[n]
    BY <1>1, <1>3, <2>1, FlattenJoins DEF n
  <2> DEFINE T == {i \in 1..n : f[i] \notin Seq(S)}
  <2>3. ASSUME T # {} PROVE FALSE
    <3>1. T \in SUBSET Nat
      OBVIOUS
    <3>2. PICK k \in T : \A j \in T : k <= j
      <4> HIDE DEF T
      <4> QED BY <2>3, <3>1, LeastNumber
    <3>3. k \in 1..n /\ f[k] \notin Seq(S) /\ f[k] = (IF k = 1 THEN s[k] ELSE f[k - 1] \o s[k])
      BY <2>1, <3>2 DEF Joins
    <3>4. CASE k = 1
      BY <1>1, <3>3, <3>4
    <3>5. CASE k # 1
      <4>1. k - 1 \in 1..n /\ ~(k <= k - 1)
        BY <1>1, <3>3, <3>5
      <4>2. f[k - 1] \in Seq(S)
        BY <3>2, <4>1
      <4>3. s[k] \in Seq(S)
        BY <1>1, <3>3
      <4> QED BY <3>3, <3>5, <4>2, <4>3, ConcatProperties
    <3> QED BY <3>4, <3>5
  <2>4. n \in 1..n
    BY <1>1, <1>3
  <2> QED BY <2>2, <2>3, <2>4
<1> QED BY <1>2, <1>3

----------------------------------------------------------------------------
(* Pieces of a WAL.                                                        *)

Recs ==
    [what : {"row"}, req : Req \ Idle, life : Nat]
        \cup [what : {"pad", "checkpoint"}, req : {NoReq}, life : Nat]

Wal == Seq(Recs)

Upto(w, k) == SubSeq(w, 1, k)
From(w, j, k) == SubSeq(w, j + 1, k)

(* w goes on where v ends.                                                 *)
Extends(w, v) == Len(v) <= Len(w) /\ \A i \in 1..Len(v) : w[i] = v[i]

Untorn(s) == \A i \in DOMAIN s : Follows(s, i)

LEMMA UptoMeans ==
  ASSUME NEW w \in Wal, NEW k \in 0..Len(w)
  PROVE  /\ Upto(w, k) \in Wal /\ Len(Upto(w, k)) = k
         /\ \A i \in 1..k : Upto(w, k)[i] = w[i] /\ Upto(w, k)[i] \in Recs
<1>1. Len(w) \in Nat /\ \A i \in 1..Len(w) : w[i] \in Recs
  BY LenProperties, ElementOfSeq DEF Wal
<1>2. 1 \in Int /\ k \in Int /\ \A i \in 1..k : w[i] \in Recs
  BY <1>1
<1>3. /\ SubSeq(w, 1, k) \in Seq(Recs)
      /\ Len(SubSeq(w, 1, k)) = IF 1 <= k THEN k - 1 + 1 ELSE 0
      /\ \A i \in 1 .. k - 1 + 1 : SubSeq(w, 1, k)[i] = w[1 + i - 1]
  BY <1>2, SubSeqProperties
<1>4. k \in Nat /\ k - 1 + 1 = k /\ \A i \in 1..k : 1 + i - 1 = i
  BY <1>1
<1> QED BY <1>2, <1>3, <1>4 DEF Upto, Wal

LEMMA FromMeans ==
  ASSUME NEW w \in Wal, NEW j \in 0..Len(w), NEW k \in j..Len(w)
  PROVE  /\ From(w, j, k) \in Wal /\ Len(From(w, j, k)) = k - j
         /\ \A i \in 1..(k - j) : From(w, j, k)[i] = w[j + i]
<1>1. Len(w) \in Nat /\ \A i \in 1..Len(w) : w[i] \in Recs
  BY LenProperties, ElementOfSeq DEF Wal
<1>2. j + 1 \in Int /\ k \in Int /\ j \in Int /\ j >= 0
  BY <1>1
<1>3. \A i \in (j + 1)..k : w[i] \in Recs
  BY <1>1
<1>4. /\ SubSeq(w, j + 1, k) \in Seq(Recs)
      /\ Len(SubSeq(w, j + 1, k)) = IF j + 1 <= k THEN k - (j + 1) + 1 ELSE 0
      /\ \A i \in 1 .. k - (j + 1) + 1 : SubSeq(w, j + 1, k)[i] = w[(j + 1) + i - 1]
  BY <1>2, <1>3, SubSeqProperties
<1>5. k - (j + 1) + 1 = k - j /\ j <= k
  BY <1>1
<1>6. \A i \in 1..(k - j) : (j + 1) + i - 1 = j + i
  BY <1>2
<1>7. Len(From(w, j, k)) = k - j
  BY <1>2, <1>4, <1>5 DEF From
<1> QED BY <1>4, <1>5, <1>6, <1>7 DEF From, Wal

LEMMA UptoAll ==
  ASSUME NEW w \in Wal
  PROVE  Upto(w, Len(w)) = w
  BY SubSeqFull DEF Upto, Wal

(* Pieces that join.                                                       *)
LEMMA UptoFrom ==
  ASSUME NEW w \in Wal, NEW j \in 0..Len(w), NEW k \in j..Len(w)
  PROVE  Upto(w, j) \o From(w, j, k) = Upto(w, k)
<1>1. Len(w) \in Nat
  BY LenProperties DEF Wal
<1>2. 1 \in 1..Len(w) + 1 /\ j \in 1 - 1 .. Len(w)
  BY <1>1
<1> QED BY <1>2, ConcatAdjacentSubSeq DEF Upto, From, Wal

(* What a longer WAL has in common with the shorter one.                   *)
LEMMA UptoSame ==
  ASSUME NEW v \in Wal, NEW w \in Wal, Extends(w, v), NEW k \in 0..Len(v)
  PROVE  k \in 0..Len(w) /\ Upto(w, k) = Upto(v, k)
<1>1. Len(w) \in Nat /\ Len(v) \in Nat /\ Len(v) <= Len(w)
  BY LenProperties DEF Wal, Extends
<1>2. k \in 0..Len(w)
  BY <1>1
<1>3. /\ Upto(v, k) \in Seq(Recs) /\ Len(Upto(v, k)) = k /\ \A i \in 1..k : Upto(v, k)[i] = v[i]
  BY UptoMeans DEF Wal
<1>4. /\ Upto(w, k) \in Seq(Recs) /\ Len(Upto(w, k)) = k /\ \A i \in 1..k : Upto(w, k)[i] = w[i]
  BY <1>2, UptoMeans DEF Wal
<1>5. \A i \in 1..k : v[i] = w[i]
  BY <1>1 DEF Extends
<1> QED BY <1>2, <1>3, <1>4, <1>5, SeqEqual

LEMMA FromSame ==
  ASSUME NEW v \in Wal, NEW w \in Wal, Extends(w, v), NEW j \in 0..Len(v), NEW k \in j..Len(v)
  PROVE  From(w, j, k) = From(v, j, k)
<1>1. Len(w) \in Nat /\ Len(v) \in Nat /\ Len(v) <= Len(w)
  BY LenProperties DEF Wal, Extends
<1>2. j \in 0..Len(w) /\ k \in j..Len(w) /\ j \in Int /\ j >= 0 /\ k <= Len(v)
  BY <1>1
<1>3. /\ From(v, j, k) \in Seq(Recs) /\ Len(From(v, j, k)) = k - j
      /\ \A i \in 1..(k - j) : From(v, j, k)[i] = v[j + i]
  BY FromMeans DEF Wal
<1>4. /\ From(w, j, k) \in Seq(Recs) /\ Len(From(w, j, k)) = k - j
      /\ \A i \in 1..(k - j) : From(w, j, k)[i] = w[j + i]
  BY <1>2, FromMeans DEF Wal
<1>5. \A i \in 1..(k - j) : j + i \in 1..Len(v)
  BY <1>1, <1>2
<1>6. \A i \in 1..(k - j) : v[j + i] = w[j + i]
  BY <1>5 DEF Extends
<1> QED BY <1>3, <1>4, <1>6, SeqEqual

(* The greatest of some numbers, none above n.                             *)
LEMMA GreatestUpTo ==
  ASSUME NEW n \in Nat, NEW T \in SUBSET (0..n), T # {}
  PROVE  Max(T) \in T /\ \A x \in T : x <= Max(T)
<1> DEFINE D == {n - x : x \in T}
<1>1. D \in SUBSET Nat /\ D # {}
  OBVIOUS
<1>2. PICK d \in D : \A y \in D : d <= y
  <2> HIDE DEF D
  <2> QED BY <1>1, LeastNumber
<1>3. PICK m \in T : d = n - m
  BY <1>2
<1>4. ASSUME NEW x \in T PROVE m >= x
  <2>1. n - m <= n - x
    BY <1>2, <1>3
  <2> QED BY <2>1
<1>5. \E z \in T : \A x \in T : z >= x
  BY <1>4
<1>6. Max(T) \in T /\ \A x \in T : Max(T) >= x
  BY <1>5 DEF Max
<1> QED BY <1>6

(* A WAL that is not torn replays to the last record that is no page       *)
(* header.                                                                 *)
LEMMA ReplayedMeans ==
  ASSUME NEW s \in Wal, Untorn(s)
  PROVE  \E n \in 0..Len(s) : /\ Replayed(s) = Upto(s, n)
                              /\ n = 0 \/ s[n].what # "pad"
                              /\ \A i \in 1..Len(s) : s[i].what # "pad" => i <= n
<1>1. Len(s) \in Nat /\ DOMAIN s = 1..Len(s)
  BY LenProperties DEF Wal
<1> DEFINE T == {k \in 0..Len(s) : k = 0 \/ s[k].what # "pad"}
<1>2. {i \in DOMAIN s : ~Follows(s, i)} = {}
  BY DEF Untorn
<1>3. Replayed(s) = SubSeq(s, 1, Max(T))
  BY <1>2 DEF Replayed
<1>4. T \in SUBSET (0..Len(s)) /\ 0 \in T
  BY <1>1
<1>5. Max(T) \in T /\ \A x \in T : x <= Max(T)
  <2> HIDE DEF T
  <2> QED BY <1>1, <1>4, GreatestUpTo
<1>6. \A i \in 1..Len(s) : s[i].what # "pad" => i \in T
  BY <1>1
<1>7. Max(T) \in 0..Len(s) /\ (Max(T) = 0 \/ s[Max(T)].what # "pad")
  BY <1>5
<1> HIDE DEF T
<1> QED BY <1>3, <1>5, <1>6, <1>7 DEF Upto

(* ... with all the rows it has.                                           *)
LEMMA ReplayedRows ==
  ASSUME NEW s \in Wal, Untorn(s)
  PROVE  Rows(Replayed(s)) = Rows(s)
<1>1. PICK n \in 0..Len(s) : /\ Replayed(s) = Upto(s, n)
                             /\ \A i \in 1..Len(s) : s[i].what # "pad" => i <= n
  BY ReplayedMeans
<1>2. Len(s) \in Nat /\ DOMAIN s = 1..Len(s)
  BY LenProperties DEF Wal
<1>3. /\ Upto(s, n) \in Wal /\ Len(Upto(s, n)) = n /\ \A i \in 1..n : Upto(s, n)[i] = s[i]
  BY UptoMeans
<1>4. DOMAIN Upto(s, n) = 1..n
  BY <1>3, LenProperties DEF Wal
<1>5. {j \in DOMAIN s : s[j].what = "row"} = {j \in 1..n : s[j].what = "row"}
  BY <1>1, <1>2
<1>6. {j \in DOMAIN Upto(s, n) : Upto(s, n)[j].what = "row"} = {j \in 1..n : s[j].what = "row"}
  BY <1>3, <1>4
<1> QED BY <1>1, <1>3, <1>5, <1>6 DEF Rows

(* The rows of the beginning of a WAL.                                     *)
LEMMA RowsUpto ==
  ASSUME NEW w \in Wal, NEW k \in 0..Len(w)
  PROVE  Rows(Upto(w, k)) = {w[i].req : i \in {j \in 1..k : w[j].what = "row"}}
<1>1. /\ Upto(w, k) \in Wal /\ Len(Upto(w, k)) = k /\ \A i \in 1..k : Upto(w, k)[i] = w[i]
  BY UptoMeans
<1>2. DOMAIN Upto(w, k) = 1..k
  BY <1>1, LenProperties DEF Wal
<1> QED BY <1>1, <1>2 DEF Rows

LEMMA UntornUpto ==
  ASSUME NEW w \in Wal, Untorn(w), NEW k \in 0..Len(w)
  PROVE  Untorn(Upto(w, k))
<1>1. /\ Upto(w, k) \in Wal /\ Len(Upto(w, k)) = k /\ \A i \in 1..k : Upto(w, k)[i] = w[i]
  BY UptoMeans
<1>2. DOMAIN Upto(w, k) = 1..k /\ Len(w) \in Nat /\ DOMAIN w = 1..Len(w)
  BY <1>1, LenProperties DEF Wal
<1>3. ASSUME NEW i \in 1..k PROVE Follows(Upto(w, k), i)
  <2>1. i \in DOMAIN w /\ Follows(w, i)
    BY <1>2 DEF Untorn
  <2>2. i # 1 => i - 1 \in 1..k
    BY <1>2
  <2> QED BY <1>1, <2>1, <2>2 DEF Follows
<1> QED BY <1>2, <1>3 DEF Untorn

----------------------------------------------------------------------------
(* Manifests and what they restore.                                        *)

Keys == [kind : {"snap", "wal"}, seq : Nat, token : Nat]
Segs == [key : Keys, start : Nat, end : Nat, body : Wal]
Manifests == [etag : Nat, seq : Nat, snap : Keys, base : Nat, segs : Seq(Segs)]

Objects(o) == DOMAIN o \subseteq Keys /\ \A k \in DOMAIN o : o[k] \in Wal

KeysIn(m) == {m.snap} \cup {m.segs[i].key : i \in 1..Len(m.segs)}

Joined(o, segs) == FlattenSeq([i \in DOMAIN segs |-> o[segs[i].key]])
Lead(o, m) == Upto(o[m.snap], m.base)
Restoring(o, m) == IF m.segs = <<>> THEN o[m.snap] ELSE Lead(o, m) \o Joined(o, m.segs)

LEMMA RestoredIs ==
  ASSUME NEW m
  PROVE  Restored(m) = Restoring(objs, m)
  BY DEF Restored, Shipped, Restoring, Joined, Lead, Upto

(* The objects of m are in o: n is the life that runs, or ran last.        *)
Stored(o, m, n) ==
    /\ KeysIn(m) \subseteq DOMAIN o
    /\ m.snap.kind = "snap"
    /\ \A i \in 1..Len(m.segs) : m.segs[i].key.kind = "wal"
    /\ \A k \in KeysIn(m) : k.token <= n /\ k.seq <= m.seq
    /\ m.base <= Len(o[m.snap])
    /\ m.base = 0 \/ o[m.snap][m.base].what # "pad"

LEMMA SegsMean ==
  ASSUME NEW segs \in Seq(Segs)
  PROVE  Len(segs) \in Nat /\ DOMAIN segs = 1..Len(segs) /\ \A i \in 1..Len(segs) : segs[i] \in Segs
<1> HIDE DEF Segs
<1> QED BY LenProperties, ElementOfSeq

(* The bodies of stored segments, as a sequence.                           *)
LEMMA BodiesAre ==
  ASSUME NEW segs \in Seq(Segs), NEW o, Objects(o),
         \A i \in 1..Len(segs) : segs[i].key \in DOMAIN o
  PROVE  /\ [i \in DOMAIN segs |-> o[segs[i].key]] \in Seq(Wal)
         /\ Joined(o, segs) \in Wal
<1> DEFINE b == [i \in DOMAIN segs |-> o[segs[i].key]]
<1>1. Len(segs) \in Nat /\ DOMAIN segs = 1..Len(segs)
  BY SegsMean
<1>2. \A i \in 1..Len(segs) : o[segs[i].key] \in Wal
  BY DEF Objects
<1>3. b \in [1..Len(segs) -> Wal]
  BY <1>1, <1>2
<1>4. b \in Seq(Wal)
  <2> HIDE DEF b
  <2> QED BY <1>1, <1>3, SeqDef
<1>5. FlattenSeq(b) \in Seq(Recs)
  <2> HIDE DEF b
  <2> QED BY <1>4, FlattenType DEF Wal
<1> QED BY <1>4, <1>5 DEF Joined, Wal

LEMMA JoinedEmpty ==
  ASSUME NEW o
  PROVE  Joined(o, <<>>) = <<>>
<1>1. Len([i \in DOMAIN <<>> |-> o[<<>>[i].key]]) = 0
  OBVIOUS
<1> QED BY <1>1 DEF Joined, FlattenSeq

LEMMA JoinedAppend ==
  ASSUME NEW segs \in Seq(Segs), NEW seg \in Segs, NEW o, Objects(o),
         \A i \in 1..Len(segs) : segs[i].key \in DOMAIN o, seg.key \in DOMAIN o
  PROVE  Joined(o, Append(segs, seg)) = Joined(o, segs) \o o[seg.key]
<1> DEFINE b == [i \in DOMAIN segs |-> o[segs[i].key]]
           t == Append(segs, seg)
           n == Len(segs)
<1>1. n \in Nat /\ DOMAIN segs = 1..n
  BY SegsMean
<1>2. b \in Seq(Wal) /\ o[seg.key] \in Wal
  BY BodiesAre DEF Objects
<1>3. DOMAIN t = 1..(n + 1) /\ t[n + 1] = seg /\ \A i \in 1..n : t[i] = segs[i]
  <2>1. t \in Seq(Segs) /\ Len(t) = n + 1 /\ t[n + 1] = seg /\ \A i \in 1..n : t[i] = segs[i]
    <3> HIDE DEF Segs
    <3> QED BY AppendProperties
  <2>2. DOMAIN t = 1..Len(t)
    <3> HIDE DEF t
    <3> QED BY <2>1, SegsMean
  <2> QED BY <2>1, <2>2
<1> DEFINE c == [i \in DOMAIN t |-> o[t[i].key]]
<1>4. Len(b) = n /\ \A i \in 1..n : b[i] = o[segs[i].key]
  <2>1. b = [i \in 1..n |-> o[segs[i].key]]
    BY <1>1
  <2>2. DOMAIN b = 1..n
    BY <2>1
  <2> QED BY <1>1, <2>1, <2>2
<1>5. c = Append(b, o[seg.key])
  <2>1. c = [i \in 1..(n + 1) |-> IF i = n + 1 THEN o[seg.key] ELSE b[i]]
    <3>1. ASSUME NEW i \in 1..(n + 1) PROVE o[t[i].key] = IF i = n + 1 THEN o[seg.key] ELSE b[i]
      <4>1. CASE i = n + 1
        BY <1>3, <4>1
      <4>2. CASE i # n + 1
        <5>1. i \in 1..n
          BY <1>1, <4>2
        <5> QED BY <1>3, <1>4, <4>2, <5>1
      <4> QED BY <4>1, <4>2
    <3> QED BY <1>3, <3>1
  <2>2. Append(b, o[seg.key]) = [i \in 1..(Len(b) + 1) |-> IF i <= Len(b) THEN b[i] ELSE o[seg.key]]
    <3> HIDE DEF b
    <3> QED BY <1>2
  <2>3. \A i \in 1..(n + 1) : (i = n + 1) <=> ~(i <= n)
    BY <1>1
  <2> HIDE DEF b, c
  <2> QED BY <1>4, <2>1, <2>2, <2>3
<1>6. FlattenSeq(Append(b, o[seg.key])) = FlattenSeq(b) \o o[seg.key]
  <2> HIDE DEF b
  <2> QED BY <1>2, FlattenAppend DEF Wal
<1> QED BY <1>5, <1>6 DEF Joined

(* Bodies are read by their keys.                                          *)
LEMMA JoinedSame ==
  ASSUME NEW segs, NEW o, NEW p, \A i \in DOMAIN segs : p[segs[i].key] = o[segs[i].key]
  PROVE  Joined(p, segs) = Joined(o, segs)
<1>1. [i \in DOMAIN segs |-> o[segs[i].key]] = [i \in DOMAIN segs |-> p[segs[i].key]]
  OBVIOUS
<1> QED BY <1>1 DEF Joined

LEMMA RestoringSame ==
  ASSUME NEW m \in Manifests, NEW o, NEW p, \A k \in KeysIn(m) : p[k] = o[k]
  PROVE  /\ Lead(p, m) = Lead(o, m)
         /\ Joined(p, m.segs) = Joined(o, m.segs)
         /\ Restoring(p, m) = Restoring(o, m)
<1>1. p[m.snap] = o[m.snap]
  BY DEF KeysIn
<1>2. m.segs \in Seq(Segs)
  BY DEF Manifests
<1>3. DOMAIN m.segs = 1..Len(m.segs)
  BY <1>2, SegsMean
<1>4. \A i \in DOMAIN m.segs : p[m.segs[i].key] = o[m.segs[i].key]
  BY <1>3 DEF KeysIn
<1>5. Joined(p, m.segs) = Joined(o, m.segs)
  BY <1>4, JoinedSame
<1> QED BY <1>1, <1>5 DEF Lead, Restoring

LEMMA StoredSame ==
  ASSUME NEW m \in Manifests, NEW o, NEW p, NEW n \in Nat, Stored(o, m, n),
         KeysIn(m) \subseteq DOMAIN p, \A k \in KeysIn(m) : p[k] = o[k]
  PROVE  Stored(p, m, n)
<1>1. p[m.snap] = o[m.snap]
  BY DEF KeysIn
<1> QED BY <1>1 DEF Stored

(* A restore reads whole records, the snapshot's leading ones first.       *)
LEMMA RestoringMeans ==
  ASSUME NEW m \in Manifests, NEW o, NEW n \in Nat, Objects(o), Stored(o, m, n)
  PROVE  /\ Restoring(o, m) \in Wal
         /\ m.base \in 0..Len(Restoring(o, m))
         /\ Lead(o, m) \in Wal /\ Len(Lead(o, m)) = m.base
         /\ Lead(o, m) = Upto(Restoring(o, m), m.base)
         /\ m.base = 0 \/ Restoring(o, m)[m.base].what # "pad"
<1> DEFINE s == o[m.snap]
<1>1. s \in Wal /\ m.base \in 0..Len(s) /\ m.base \in Nat
  <2>1. m.snap \in DOMAIN o
    BY DEF Stored, KeysIn
  <2>2. s \in Wal
    BY <2>1 DEF Objects
  <2>3. Len(s) \in Nat /\ m.base \in Nat
    BY <2>2, LenProperties DEF Wal, Manifests
  <2> QED BY <2>2, <2>3 DEF Stored
<1>2. /\ Lead(o, m) \in Wal /\ Len(Lead(o, m)) = m.base
      /\ \A i \in 1..m.base : Lead(o, m)[i] = s[i]
  <2> HIDE DEF s
  <2>1. /\ Upto(s, m.base) \in Wal /\ Len(Upto(s, m.base)) = m.base
        /\ \A i \in 1..m.base : Upto(s, m.base)[i] = s[i]
    BY <1>1, UptoMeans
  <2> QED BY <2>1 DEF Lead, s
<1>3. m.base = 0 \/ s[m.base].what # "pad"
  BY DEF Stored
<1>4. CASE m.segs = <<>>
  BY <1>1, <1>2, <1>3, <1>4 DEF Restoring, Lead
<1>5. CASE m.segs # <<>>
  <2> DEFINE j == Joined(o, m.segs)
             r == Lead(o, m) \o j
  <2>1. j \in Wal
    <3>1. m.segs \in Seq(Segs)
      BY DEF Manifests
    <3>2. \A i \in 1..Len(m.segs) : m.segs[i].key \in DOMAIN o
      BY DEF Stored, KeysIn
    <3> QED BY <3>1, <3>2, BodiesAre
  <2>2. /\ r \in Wal /\ Len(r) = m.base + Len(j) /\ Len(j) \in Nat
        /\ \A i \in 1..m.base : r[i] = Lead(o, m)[i]
    <3> HIDE DEF j
    <3>1. Len(j) \in Nat
      BY <2>1, LenProperties DEF Wal
    <3>2. /\ r \in Seq(Recs) /\ Len(r) = Len(Lead(o, m)) + Len(j)
          /\ \A i \in 1..(Len(Lead(o, m)) + Len(j)) :
               r[i] = IF i <= Len(Lead(o, m)) THEN Lead(o, m)[i] ELSE j[i - Len(Lead(o, m))]
      BY <1>2, <2>1, ConcatProperties DEF Wal
    <3>3. \A i \in 1..m.base : i \in 1..(m.base + Len(j)) /\ i <= m.base
      BY <1>1, <3>1
    <3> HIDE DEF r
    <3> QED BY <1>2, <3>1, <3>2, <3>3 DEF Wal
  <2>3. Restoring(o, m) = r
    BY <1>5 DEF Restoring
  <2> HIDE DEF j, r
  <2>4. m.base \in 0..Len(r)
    BY <1>1, <2>2
  <2>5. /\ Upto(r, m.base) \in Wal /\ Len(Upto(r, m.base)) = m.base
        /\ \A i \in 1..m.base : Upto(r, m.base)[i] = r[i]
    BY <2>2, <2>4, UptoMeans
  <2>6. Upto(r, m.base) = Lead(o, m)
    BY <1>2, <2>2, <2>5, SeqEqual DEF Wal
  <2>7. m.base = 0 \/ r[m.base].what # "pad"
    <3>1. m.base = 0 \/ m.base \in 1..m.base
      BY <1>1
    <3>2. m.base # 0 => r[m.base] = s[m.base]
      BY <1>2, <2>2, <3>1
    <3> QED BY <1>3, <3>2
  <2> QED BY <1>2, <2>2, <2>3, <2>4, <2>6, <2>7
<1> QED BY <1>4, <1>5

----------------------------------------------------------------------------
(* What a commit on the manifest a makes of it.                            *)

(* `keep` is what a range commit keeps of the segments of a, and `start`   *)
(* is where its range starts: what is kept reaches exactly that far.       *)
Based(o, a, keep, start, w) ==
    /\ keep = <<>> \/ keep = a.segs
    /\ a.base \in 0..Len(w) /\ Lead(o, a) = Upto(w, a.base)
    /\ start \in 0..Len(w) /\ Lead(o, a) \o Joined(o, keep) = Upto(w, start)

(* c adds a segment, in an object of life n.                               *)
AddsSegment(c, a, keep, n, seg) ==
    /\ c.seq = a.seq + 1 /\ c.snap = a.snap /\ c.base = a.base
    /\ c.segs = Append(keep, seg)
    /\ seg \in Segs /\ seg.key = ObjKey("wal", a.seq + 1, n)

(* c is a snapshot by life n, at a checkpoint.                             *)
IsSnapshot(c, a, n, w) ==
    /\ c.seq = a.seq + 1 /\ c.snap = ObjKey("snap", a.seq + 1, n) /\ c.segs = <<>>
    /\ c.base \in 1..Len(w) /\ w[c.base].what = "checkpoint"

(* The object of c is in o, and brings the restore up to LSN k.            *)
SegmentReaches(o, seg, start, w, k) ==
    seg.key \in DOMAIN o /\ k \in start..Len(w) /\ o[seg.key] = From(w, start, k)

SnapshotReaches(o, c, w, k) ==
    c.snap \in DOMAIN o /\ k \in c.base..Len(w) /\ o[c.snap] = Upto(w, k)

LEMMA SegmentRestores ==
  ASSUME NEW o, Objects(o), NEW a \in Manifests, NEW n \in Nat, Stored(o, a, n),
         NEW w \in Wal, NEW keep, NEW start, Based(o, a, keep, start, w),
         NEW c \in Manifests, NEW seg, AddsSegment(c, a, keep, n, seg),
         NEW k, SegmentReaches(o, seg, start, w, k)
  PROVE  /\ Stored(o, c, n)
         /\ Lead(o, c) = Lead(o, a)
         /\ Lead(o, c) \o Joined(o, c.segs) = Upto(w, k)
         /\ Restoring(o, c) = Upto(w, k)
         /\ k \in 0..Len(w)
<1>1. keep \in Seq(Segs) /\ \A i \in 1..Len(keep) : keep[i].key \in DOMAIN o
  <2>1. a.segs \in Seq(Segs)
    BY DEF Manifests
  <2>2. \A i \in 1..Len(a.segs) : a.segs[i].key \in DOMAIN o
    BY DEF Stored, KeysIn
  <2>3. CASE keep = a.segs
    BY <2>1, <2>2, <2>3
  <2>4. CASE keep = <<>>
    <3>1. keep \in Seq(Segs) /\ Len(keep) = 0
      BY <2>4
    <3> QED BY <3>1
  <2> QED BY <2>3, <2>4 DEF Based
<1>2. seg \in Segs /\ seg.key \in DOMAIN o
  BY DEF AddsSegment, SegmentReaches
<1>3. /\ Len(keep) \in Nat /\ Len(c.segs) = Len(keep) + 1 /\ c.segs # <<>>
      /\ c.segs[Len(keep) + 1] = seg /\ \A i \in 1..Len(keep) : c.segs[i] = keep[i]
  <2>1. c.segs = Append(keep, seg)
    BY DEF AddsSegment
  <2>2. /\ Len(Append(keep, seg)) = Len(keep) + 1 /\ Append(keep, seg) # <<>>
        /\ Append(keep, seg)[Len(keep) + 1] = seg
        /\ \A i \in 1..Len(keep) : Append(keep, seg)[i] = keep[i]
    <3> HIDE DEF Segs
    <3> QED BY <1>1, <1>2, AppendProperties
  <2> QED BY <1>1, <2>1, <2>2, SegsMean
<1>4. /\ start \in 0..Len(w) /\ k \in start..Len(w) /\ k \in 0..Len(w)
      /\ o[seg.key] = From(w, start, k)
  <2>1. start \in 0..Len(w) /\ k \in start..Len(w) /\ o[seg.key] = From(w, start, k)
    BY DEF Based, SegmentReaches
  <2>2. Len(w) \in Nat
    BY LenProperties DEF Wal
  <2> QED BY <2>1, <2>2
<1>5. Joined(o, c.segs) = Joined(o, keep) \o o[seg.key]
  BY <1>1, <1>2, JoinedAppend DEF AddsSegment
<1>6. Lead(o, c) = Lead(o, a)
  BY DEF AddsSegment, Lead
<1>7. Lead(o, c) \o Joined(o, c.segs) = Upto(w, k)
  <2>1. Lead(o, a) \in Wal /\ Joined(o, keep) \in Wal /\ o[seg.key] \in Wal
    BY <1>1, <1>2, RestoringMeans, BodiesAre DEF Objects
  <2>2. Lead(o, a) \o (Joined(o, keep) \o o[seg.key]) = (Lead(o, a) \o Joined(o, keep)) \o o[seg.key]
    <3>1. Lead(o, a) \in Seq(Recs) /\ Joined(o, keep) \in Seq(Recs) /\ o[seg.key] \in Seq(Recs)
      BY <2>1 DEF Wal
    <3> DEFINE x == Lead(o, a)
               y == Joined(o, keep)
               z == o[seg.key]
    <3>2. x \in Seq(Recs) /\ y \in Seq(Recs) /\ z \in Seq(Recs)
      BY <3>1
    <3> HIDE DEF Recs, x, y, z
    <3>3. (x \o y) \o z = x \o (y \o z)
      BY <3>2, ConcatAssociative
    <3> QED BY <3>3 DEF x, y, z
  <2>3. Lead(o, a) \o Joined(o, keep) = Upto(w, start)
    BY DEF Based
  <2>4. Upto(w, start) \o From(w, start, k) = Upto(w, k)
    BY <1>4, UptoFrom
  <2> QED BY <1>4, <1>5, <1>6, <2>2, <2>3, <2>4
<1>8. Restoring(o, c) = Upto(w, k)
  BY <1>3, <1>7 DEF Restoring
<1>9. Stored(o, c, n)
  <2>1. c.snap = a.snap /\ c.base = a.base /\ c.seq = a.seq + 1 /\ a.seq \in Nat
    BY DEF AddsSegment, Manifests
  <2>2. keep = <<>> \/ keep = a.segs
    BY DEF Based
  <2>3. seg.key.kind = "wal" /\ seg.key.seq = a.seq + 1 /\ seg.key.token = n
    BY DEF AddsSegment, ObjKey
  <2>4. ASSUME NEW i \in 1..Len(c.segs)
        PROVE  /\ c.segs[i].key.kind = "wal" /\ c.segs[i].key \in DOMAIN o
               /\ c.segs[i].key.token <= n /\ c.segs[i].key.seq <= c.seq
    <3>1. CASE i = Len(keep) + 1
      <4>1. c.segs[i] = seg
        BY <1>3, <3>1
      <4> QED BY <1>2, <2>1, <2>3, <4>1
    <3>2. CASE i # Len(keep) + 1
      <4>1. i \in 1..Len(keep)
        BY <1>3, <3>2
      <4>2. c.segs[i] = keep[i]
        BY <1>3, <4>1
      <4>3. keep = a.segs
        BY <1>3, <2>2, <4>1
      <4>4. a.segs[i].key \in KeysIn(a)
        BY <4>1, <4>3 DEF KeysIn
      <4>5. /\ a.segs[i].key.kind = "wal" /\ a.segs[i].key \in DOMAIN o
            /\ a.segs[i].key.token <= n /\ a.segs[i].key.seq <= a.seq
        BY <4>1, <4>3, <4>4 DEF Stored
      <4>6. a.segs[i].key.seq \in Nat
        <5>1. a.segs \in Seq(Segs)
          BY DEF Manifests
        <5>2. a.segs[i] \in Segs
          BY <4>1, <4>3, <5>1, SegsMean
        <5> QED BY <5>2 DEF Segs, Keys
      <4> QED BY <2>1, <4>2, <4>3, <4>5, <4>6
    <3> QED BY <3>1, <3>2
  <2>5. a.snap \in KeysIn(a)
    BY DEF KeysIn
  <2>6. /\ a.snap \in DOMAIN o /\ a.snap.kind = "snap" /\ a.snap.token <= n /\ a.snap.seq <= a.seq
        /\ a.base <= Len(o[a.snap]) /\ (a.base = 0 \/ o[a.snap][a.base].what # "pad")
    BY <2>5 DEF Stored
  <2>7. a.snap.seq \in Nat
    BY DEF Manifests, Keys
  <2>8. a.snap.seq <= c.seq
    BY <2>1, <2>6, <2>7
  <2> QED BY <2>1, <2>4, <2>6, <2>8 DEF Stored, KeysIn
<1> QED BY <1>4, <1>6, <1>7, <1>8, <1>9

LEMMA SnapshotRestores ==
  ASSUME NEW o, Objects(o), NEW a \in Manifests, NEW n \in Nat, NEW w \in Wal,
         NEW c \in Manifests, IsSnapshot(c, a, n, w),
         NEW k, SnapshotReaches(o, c, w, k)
  PROVE  /\ Stored(o, c, n)
         /\ Lead(o, c) = Upto(w, c.base)
         /\ Lead(o, c) \o Joined(o, c.segs) = Upto(w, c.base)
         /\ Restoring(o, c) = Upto(w, k)
         /\ c.base \in 1..Len(w)
         /\ k \in 0..Len(w)
<1>1. /\ c.base \in 1..Len(w) /\ w[c.base].what = "checkpoint"
      /\ c.snap = ObjKey("snap", a.seq + 1, n) /\ c.segs = <<>> /\ c.seq = a.seq + 1 /\ a.seq \in Nat
  BY DEF IsSnapshot, Manifests
<1>2. c.snap \in DOMAIN o /\ k \in c.base..Len(w) /\ o[c.snap] = Upto(w, k)
  BY DEF SnapshotReaches
<1>3. Len(w) \in Nat
  BY LenProperties DEF Wal
<1>4. k \in 0..Len(w) /\ c.base \in 0..k /\ c.base \in 0..Len(w)
  BY <1>1, <1>2, <1>3
<1>5. /\ Upto(w, k) \in Wal /\ Len(Upto(w, k)) = k /\ \A i \in 1..k : Upto(w, k)[i] = w[i]
  BY <1>4, UptoMeans
<1>6. Lead(o, c) = Upto(w, c.base)
  <2>1. Extends(w, Upto(w, k))
    BY <1>4, <1>5 DEF Extends
  <2>2. Upto(w, c.base) = Upto(Upto(w, k), c.base)
    BY <1>4, <1>5, <2>1, UptoSame
  <2> QED BY <1>2, <2>2 DEF Lead
<1>7. Lead(o, c) \o Joined(o, c.segs) = Upto(w, c.base)
  <2>1. Upto(w, c.base) \in Seq(Recs)
    BY <1>4, UptoMeans DEF Wal
  <2> QED BY <1>1, <1>6, <2>1, JoinedEmpty, ConcatEmptySeq
<1>8. Stored(o, c, n)
  <2>1. KeysIn(c) = {c.snap} /\ Len(c.segs) = 0
    BY <1>1 DEF KeysIn
  <2>2. c.snap.kind = "snap" /\ c.snap.token = n /\ c.snap.seq = c.seq
    BY <1>1 DEF ObjKey
  <2>3. c.base <= Len(o[c.snap]) /\ o[c.snap][c.base].what # "pad"
    <3>1. c.base \in 1..k
      BY <1>1, <1>4
    <3> QED BY <1>1, <1>2, <1>5, <3>1
  <2>4. n <= n /\ c.seq <= c.seq /\ c.seq \in Nat
    BY <1>1
  <2> QED BY <1>1, <1>2, <2>1, <2>2, <2>3, <2>4 DEF Stored
<1> QED BY <1>1, <1>2, <1>4, <1>6, <1>7, <1>8 DEF Restoring

----------------------------------------------------------------------------
(* The life that runs.                                                     *)

(* A commit keeps no inherited segments: it starts at the snapshot's end.  *)
KeepOf(a, f) == IF f THEN <<>> ELSE a.segs
StartOf(a, f, sh) == IF f THEN a.base ELSE sh

(* Its WAL w goes back to what its manifest a restores: all of it once it  *)
(* has committed, what precedes the inherited segments before.             *)
Lived(o, a, n, w, lb, f, sh) ==
    /\ lb \in 1..Len(w) /\ w[Len(w)].life = n /\ Untorn(w)
    /\ Stored(o, a, n)
    /\ Based(o, a, KeepOf(a, f), StartOf(a, f, sh), w)
    /\ f \/ \E k \in 0..Len(w) : Restoring(o, a) = Upto(w, k)

(* The bucket's manifest mf is the one it has, or the one its last swap    *)
(* made without hearing of it.                                             *)
Seen(o, mf, a, n, w, lb, f, sh) ==
    \/ mf = a /\ (f => Replayed(Restoring(o, a)) = Upto(w, lb - 1))
    \/ /\ mf.etag # a.etag
       /\ \E seg, k : /\ AddsSegment(mf, a, KeepOf(a, f), n, seg)
                      /\ SegmentReaches(o, seg, StartOf(a, f, sh), w, k)
    \/ /\ mf.etag # a.etag
       /\ IsSnapshot(mf, a, n, w)
       /\ \E k : SnapshotReaches(o, mf, w, k)

(* The commit c under way: what it ships, and that it takes the bucket no  *)
(* shorter way than it is, if it can land.                                 *)
MayLand(c, mf, a) == c.phase = "uploading" \/ mf.etag = a.etag

SendsSegment(o, mf, a, n, w, f, sh, c, seg) ==
    /\ AddsSegment(c.m, a, KeepOf(a, f), n, seg)
    /\ c.key = seg.key
    /\ seg.end \in StartOf(a, f, sh)..Len(w)
    /\ seg.body = From(w, StartOf(a, f, sh), seg.end)
    /\ c.phase = "swapping" => seg.key \in DOMAIN o /\ o[seg.key] = seg.body
    /\ MayLand(c, mf, a) => Len(Replayed(Restoring(o, mf))) <= seg.end

SendsSnapshot(o, mf, a, n, w, c) ==
    /\ IsSnapshot(c.m, a, n, w)
    /\ c.key = c.m.snap
    /\ mf.base <= c.m.base
    /\ c.phase = "swapping" => \E k : SnapshotReaches(o, c.m, w, k)
    /\ MayLand(c, mf, a) => Len(Replayed(Restoring(o, mf))) <= c.m.base

Sends(o, mf, a, n, w, f, sh, c) ==
    \/ \E seg : SendsSegment(o, mf, a, n, w, f, sh, c, seg)
    \/ SendsSnapshot(o, mf, a, n, w, c)

(* All of it stays as the WAL grows.                                       *)
LEMMA ExtendsMeans ==
  ASSUME NEW v \in Wal, NEW w \in Wal, Extends(w, v)
  PROVE  /\ Len(v) \in Nat /\ Len(w) \in Nat /\ Len(v) <= Len(w)
         /\ \A k \in 0..Len(v) : k \in 0..Len(w) /\ Upto(w, k) = Upto(v, k)
         /\ \A j \in 0..Len(v) : \A k \in j..Len(v) : k \in j..Len(w) /\ From(w, j, k) = From(v, j, k)
         /\ \A k \in 1..Len(v) : k \in 1..Len(w) /\ w[k] = v[k]
<1>1. Len(v) \in Nat /\ Len(w) \in Nat /\ Len(v) <= Len(w)
  BY LenProperties DEF Wal, Extends
<1>2. \A k \in 0..Len(v) : k \in 0..Len(w) /\ Upto(w, k) = Upto(v, k)
  BY UptoSame
<1>3. \A j \in 0..Len(v) : \A k \in j..Len(v) : From(w, j, k) = From(v, j, k)
  BY FromSame
<1>4. \A k \in 1..Len(v) : w[k] = v[k]
  BY DEF Extends
<1>5. \A k \in 1..Len(v) : k \in 1..Len(w)
  BY <1>1
<1>6. \A j \in 0..Len(v) : \A k \in j..Len(v) : k \in j..Len(w)
  BY <1>1
<1> QED BY <1>1, <1>2, <1>3, <1>4, <1>5, <1>6

LEMMA LivedGrows ==
  ASSUME NEW v \in Wal, NEW w \in Wal, Extends(w, v), Untorn(w),
         NEW o, NEW a, NEW n, NEW lb, NEW f, NEW sh,
         w[Len(w)].life = n, Lived(o, a, n, v, lb, f, sh)
  PROVE  Lived(o, a, n, w, lb, f, sh)
<1>1. lb \in 1..Len(w)
  BY ExtendsMeans DEF Lived
<1>2. Based(o, a, KeepOf(a, f), StartOf(a, f, sh), w)
  BY ExtendsMeans DEF Lived, Based
<1>3. f \/ \E k \in 0..Len(w) : Restoring(o, a) = Upto(w, k)
  BY ExtendsMeans DEF Lived
<1> QED BY <1>1, <1>2, <1>3 DEF Lived

LEMMA SegmentReachesGrows ==
  ASSUME NEW v \in Wal, NEW w \in Wal, Extends(w, v), NEW o, NEW seg,
         NEW start \in 0..Len(v), NEW k, SegmentReaches(o, seg, start, v, k)
  PROVE  SegmentReaches(o, seg, start, w, k)
  BY ExtendsMeans DEF SegmentReaches

LEMMA IsSnapshotGrows ==
  ASSUME NEW v \in Wal, NEW w \in Wal, Extends(w, v), NEW c, NEW a, NEW n, IsSnapshot(c, a, n, v)
  PROVE  IsSnapshot(c, a, n, w)
  BY ExtendsMeans DEF IsSnapshot

LEMMA SnapshotReachesGrows ==
  ASSUME NEW v \in Wal, NEW w \in Wal, Extends(w, v), NEW o, NEW c,
         c.base \in 1..Len(v), NEW k, SnapshotReaches(o, c, v, k)
  PROVE  SnapshotReaches(o, c, w, k)
<1>1. k \in c.base..Len(v) /\ c.base \in 0..Len(v) /\ k \in 0..Len(v)
  BY ExtendsMeans DEF SnapshotReaches
<1>2. k \in c.base..Len(w) /\ Upto(w, k) = Upto(v, k)
  BY <1>1, ExtendsMeans
<1> QED BY <1>2 DEF SnapshotReaches

LEMMA SeenGrows ==
  ASSUME NEW v \in Wal, NEW w \in Wal, Extends(w, v),
         NEW o, NEW mf, NEW a, NEW n, NEW lb, NEW f, NEW sh,
         Lived(o, a, n, v, lb, f, sh), Seen(o, mf, a, n, v, lb, f, sh)
  PROVE  Seen(o, mf, a, n, w, lb, f, sh)
<1>1. CASE mf = a /\ (f => Replayed(Restoring(o, a)) = Upto(v, lb - 1))
  <2>1. lb \in 1..Len(v) /\ lb - 1 \in 0..Len(v)
    BY ExtendsMeans DEF Lived
  <2>2. Upto(w, lb - 1) = Upto(v, lb - 1)
    BY <2>1, ExtendsMeans
  <2> QED BY <1>1, <2>2 DEF Seen
<1>2. ASSUME mf.etag # a.etag, NEW seg, NEW k, AddsSegment(mf, a, KeepOf(a, f), n, seg),
             SegmentReaches(o, seg, StartOf(a, f, sh), v, k)
      PROVE  Seen(o, mf, a, n, w, lb, f, sh)
  <2>1. StartOf(a, f, sh) \in 0..Len(v)
    BY DEF Lived, Based
  <2>2. SegmentReaches(o, seg, StartOf(a, f, sh), w, k)
    BY <1>2, <2>1, SegmentReachesGrows
  <2> QED BY <1>2, <2>2 DEF Seen
<1>3. ASSUME mf.etag # a.etag, IsSnapshot(mf, a, n, v), NEW k, SnapshotReaches(o, mf, v, k)
      PROVE  Seen(o, mf, a, n, w, lb, f, sh)
  <2>1. IsSnapshot(mf, a, n, w)
    BY <1>3, IsSnapshotGrows
  <2>2. mf.base \in 1..Len(v)
    BY <1>3 DEF IsSnapshot
  <2>3. SnapshotReaches(o, mf, w, k)
    BY <1>3, <2>2, SnapshotReachesGrows
  <2> QED BY <1>3, <2>1, <2>3 DEF Seen
<1> QED BY <1>1, <1>2, <1>3 DEF Seen

LEMMA SendsGrows ==
  ASSUME NEW v \in Wal, NEW w \in Wal, Extends(w, v),
         NEW o, NEW mf, NEW a, NEW n, NEW lb, NEW f, NEW sh, NEW c,
         Lived(o, a, n, v, lb, f, sh), Sends(o, mf, a, n, v, f, sh, c)
  PROVE  Sends(o, mf, a, n, w, f, sh, c)
<1>1. ASSUME NEW seg, SendsSegment(o, mf, a, n, v, f, sh, c, seg)
      PROVE  SendsSegment(o, mf, a, n, w, f, sh, c, seg)
  <2>1. StartOf(a, f, sh) \in 0..Len(v) /\ seg.end \in StartOf(a, f, sh)..Len(v)
    BY <1>1 DEF Lived, Based, SendsSegment
  <2>2. /\ seg.end \in StartOf(a, f, sh)..Len(w)
        /\ From(w, StartOf(a, f, sh), seg.end) = From(v, StartOf(a, f, sh), seg.end)
    BY <2>1, ExtendsMeans
  <2> QED BY <1>1, <2>2 DEF SendsSegment
<1>2. ASSUME SendsSnapshot(o, mf, a, n, v, c)
      PROVE  SendsSnapshot(o, mf, a, n, w, c)
  <2>0. IsSnapshot(c.m, a, n, v)
    BY <1>2 DEF SendsSnapshot
  <2>1. IsSnapshot(c.m, a, n, w)
    BY <2>0, IsSnapshotGrows
  <2>3. c.m.base \in 1..Len(v)
    BY <2>0 DEF IsSnapshot
  <2>2. \A k : SnapshotReaches(o, c.m, v, k) => SnapshotReaches(o, c.m, w, k)
    BY <2>3, SnapshotReachesGrows
  <2> QED BY <1>2, <2>1, <2>2 DEF SendsSnapshot
<1> QED BY <1>1, <1>2 DEF Sends

(* What the bucket restores is a prefix of the WAL, or was before the life *)
(* added its checkpoint; what it replays is one in either case.            *)
LEMMA BucketReaches ==
  ASSUME NEW o, Objects(o), NEW mf \in Manifests, NEW a \in Manifests, NEW n \in Nat, NEW w \in Wal,
         NEW lb, NEW f, NEW sh, Lived(o, a, n, w, lb, f, sh), Seen(o, mf, a, n, w, lb, f, sh),
         ~(f /\ mf = a)
  PROVE  \E k \in 0..Len(w) : Restoring(o, mf) = Upto(w, k)
<1>1. Stored(o, a, n) /\ Based(o, a, KeepOf(a, f), StartOf(a, f, sh), w)
  BY DEF Lived
<1>2. CASE mf = a
  BY <1>2 DEF Lived
<1>3. ASSUME NEW seg, NEW k, AddsSegment(mf, a, KeepOf(a, f), n, seg),
             SegmentReaches(o, seg, StartOf(a, f, sh), w, k)
      PROVE  \E j \in 0..Len(w) : Restoring(o, mf) = Upto(w, j)
  <2>1. Restoring(o, mf) = Upto(w, k) /\ k \in 0..Len(w)
    BY <1>1, <1>3, SegmentRestores
  <2> QED BY <2>1
<1>4. ASSUME IsSnapshot(mf, a, n, w), NEW k, SnapshotReaches(o, mf, w, k)
      PROVE  \E j \in 0..Len(w) : Restoring(o, mf) = Upto(w, j)
  <2>1. Restoring(o, mf) = Upto(w, k) /\ k \in 0..Len(w)
    BY <1>4, SnapshotRestores
  <2> QED BY <2>1
<1> QED BY <1>2, <1>3, <1>4 DEF Seen

LEMMA ReplayedUpto ==
  ASSUME NEW w \in Wal, Untorn(w), NEW k \in 0..Len(w)
  PROVE  \E n \in 0..k : n \in 0..Len(w) /\ Replayed(Upto(w, k)) = Upto(w, n)
<1>1. Upto(w, k) \in Wal /\ Len(Upto(w, k)) = k /\ \A i \in 1..k : Upto(w, k)[i] = w[i]
  BY UptoMeans
<1>2. Untorn(Upto(w, k))
  BY UntornUpto
<1>3. PICK n \in 0..k : Replayed(Upto(w, k)) = Upto(Upto(w, k), n)
  BY <1>1, <1>2, ReplayedMeans
<1>4. Len(w) \in Nat
  BY LenProperties DEF Wal
<1>5. Extends(w, Upto(w, k))
  BY <1>1, <1>4 DEF Extends
<1>6. n \in 0..Len(w) /\ Upto(w, n) = Upto(Upto(w, k), n)
  BY <1>1, <1>3, <1>5, UptoSame
<1> QED BY <1>3, <1>6

LEMMA BucketReplays ==
  ASSUME NEW o, Objects(o), NEW mf \in Manifests, NEW a \in Manifests, NEW n \in Nat, NEW w \in Wal,
         NEW lb, NEW f, NEW sh, Lived(o, a, n, w, lb, f, sh), Seen(o, mf, a, n, w, lb, f, sh)
  PROVE  \E k \in 0..Len(w) : Replayed(Restoring(o, mf)) = Upto(w, k)
<1>1. CASE f /\ mf = a
  <2>1. CASE Replayed(Restoring(o, a)) = Upto(w, lb - 1)
    <3>1. lb \in 1..Len(w) /\ Len(w) \in Nat
      BY LenProperties DEF Lived, Wal
    <3>2. lb - 1 \in 0..Len(w)
      BY <3>1
    <3> QED BY <1>1, <2>1, <3>2
  <2>2. CASE mf.etag # a.etag
    BY <1>1, <2>2
  <2> QED BY <1>1, <2>1, <2>2 DEF Seen
<1>2. CASE ~(f /\ mf = a)
  <2>1. PICK k \in 0..Len(w) : Restoring(o, mf) = Upto(w, k)
    BY <1>2, BucketReaches
  <2>2. Untorn(w)
    BY DEF Lived
  <2> QED BY <2>1, <2>2, ReplayedUpto
<1> QED BY <1>1, <1>2

LEMMA SeenBase ==
  ASSUME NEW o, NEW mf, NEW a, NEW n, NEW w \in Wal, NEW lb, NEW f, NEW sh,
         Lived(o, a, n, w, lb, f, sh), Seen(o, mf, a, n, w, lb, f, sh)
  PROVE  mf.base \in 0..Len(w)
<1>1. a.base \in 0..Len(w)
  BY DEF Lived, Based
<1>2. ASSUME NEW seg, AddsSegment(mf, a, KeepOf(a, f), n, seg)
      PROVE  mf.base = a.base
  BY <1>2 DEF AddsSegment
<1>3. ASSUME IsSnapshot(mf, a, n, w)
      PROVE  mf.base \in 0..Len(w)
  BY <1>3 DEF IsSnapshot
<1> QED BY <1>1, <1>2, <1>3 DEF Seen

(* Life goes on from other objects that are the same for its manifest.     *)
LEMMA LivedSame ==
  ASSUME NEW o, NEW p, NEW a \in Manifests, NEW n \in Nat, NEW w, NEW lb, NEW f, NEW sh,
         Lived(o, a, n, w, lb, f, sh), KeysIn(a) \subseteq DOMAIN p, \A k \in KeysIn(a) : p[k] = o[k]
  PROVE  Lived(p, a, n, w, lb, f, sh)
<1>1. /\ Lead(p, a) = Lead(o, a) /\ Joined(p, a.segs) = Joined(o, a.segs)
      /\ Restoring(p, a) = Restoring(o, a)
  BY RestoringSame
<1>2. Stored(p, a, n)
  BY StoredSame DEF Lived
<1>3. Joined(p, KeepOf(a, f)) = Joined(o, KeepOf(a, f))
  BY <1>1, JoinedEmpty DEF KeepOf
<1>4. Based(p, a, KeepOf(a, f), StartOf(a, f, sh), w)
  BY <1>1, <1>3 DEF Lived, Based
<1> QED BY <1>1, <1>2, <1>4 DEF Lived

(* One more record of the same life.                                       *)
LEMMA AppendGrows ==
  ASSUME NEW v \in Wal, Untorn(v), NEW x \in Recs,
         Len(v) = 0 \/ v[Len(v)].life = x.life \/ x.what = "checkpoint"
  PROVE  /\ Append(v, x) \in Wal /\ Len(Append(v, x)) = Len(v) + 1 /\ Len(v) \in Nat
         /\ Extends(Append(v, x), v) /\ Untorn(Append(v, x))
         /\ Append(v, x)[Len(Append(v, x))] = x
<1> DEFINE w == Append(v, x)
<1>1. /\ w \in Wal /\ Len(w) = Len(v) + 1 /\ Len(v) \in Nat /\ w[Len(v) + 1] = x
      /\ \A i \in 1..Len(v) : w[i] = v[i]
  <2>1. v \in Seq(Recs)
    BY DEF Wal
  <2> HIDE DEF Recs
  <2>2. /\ Append(v, x) \in Seq(Recs) /\ Len(Append(v, x)) = Len(v) + 1
        /\ Append(v, x)[Len(v) + 1] = x /\ \A i \in 1..Len(v) : Append(v, x)[i] = v[i]
    BY <2>1, AppendProperties
  <2>3. Len(v) \in Nat
    BY <2>1, LenProperties
  <2> QED BY <2>2, <2>3 DEF Wal
<1>2. DOMAIN w = 1..(Len(v) + 1) /\ DOMAIN v = 1..Len(v)
  <2> HIDE DEF w
  <2> QED BY <1>1, LenProperties DEF Wal
<1> HIDE DEF w
<1>3. Extends(w, v)
  BY <1>1 DEF Extends
<1>4. ASSUME NEW i \in 1..(Len(v) + 1) PROVE Follows(w, i)
  <2>1. CASE i = Len(v) + 1
    <3>1. Len(v) = 0 => i = 1
      BY <2>1
    <3>2. Len(v) # 0 => i - 1 \in 1..Len(v) /\ i - 1 = Len(v)
      BY <1>1, <2>1
    <3> QED BY <1>1, <2>1, <3>1, <3>2 DEF Follows
  <2>2. CASE i # Len(v) + 1
    <3>1. i \in 1..Len(v) /\ (i # 1 => i - 1 \in 1..Len(v))
      BY <1>1, <2>2
    <3>2. Follows(v, i)
      BY <1>2, <3>1 DEF Untorn
    <3> QED BY <1>1, <3>1, <3>2 DEF Follows
  <2> QED BY <2>1, <2>2
<1>5. Untorn(w)
  BY <1>2, <1>4 DEF Untorn
<1> QED BY <1>1, <1>3, <1>5 DEF w

LEMMA GrowsNothing ==
  ASSUME NEW v \in Wal
  PROVE  Extends(v, v)
<1>1. Len(v) \in Nat
  BY LenProperties DEF Wal
<1> QED BY <1>1 DEF Extends

(* The rows that replay, as what replays grows.                            *)
LEMMA RowsGrow ==
  ASSUME NEW s \in Wal, Untorn(s), NEW w \in Wal, Untorn(w),
         NEW j \in 0..Len(w), NEW k \in 0..Len(w), Replayed(s) = Upto(w, j), j <= k
  PROVE  Rows(Replayed(s)) \subseteq Rows(Replayed(Upto(w, k)))
<1>1. Rows(Replayed(s)) = {w[i].req : i \in {x \in 1..j : w[x].what = "row"}}
  BY RowsUpto
<1>2. Upto(w, k) \in Wal /\ Untorn(Upto(w, k))
  BY UptoMeans, UntornUpto
<1>3. Rows(Replayed(Upto(w, k))) = Rows(Upto(w, k))
  BY <1>2, ReplayedRows
<1>4. Rows(Upto(w, k)) = {w[i].req : i \in {x \in 1..k : w[x].what = "row"}}
  BY RowsUpto
<1>5. Len(w) \in Nat
  BY LenProperties DEF Wal
<1>6. \A x \in 1..j : x \in 1..k
  BY <1>5
<1> QED BY <1>1, <1>3, <1>4, <1>6

----------------------------------------------------------------------------
(* The invariant.                                                          *)

Running == state \in {"up", "closing"}

Underway == {"uploading", "swapping"}

Commits == {NoCommit, [phase |-> "pacing"]} \cup [phase : Underway, key : Keys, m : Manifests]

Types ==
    /\ manifest \in Manifests /\ Objects(objs)
    /\ state \in {"down", "up", "closing", "bricked"}
    /\ life \in Nat /\ pads \in Nat
    /\ wal \in Wal /\ man \in Manifests /\ shipped \in Nat /\ lifeBase \in Nat
    /\ dirty \in BOOLEAN /\ force \in BOOLEAN
    /\ commit \in Commits
    /\ commit # NoCommit => Running

BucketOk == Stored(objs, manifest, life) /\ Untorn(Restoring(objs, manifest))

LifeOk ==
    Running => /\ Lived(objs, man, life, wal, lifeBase, force, shipped)
               /\ Seen(objs, manifest, man, life, wal, lifeBase, force, shipped)

CommitOk ==
    commit.phase \in Underway => Sends(objs, manifest, man, life, wal, force, shipped, commit)

Proper == Types /\ BucketOk /\ LifeOk /\ CommitOk

LEMMA CommitTypes ==
  ASSUME Types, commit.phase \in Underway
  PROVE  commit \in [phase : Underway, key : Keys, m : Manifests] /\ Running
<1>1. commit # NoCommit /\ commit # [phase |-> "pacing"]
  BY DEF NoCommit, Underway
<1> QED BY <1>1 DEF Types, Commits

LEMMA RecsAre ==
  ASSUME NEW n \in Nat
  PROVE  /\ Ckpt(n) \in Recs /\ Ckpt(n).what = "checkpoint" /\ Ckpt(n).life = n
         /\ [what |-> "pad", req |-> NoReq, life |-> n] \in Recs
         /\ \A r \in Req \ Idle : [what |-> "row", req |-> r, life |-> n] \in Recs
  BY DEF Recs, Ckpt, NoReq

LEMMA InitProper == Init => Proper
<1> SUFFICES ASSUME Init PROVE Proper
  OBVIOUS
<1> DEFINE k0 == ObjKey("snap", 0, 0)
<1>1. k0 \in Keys /\ k0.kind = "snap" /\ k0.seq = 0 /\ k0.token = 0
  BY DEF ObjKey, Keys
<1>2. <<>> \in Wal /\ <<>> \in Seq(Segs)
  BY DEF Wal
<1>3. DOMAIN objs = {k0} /\ objs[k0] = <<>>
  BY DEF Init
<1>4. Objects(objs)
  BY <1>1, <1>2, <1>3 DEF Objects
<1>5. /\ manifest = [etag |-> 1, seq |-> 0, snap |-> k0, base |-> 0, segs |-> <<>>] /\ man = manifest
      /\ manifest \in Manifests
  BY <1>1, <1>2 DEF Init, Manifests
<1>6. Types
  BY <1>2, <1>4, <1>5 DEF Init, Types, Commits, NoCommit
<1>7. Stored(objs, manifest, life)
  BY <1>1, <1>3, <1>5 DEF Stored, KeysIn, Init
<1>8. Restoring(objs, manifest) = <<>>
  BY <1>3, <1>5 DEF Restoring
<1>9. Untorn(<<>>)
  BY DEF Untorn
<1>10. ~Running /\ commit.phase \notin Underway
  BY DEF Init, Running, Underway, NoCommit
<1> QED BY <1>6, <1>7, <1>8, <1>9, <1>10 DEF Proper, BucketOk, LifeOk, CommitOk

(* A step that leaves the bucket, the WAL and the fields it is about.      *)
LEMMA QuietStep ==
  ASSUME Proper, Types', UNCHANGED <<manifest, objs, life, wal, man, shipped, lifeBase, force>>,
         Running' => Running, commit'.phase \in Underway => commit' = commit
  PROVE  Proper'
<1>1. BucketOk'
  BY DEF Proper, BucketOk
<1>2. LifeOk'
  BY DEF Proper, LifeOk
<1>3. CommitOk'
  BY DEF Proper, CommitOk
<1> QED BY <1>1, <1>2, <1>3 DEF Proper

(* The WAL grows.                                                          *)
LEMMA GrowStep ==
  ASSUME Proper, Running, Types', UNCHANGED <<manifest, objs, life, man, shipped, lifeBase, force>>,
         Extends(wal', wal), Untorn(wal'), wal'[Len(wal')].life = life
  PROVE  BucketOk' /\ LifeOk' /\ (commit' = commit => CommitOk')
<1>1. BucketOk'
  BY DEF Proper, BucketOk
<1>2. wal \in Wal /\ wal' \in Wal
  BY DEF Proper, Types
<1>3. /\ Lived(objs, man, life, wal, lifeBase, force, shipped)
      /\ Seen(objs, manifest, man, life, wal, lifeBase, force, shipped)
  BY DEF Proper, LifeOk
<1>4. Lived(objs, man, life, wal', lifeBase, force, shipped)
  BY <1>2, <1>3, LivedGrows
<1>5. Seen(objs, manifest, man, life, wal', lifeBase, force, shipped)
  BY <1>2, <1>3, SeenGrows
<1>6. ASSUME Sends(objs, manifest, man, life, wal, force, shipped, commit)
      PROVE  Sends(objs, manifest, man, life, wal', force, shipped, commit)
  BY <1>2, <1>3, <1>6, SendsGrows
<1>7. LifeOk'
  BY <1>4, <1>5 DEF LifeOk
<1>8. commit' = commit => CommitOk'
  BY <1>6 DEF Proper, CommitOk
<1> QED BY <1>1, <1>7, <1>8

----------------------------------------------------------------------------
(* Each action keeps it.                                                   *)

LEMMA BootProper == Proper /\ Boot => Proper'
<1> SUFFICES ASSUME Proper, Boot PROVE Proper'
  OBVIOUS
<1>1. state = "down" /\ ~Running /\ commit = NoCommit /\ life' = life + 1 /\ life \in Nat
  BY DEF Boot, Running, Proper, Types
<1>2. commit' = NoCommit /\ commit'.phase \notin Underway
  BY <1>1 DEF Boot, NoCommit, Underway
<1>3. manifest' = manifest /\ objs' = objs /\ manifest \in Manifests /\ Objects(objs)
  BY DEF Boot, bucket, Proper, Types
<1>4. Stored(objs, manifest, life + 1) /\ Untorn(Restoring(objs, manifest))
  <2>1. Stored(objs, manifest, life)
    BY DEF Proper, BucketOk
  <2>2. \A k \in KeysIn(manifest) : k.token <= life + 1
    <3>1. ASSUME NEW k \in KeysIn(manifest) PROVE k.token \in Nat
      <4>1. manifest.snap \in Keys
        BY <1>3 DEF Manifests
      <4>2. manifest.segs \in Seq(Segs)
        BY <1>3 DEF Manifests
      <4>3. \A i \in 1..Len(manifest.segs) : manifest.segs[i].key \in Keys
        BY <4>2, SegsMean DEF Segs
      <4>4. k \in Keys
        BY <4>1, <4>3 DEF KeysIn
      <4> QED BY <4>4 DEF Keys
    <3> QED BY <1>1, <2>1, <3>1 DEF Stored
  <2> QED BY <2>1, <2>2 DEF Stored, Proper, BucketOk
<1>5. pads' \in Nat /\ dirty' \in BOOLEAN
  BY DEF Boot, Proper, Types
<1>6. CASE /\ state' = "up" /\ man' = manifest /\ wal' = Recovered(manifest, life + 1)
           /\ shipped' = IF manifest.segs = <<>> THEN manifest.base ELSE Last(manifest.segs).end
           /\ lifeBase' = Len(wal') /\ force' = TRUE
  <2> DEFINE s == Restoring(objs, manifest)
             r == Replayed(s)
             b == manifest.base
  <2>1. /\ s \in Wal /\ b \in 0..Len(s) /\ Lead(objs, manifest) = Upto(s, b)
        /\ b = 0 \/ s[b].what # "pad"
    BY <1>1, <1>3, <1>4, RestoringMeans
  <2>2. PICK n \in 0..Len(s) : /\ r = Upto(s, n)
                               /\ \A i \in 1..Len(s) : s[i].what # "pad" => i <= n
    <3> HIDE DEF s
    <3> QED BY <2>1, <1>4, ReplayedMeans DEF s
  <2>3. wal' = Append(r, Ckpt(life + 1))
    BY <1>6, RestoredIs DEF Recovered
  <2>4. Untorn(s)
    BY <1>4
  <2> HIDE DEF s
  <2>5. Len(s) \in Nat /\ b \in Nat /\ n \in Nat
    BY <2>1, LenProperties DEF Wal
  <2>6. /\ r \in Wal /\ Len(r) = n /\ Untorn(r) /\ \A i \in 1..n : r[i] = s[i]
    BY <2>1, <2>2, <2>4, UptoMeans, UntornUpto
  <2>7. b <= n
    <3>1. CASE b = 0
      BY <2>5, <3>1
    <3>2. CASE b # 0
      <4>1. b \in 1..Len(s)
        BY <2>1, <2>5, <3>2
      <4> QED BY <2>1, <2>2, <3>2, <4>1
    <3> QED BY <3>1, <3>2
  <2> HIDE DEF r, b
  <2>8. life + 1 \in Nat
    BY <1>1
  <2>9. Ckpt(life + 1) \in Recs /\ Ckpt(life + 1).what = "checkpoint" /\ Ckpt(life + 1).life = life + 1
    BY <2>8, RecsAre
  <2>10. /\ wal' \in Wal /\ Len(wal') = n + 1 /\ Extends(wal', r) /\ Untorn(wal')
         /\ wal'[Len(wal')] = Ckpt(life + 1)
    BY <2>3, <2>6, <2>9, AppendGrows
  <2>11. Upto(wal', b) = Lead(objs, manifest) /\ b \in 0..Len(wal')
    <3>1. b \in 0..n /\ b \in 0..Len(s)
      BY <2>5, <2>7, <2>1
    <3>2. Upto(wal', b) = Upto(r, b) /\ b \in 0..Len(wal')
      BY <2>6, <2>10, <3>1, UptoSame
    <3>3. Extends(s, r)
      BY <2>2, <2>5, <2>6 DEF Extends
    <3>4. Upto(s, b) = Upto(r, b)
      BY <2>1, <2>6, <3>1, <3>3, UptoSame
    <3> QED BY <2>1, <3>2, <3>4
  <2>12. Upto(wal', n) = r
    <3>1. n \in 0..Len(r)
      BY <2>5, <2>6
    <3>2. Upto(wal', n) = Upto(r, n)
      BY <2>6, <2>10, <3>1, UptoSame
    <3> QED BY <2>6, <3>2, UptoAll
  <2>13. Based(objs, manifest, <<>>, manifest.base, wal')
    <3>1. Lead(objs, manifest) \in Wal
      BY <1>1, <1>3, <1>4, RestoringMeans
    <3>2. Lead(objs, manifest) \o Joined(objs, <<>>) = Lead(objs, manifest)
      BY <3>1, JoinedEmpty, ConcatEmptySeq DEF Wal
    <3> QED BY <2>11, <3>2 DEF Based, b
  <2>14. Lived(objs, manifest, life + 1, wal', lifeBase', TRUE, shipped')
    <3>1. lifeBase' \in 1..Len(wal')
      BY <1>6, <2>5, <2>10
    <3> QED BY <1>4, <2>9, <2>10, <2>13, <3>1 DEF Lived, KeepOf, StartOf
  <2>15. Seen(objs, manifest, manifest, life + 1, wal', lifeBase', TRUE, shipped')
    <3>1. lifeBase' - 1 = n
      BY <1>6, <2>5, <2>10
    <3> QED BY <2>12, <3>1 DEF Seen, r, s
  <2>16. shipped' \in Nat
    <3>1. manifest.base \in Nat /\ manifest.segs \in Seq(Segs)
      BY <1>3 DEF Manifests
    <3>2. CASE manifest.segs # <<>>
      <4>1. Len(manifest.segs) \in Nat /\ Len(manifest.segs) # 0
        <5> HIDE DEF Segs
        <5> QED BY <3>1, <3>2, EmptySeq, LenProperties
      <4>2. Len(manifest.segs) \in 1..Len(manifest.segs)
        BY <4>1
      <4>3. manifest.segs[Len(manifest.segs)] \in Segs
        BY <3>1, <4>2, SegsMean
      <4>4. shipped' = manifest.segs[Len(manifest.segs)].end
        BY <1>6, <3>2 DEF Last
      <4> QED BY <4>3, <4>4 DEF Segs
    <3> QED BY <1>6, <3>1, <3>2
  <2>17. Types'
    <3>1. lifeBase' \in Nat /\ life' \in Nat /\ dirty' \in BOOLEAN /\ pads' \in Nat
      BY <1>1, <1>6, <1>5, <2>5, <2>10
    <3> QED BY <1>2, <1>3, <1>6, <2>10, <2>16, <3>1 DEF Types, Commits
  <2>18. BucketOk'
    BY <1>1, <1>3, <1>4 DEF BucketOk
  <2>19. LifeOk'
    BY <1>1, <1>3, <1>6, <2>14, <2>15 DEF LifeOk
  <2> QED BY <1>2, <2>17, <2>18, <2>19 DEF Proper, CommitOk
<1>7. CASE state' = "bricked" /\ UNCHANGED <<man, wal, shipped, lifeBase, force>>
  <2>1. ~Running'
    BY <1>7 DEF Running
  <2>2. Types'
    <3>1. wal \in Wal /\ man \in Manifests /\ shipped \in Nat /\ lifeBase \in Nat /\ force \in BOOLEAN
      BY DEF Proper, Types
    <3>2. life' \in Nat
      BY <1>1
    <3> QED BY <1>1, <1>2, <1>3, <1>7, <1>5, <3>1, <3>2 DEF Types, Commits
  <2>3. BucketOk'
    BY <1>1, <1>3, <1>4 DEF BucketOk
  <2> QED BY <1>2, <2>1, <2>2, <2>3 DEF Proper, LifeOk, CommitOk
<1> QED BY <1>6, <1>7 DEF Boot

LEMMA ExecProper ==
  ASSUME NEW q \in Req
  PROVE  Proper /\ Exec(q) => Proper'
<1> SUFFICES ASSUME Proper, Exec(q) PROVE Proper'
  OBVIOUS
<1>1. /\ UNCHANGED <<manifest, objs, state, life, pads, man, shipped, lifeBase, dirty, force, commit>>
      /\ Running /\ Running' /\ commit' = commit
  BY DEF Exec, bucket, fields, Running
<1>2. wal \in Wal /\ Untorn(wal) /\ wal[Len(wal)].life = life /\ life \in Nat
  BY <1>1 DEF Proper, Types, LifeOk, Lived
<1>3. CASE q \in Idle
  <2>1. wal' = wal
    BY <1>3 DEF Exec
  <2>2. Types'
    BY <1>1, <2>1 DEF Proper, Types
  <2> QED BY <1>1, <2>1, <2>2, QuietStep
<1>4. CASE q \notin Idle
  <2>1. wal' = Append(wal, Row(q))
    BY <1>4 DEF Exec
  <2>2. Row(q) \in Recs /\ Row(q).life = life
    BY <1>2, <1>4, RecsAre DEF Row
  <2>3. /\ wal' \in Wal /\ Extends(wal', wal) /\ Untorn(wal') /\ wal'[Len(wal')].life = life
    BY <1>2, <2>1, <2>2, AppendGrows
  <2>4. Types'
    BY <1>1, <2>3 DEF Proper, Types
  <2> QED BY <1>1, <2>3, <2>4, GrowStep DEF Proper
<1> QED BY <1>3, <1>4

LEMMA AfterWriteProper ==
  ASSUME NEW q \in Req
  PROVE  Proper /\ AfterWrite(q) => Proper'
<1> SUFFICES ASSUME Proper, AfterWrite(q) PROVE Proper'
  OBVIOUS
<1>1. /\ UNCHANGED <<manifest, objs, state, life, pads, wal, man, shipped, lifeBase, force>>
      /\ Running /\ Running' /\ dirty' = TRUE
  BY DEF AfterWrite, bucket, Running
<1>2. commit' \in {commit, [phase |-> "pacing"]}
  BY DEF AfterWrite
<1>3. commit'.phase \in Underway => commit' = commit
  BY <1>2 DEF Underway
<1>4. Types'
  BY <1>1, <1>2 DEF Proper, Types, Commits
<1> QED BY <1>1, <1>3, <1>4, QuietStep

LEMMA FlushProper == Proper /\ Flush => Proper'
<1> SUFFICES ASSUME Proper, Flush PROVE Proper'
  OBVIOUS
<1>1. /\ UNCHANGED <<manifest, objs, state, life, pads, wal, man, shipped, lifeBase, dirty, force>>
      /\ Running /\ Running' /\ commit' = [phase |-> "pacing"]
  BY DEF Flush, bucket, fields, Running
<1>2. commit'.phase \notin Underway
  BY <1>1 DEF Underway
<1>3. Types'
  BY <1>1 DEF Proper, Types, Commits
<1> QED BY <1>1, <1>2, <1>3, QuietStep

LEMMA CloseProper == Proper /\ Close => Proper'
<1> SUFFICES ASSUME Proper, Close PROVE Proper'
  OBVIOUS
<1>1. /\ UNCHANGED <<manifest, objs, life, pads, wal, man, shipped, lifeBase, dirty, force>>
      /\ Running /\ state' \in {"closing", "down"}
  BY DEF Close, bucket, fields, Running
<1>2. /\ commit' \in {commit, [phase |-> "pacing"]}
      /\ commit' # NoCommit => Running'
  BY DEF Close, Running, NoCommit
<1>3. commit'.phase \in Underway => commit' = commit
  BY <1>2 DEF Underway
<1>4. Types'
  BY <1>1, <1>2 DEF Proper, Types, Commits
<1> QED BY <1>1, <1>3, <1>4, QuietStep

LEMMA CrashProper == Proper /\ Crash => Proper'
<1> SUFFICES ASSUME Proper, Crash PROVE Proper'
  OBVIOUS
<1>1. /\ UNCHANGED <<manifest, objs, life, pads, wal, man, shipped, lifeBase, dirty, force>>
      /\ Running /\ state' = "down" /\ commit' = NoCommit
  BY DEF Crash, bucket, fields, Running
<1>2. commit'.phase \notin Underway
  BY <1>1 DEF Underway, NoCommit
<1>3. Types'
  BY <1>1 DEF Proper, Types, Commits
<1> QED BY <1>1, <1>2, <1>3, QuietStep

(* A commit with nothing to ship.                                          *)
LEMMA NothingProper == Proper /\ commit # NoCommit /\ Nothing => Proper'
<1> SUFFICES ASSUME Proper, commit # NoCommit, Nothing PROVE Proper'
  OBVIOUS
<1>1. /\ UNCHANGED <<manifest, objs, life, pads, wal, man, shipped, lifeBase, force>>
      /\ dirty' = FALSE /\ commit' = NoCommit
      /\ state' = IF state = "closing" THEN "down" ELSE state
  BY DEF Nothing, Settle, bucket
<1>2. commit'.phase \notin Underway
  BY <1>1 DEF Underway, NoCommit
<1>3. Types'
  BY <1>1 DEF Proper, Types, Commits
<1>4. Running' => Running
  BY <1>1 DEF Running
<1> QED BY <1>1, <1>2, <1>3, <1>4, QuietStep

(* The page header that may follow the last record.                        *)
LEMMA FlushedGrows ==
  ASSUME Proper, Running, NEW flushed \in FlushedWal
  PROVE  /\ flushed \in Wal /\ Extends(flushed, wal) /\ Untorn(flushed)
         /\ flushed[Len(flushed)].life = life /\ Len(flushed) \in Nat /\ Len(wal) \in Nat
         /\ Len(wal) <= Len(flushed)
<1>1. wal \in Wal /\ Untorn(wal) /\ wal[Len(wal)].life = life /\ life \in Nat
  BY DEF Proper, Types, LifeOk, Lived
<1>2. CASE flushed = wal
  <2>1. Len(wal) \in Nat
    BY <1>1, LenProperties DEF Wal
  <2> QED BY <1>1, <1>2, <2>1, GrowsNothing
<1>3. CASE flushed = Append(wal, Pad)
  <2>1. Pad \in Recs /\ Pad.life = life
    BY <1>1, RecsAre DEF Pad
  <2>2. /\ flushed \in Wal /\ Extends(flushed, wal) /\ Untorn(flushed) /\ Len(wal) \in Nat
        /\ Len(flushed) = Len(wal) + 1 /\ flushed[Len(flushed)].life = life
    BY <1>1, <1>3, <2>1, AppendGrows
  <2> QED BY <2>2
<1> QED BY <1>2, <1>3 DEF FlushedWal

(* The LSN up to which the objects of m are written.                       *)
ShippedOf(m) == IF m.segs = <<>> THEN m.base ELSE Last(m.segs).end

(* A range commit starts.                                                  *)
LEMMA ShipProper ==
  ASSUME Proper, Running, UNCHANGED <<manifest, objs, state, life, man, shipped, lifeBase, dirty, force>>,
         NEW flushed \in FlushedWal, ShipRange(StartOf(man, force, shipped), flushed, KeepOf(man, force))
  PROVE  /\ Proper'
         /\ Extends(wal', wal) /\ commit'.phase = "uploading" /\ ShippedOf(commit'.m) = Len(wal')
<1> DEFINE start == StartOf(man, force, shipped)
           keep == KeepOf(man, force)
           key == ObjKey("wal", man.seq + 1, life)
           seg == [key |-> key, start |-> start, end |-> Len(flushed), body |-> From(flushed, start, Len(flushed))]
           m == [man EXCEPT !.seq = @ + 1, !.segs = Append(keep, seg)]
<1>1. /\ commit' = [phase |-> "uploading", key |-> key, m |-> m]
      /\ wal' = flushed /\ pads' = pads + (Len(flushed) - Len(wal))
  BY DEF ShipRange, From
<1>2. /\ flushed \in Wal /\ Extends(flushed, wal) /\ Untorn(flushed)
      /\ flushed[Len(flushed)].life = life /\ Len(flushed) \in Nat /\ Len(wal) \in Nat
      /\ Len(wal) <= Len(flushed)
  BY FlushedGrows
<1>3. /\ man \in Manifests /\ life \in Nat /\ pads \in Nat /\ man.seq \in Nat /\ man.segs \in Seq(Segs)
      /\ wal \in Wal
  BY DEF Proper, Types, Manifests
<1>4. Lived(objs, man, life, wal, lifeBase, force, shipped)
  BY DEF Proper, LifeOk
<1>5. start \in 0..Len(wal) /\ start \in 0..Len(flushed) /\ start \in Nat
  <2>1. start \in 0..Len(wal)
    BY <1>4 DEF Lived, Based
  <2> HIDE DEF start
  <2> QED BY <1>2, <2>1
<1>6. key \in Keys
  BY <1>3 DEF ObjKey, Keys
<1>7. Len(flushed) \in start..Len(flushed) /\ From(flushed, start, Len(flushed)) \in Wal
  <2> HIDE DEF start
  <2>1. Len(flushed) \in start..Len(flushed)
    BY <1>2, <1>5
  <2> QED BY <1>2, <1>5, <2>1, FromMeans
<1>8. seg \in Segs
  <2> HIDE DEF start, key
  <2> QED BY <1>2, <1>5, <1>6, <1>7 DEF Segs
<1>9. keep \in Seq(Segs)
  BY <1>3 DEF KeepOf
<1>10. Append(keep, seg) \in Seq(Segs)
  <2> HIDE DEF keep, seg, Segs
  <2> QED BY <1>8, <1>9, AppendProperties
<1> HIDE DEF start, keep, key, seg
<1>11. /\ m \in Manifests /\ m.seq = man.seq + 1 /\ m.snap = man.snap /\ m.base = man.base
       /\ m.segs = Append(keep, seg)
  <2> DEFINE q == man.seq + 1
             x == Append(keep, seg)
             T == Seq(Segs)
  <2>1. man \in [etag : Nat, seq : Nat, snap : Keys, base : Nat, segs : T] /\ q \in Nat /\ x \in T
    BY <1>3, <1>10 DEF Manifests
  <2>2. m = [man EXCEPT !.seq = q, !.segs = x]
    OBVIOUS
  <2> HIDE DEF m, q, x, T
  <2>3. /\ m \in [etag : Nat, seq : Nat, snap : Keys, base : Nat, segs : T] /\ m.seq = q
        /\ m.snap = man.snap /\ m.base = man.base /\ m.segs = x
    BY <2>1, <2>2
  <2> QED BY <2>3 DEF Manifests, q, x, T
<1> HIDE DEF m
<1>12. commit' \in Commits /\ commit' # NoCommit /\ commit'.phase = "uploading" /\ commit'.m = m /\ commit'.key = key
  BY <1>1, <1>6, <1>11 DEF Commits, Underway, NoCommit
<1>13. Types'
  <2>1. pads' \in Nat
    BY <1>1, <1>2, <1>3
  <2>2. wal' \in Wal
    BY <1>1, <1>2
  <2>3. Running'
    BY DEF Running
  <2> QED BY <1>12, <2>1, <2>2, <2>3 DEF Proper, Types
<1>14. BucketOk' /\ LifeOk'
  BY <1>1, <1>2, <1>13, GrowStep
<1>15. Len(Replayed(Restoring(objs, manifest))) <= Len(flushed)
  <2>1. /\ Lived(objs, man, life, wal, lifeBase, force, shipped)
        /\ Seen(objs, manifest, man, life, wal, lifeBase, force, shipped)
    BY DEF Proper, LifeOk
  <2>2. Objects(objs) /\ manifest \in Manifests
    BY DEF Proper, Types
  <2>3. PICK k \in 0..Len(wal) : Replayed(Restoring(objs, manifest)) = Upto(wal, k)
    BY <1>3, <2>1, <2>2, BucketReplays
  <2>4. Len(Upto(wal, k)) = k
    BY <1>3, UptoMeans
  <2> QED BY <1>2, <2>3, <2>4
<1>16. SendsSegment(objs, manifest, man, life, wal', force, shipped, commit', seg)
  <2>1. AddsSegment(m, man, keep, life, seg)
    BY <1>8, <1>11 DEF AddsSegment, seg, key
  <2>2. seg.key = key /\ seg.end = Len(flushed) /\ seg.body = From(flushed, start, Len(flushed))
    BY DEF seg
  <2> QED BY <1>1, <1>7, <1>12, <1>15, <2>1, <2>2 DEF SendsSegment, start, keep
<1>17. CommitOk'
  BY <1>16 DEF CommitOk, Sends
<1>18. ShippedOf(m) = Len(flushed)
  <2>1. seg.end = Len(flushed)
    BY DEF seg
  <2> HIDE DEF Segs
  <2>2. /\ Append(keep, seg)[Len(keep) + 1] = seg /\ Len(Append(keep, seg)) = Len(keep) + 1
        /\ Append(keep, seg) # <<>>
    BY <1>8, <1>9, AppendProperties
  <2> QED BY <1>11, <2>1, <2>2 DEF ShippedOf, Last
<1> QED BY <1>1, <1>2, <1>12, <1>13, <1>14, <1>17, <1>18 DEF Proper

(* A snapshot commit starts.                                               *)
LEMMA SnapshotProper ==
  ASSUME Proper, Running, UNCHANGED <<manifest, objs, state, life, man, shipped, lifeBase, dirty, force>>,
         Snapshot
  PROVE  /\ Proper'
         /\ Extends(wal', wal) /\ commit'.phase = "uploading" /\ ShippedOf(commit'.m) = Len(wal')
<1> DEFINE key == ObjKey("snap", man.seq + 1, life)
           w == Checkpointed
           m == [man EXCEPT !.seq = @ + 1, !.snap = key, !.base = Len(Checkpointed), !.segs = <<>>]
<1>1. wal' = w /\ commit' = [phase |-> "uploading", key |-> key, m |-> m] /\ pads' = pads
  BY DEF Snapshot
<1>2. /\ man \in Manifests /\ life \in Nat /\ man.seq \in Nat /\ wal \in Wal /\ manifest \in Manifests
      /\ Objects(objs)
  BY DEF Proper, Types, Manifests
<1>3. /\ Lived(objs, man, life, wal, lifeBase, force, shipped)
      /\ Seen(objs, manifest, man, life, wal, lifeBase, force, shipped)
  BY DEF Proper, LifeOk
<1>4. /\ w \in Wal /\ Extends(w, wal) /\ Untorn(w) /\ w[Len(w)].life = life
      /\ w[Len(w)].what = "checkpoint" /\ Len(w) \in Nat /\ Len(wal) \in Nat /\ Len(wal) <= Len(w) /\ Len(w) # 0
  <2>1. Untorn(wal) /\ wal[Len(wal)].life = life /\ lifeBase \in 1..Len(wal) /\ Len(wal) \in Nat
    BY <1>2, <1>3, LenProperties DEF Lived, Wal
  <2>2. CASE Last(wal).what = "checkpoint"
    <3>1. w = wal
      BY <2>2 DEF Checkpointed
    <3>2. wal[Len(wal)].what = "checkpoint"
      BY <2>2 DEF Last
    <3> HIDE DEF w
    <3> QED BY <1>2, <2>1, <3>1, <3>2, GrowsNothing
  <2>3. CASE Last(wal).what # "checkpoint"
    <3>1. w = Append(wal, Ckpt(life))
      BY <2>3 DEF Checkpointed
    <3>2. Ckpt(life) \in Recs /\ Ckpt(life).life = life /\ Ckpt(life).what = "checkpoint"
      BY <1>2, RecsAre
    <3>3. /\ w \in Wal /\ Extends(w, wal) /\ Untorn(w) /\ w[Len(w)] = Ckpt(life) /\ Len(w) = Len(wal) + 1
      BY <1>2, <2>1, <3>1, <3>2, AppendGrows
    <3> HIDE DEF w
    <3> QED BY <2>1, <3>2, <3>3
  <2> QED BY <2>2, <2>3
<1>5. key \in Keys
  BY <1>2 DEF ObjKey, Keys
<1> HIDE DEF key
<1>6. /\ m \in Manifests /\ m.seq = man.seq + 1 /\ m.snap = key /\ m.base = Len(w) /\ m.segs = <<>>
  <2> DEFINE q == man.seq + 1
             T == Seq(Segs)
             e == <<>>
             b == Len(w)
  <2>1. /\ man \in [etag : Nat, seq : Nat, snap : Keys, base : Nat, segs : T]
        /\ q \in Nat /\ e \in T /\ b \in Nat
    BY <1>2, <1>4 DEF Manifests
  <2>2. m = [man EXCEPT !.seq = q, !.snap = key, !.base = b, !.segs = e]
    OBVIOUS
  <2> HIDE DEF m, q, e, b, T
  <2>3. /\ m \in [etag : Nat, seq : Nat, snap : Keys, base : Nat, segs : T] /\ m.seq = q
        /\ m.snap = key /\ m.base = b /\ m.segs = e
    BY <1>5, <2>1, <2>2
  <2> QED BY <2>3 DEF Manifests, q, e, b, T
<1> HIDE DEF w, m
<1>7. commit' \in Commits /\ commit' # NoCommit /\ commit'.phase = "uploading" /\ commit'.m = m /\ commit'.key = key
  BY <1>1, <1>5, <1>6 DEF Commits, Underway, NoCommit
<1>8. Types'
  <2>1. Running'
    BY DEF Running
  <2> QED BY <1>1, <1>4, <1>7, <2>1 DEF Proper, Types
<1>9. BucketOk' /\ LifeOk'
  BY <1>1, <1>4, <1>8, GrowStep
<1>10. Len(Replayed(Restoring(objs, manifest))) <= Len(w)
  <2>1. PICK k \in 0..Len(wal) : Replayed(Restoring(objs, manifest)) = Upto(wal, k)
    BY <1>2, <1>3, BucketReplays
  <2>2. Len(Upto(wal, k)) = k
    BY <1>2, UptoMeans
  <2> QED BY <1>4, <2>1, <2>2
<1>11. manifest.base <= Len(w)
  <2>1. manifest.base \in 0..Len(wal)
    BY <1>2, <1>3, SeenBase
  <2> QED BY <1>4, <2>1
<1>12. IsSnapshot(m, man, life, w)
  BY <1>4, <1>6 DEF IsSnapshot, key
<1>13. SendsSnapshot(objs, manifest, man, life, wal', commit')
  BY <1>1, <1>6, <1>7, <1>10, <1>11, <1>12 DEF SendsSnapshot
<1>14. CommitOk'
  BY <1>13 DEF CommitOk, Sends
<1>15. ShippedOf(m) = Len(w)
  BY <1>6 DEF ShippedOf
<1> QED BY <1>1, <1>4, <1>7, <1>8, <1>9, <1>14, <1>15 DEF Proper

----------------------------------------------------------------------------
(* An upload.                                                              *)

Sound(o, mf, a, n, w, lb, f, sh) ==
    /\ Objects(o) /\ mf \in Manifests /\ a \in Manifests /\ n \in Nat /\ w \in Wal
    /\ Stored(o, mf, n) /\ Untorn(Restoring(o, mf))
    /\ Lived(o, a, n, w, lb, f, sh) /\ Seen(o, mf, a, n, w, lb, f, sh)

LEMMA SoundIf ==
  ASSUME NEW o, Objects(o), NEW mf \in Manifests, NEW a \in Manifests, NEW n \in Nat, NEW w \in Wal,
         NEW lb, NEW f, NEW sh, Lived(o, a, n, w, lb, f, sh), Seen(o, mf, a, n, w, lb, f, sh),
         f /\ mf = a => Untorn(Restoring(o, a))
  PROVE  Sound(o, mf, a, n, w, lb, f, sh)
<1>1. Stored(o, a, n) /\ Based(o, a, KeepOf(a, f), StartOf(a, f, sh), w) /\ Untorn(w)
  BY DEF Lived
<1>2. Stored(o, mf, n)
  <2>1. ASSUME NEW seg, NEW k, AddsSegment(mf, a, KeepOf(a, f), n, seg),
               SegmentReaches(o, seg, StartOf(a, f, sh), w, k)
        PROVE  Stored(o, mf, n)
    BY <1>1, <2>1, SegmentRestores
  <2>2. ASSUME IsSnapshot(mf, a, n, w), NEW k, SnapshotReaches(o, mf, w, k)
        PROVE  Stored(o, mf, n)
    BY <2>2, SnapshotRestores
  <2> QED BY <1>1, <2>1, <2>2 DEF Seen
<1>3. Untorn(Restoring(o, mf))
  <2>1. CASE ~(f /\ mf = a)
    <3>1. PICK k \in 0..Len(w) : Restoring(o, mf) = Upto(w, k)
      BY <2>1, BucketReaches
    <3> QED BY <1>1, <3>1, UntornUpto
  <2>2. CASE f /\ mf = a
    BY <2>2
  <2> QED BY <2>1, <2>2
<1> QED BY <1>2, <1>3 DEF Sound

Put(o, key, b) == [k \in DOMAIN o \cup {key} |-> IF k = key THEN b ELSE o[k]]

(* The key is new to the manifest the life has.                            *)
LEMMA PutKeeps ==
  ASSUME NEW o, NEW mf, NEW a, NEW n, NEW w, NEW lb, NEW f, NEW sh, Sound(o, mf, a, n, w, lb, f, sh),
         NEW key \in Keys, key.seq = a.seq + 1, NEW b \in Wal
  PROVE  /\ Objects(Put(o, key, b))
         /\ Lived(Put(o, key, b), a, n, w, lb, f, sh)
         /\ Restoring(Put(o, key, b), a) = Restoring(o, a)
<1> DEFINE p == Put(o, key, b)
<1>1. /\ DOMAIN p = DOMAIN o \cup {key} /\ p[key] = b
      /\ \A k \in DOMAIN o : k # key => p[k] = o[k]
  BY DEF Put
<1> HIDE DEF p
<1>2. Objects(o) /\ a \in Manifests /\ n \in Nat /\ Lived(o, a, n, w, lb, f, sh)
  BY DEF Sound
<1>3. Objects(p)
  BY <1>1, <1>2 DEF Objects
<1>4. \A k \in KeysIn(a) : k \in DOMAIN o /\ k.seq <= a.seq
  BY <1>2 DEF Lived, Stored
<1>5. a.seq \in Nat /\ ~(a.seq + 1 <= a.seq)
  BY <1>2 DEF Manifests
<1>6. \A k \in KeysIn(a) : k \in DOMAIN p /\ p[k] = o[k]
  BY <1>1, <1>4, <1>5
<1>7. Lived(p, a, n, w, lb, f, sh)
  BY <1>2, <1>6, LivedSame
<1>8. Restoring(p, a) = Restoring(o, a)
  BY <1>2, <1>6, RestoringSame
<1> QED BY <1>3, <1>7, <1>8 DEF p

(* What the bucket restores after it: the same, or more.                   *)
NoShorter(o, p, mf, w) ==
    \/ Restoring(p, mf) = Restoring(o, mf)
    \/ \E k \in 0..Len(w) : /\ Restoring(p, mf) = Upto(w, k)
                            /\ Len(Replayed(Restoring(o, mf))) <= k

LEMMA PutSegment ==
  ASSUME NEW o, NEW mf, NEW a, NEW n, NEW w, NEW lb, NEW f, NEW sh, Sound(o, mf, a, n, w, lb, f, sh),
         NEW c, c.phase = "uploading", NEW seg, SendsSegment(o, mf, a, n, w, f, sh, c, seg),
         NEW p, p = Put(o, c.key, seg.body),
         NEW d, d.phase = "swapping", d.key = c.key, d.m = c.m
  PROVE  /\ Sound(p, mf, a, n, w, lb, f, sh)
         /\ Sends(p, mf, a, n, w, f, sh, d)
         /\ NoShorter(o, p, mf, w)
<1> DEFINE start == StartOf(a, f, sh)
           keep == KeepOf(a, f)
<1>1. /\ Objects(o) /\ mf \in Manifests /\ a \in Manifests /\ n \in Nat /\ w \in Wal
      /\ Stored(o, mf, n) /\ Untorn(Restoring(o, mf))
      /\ Lived(o, a, n, w, lb, f, sh) /\ Seen(o, mf, a, n, w, lb, f, sh)
  BY DEF Sound
<1>2. /\ AddsSegment(c.m, a, keep, n, seg) /\ c.key = seg.key
      /\ seg.end \in start..Len(w) /\ seg.body = From(w, start, seg.end)
      /\ Len(Replayed(Restoring(o, mf))) <= seg.end
  BY DEF SendsSegment, MayLand
<1>3. seg \in Segs /\ seg.key = ObjKey("wal", a.seq + 1, n)
  BY <1>2 DEF AddsSegment
<1>4. seg.key \in Keys /\ seg.body \in Wal /\ seg.key.kind = "wal" /\ seg.key.seq = a.seq + 1
  BY <1>3 DEF Segs, ObjKey
<1>5. /\ DOMAIN p = DOMAIN o \cup {seg.key} /\ p[seg.key] = seg.body
      /\ \A k \in DOMAIN o : k # seg.key => p[k] = o[k]
  BY <1>2 DEF Put
<1>6. Objects(p) /\ Lived(p, a, n, w, lb, f, sh) /\ Restoring(p, a) = Restoring(o, a)
  BY <1>2, <1>4, PutKeeps
<1>7. start \in 0..Len(w) /\ Len(w) \in Nat
  BY <1>1, LenProperties DEF Lived, Based, Wal
<1>8. SegmentReaches(p, seg, start, w, seg.end)
  BY <1>2, <1>5 DEF SegmentReaches
<1>9. Seen(p, mf, a, n, w, lb, f, sh) /\ NoShorter(o, p, mf, w)
  <2>1. CASE mf = a /\ (f => Replayed(Restoring(o, a)) = Upto(w, lb - 1))
    BY <1>6, <2>1 DEF Seen, NoShorter
  <2>2. ASSUME mf.etag # a.etag, NEW old, AddsSegment(mf, a, keep, n, old)
        PROVE  Seen(p, mf, a, n, w, lb, f, sh) /\ NoShorter(o, p, mf, w)
    <3>1. old.key = seg.key
      BY <1>3, <2>2 DEF AddsSegment
    <3>2. SegmentReaches(p, old, start, w, seg.end)
      BY <1>8, <3>1 DEF SegmentReaches
    <3>3. Stored(p, a, n) /\ Based(p, a, keep, start, w)
      BY <1>6 DEF Lived
    <3>4. Restoring(p, mf) = Upto(w, seg.end) /\ seg.end \in 0..Len(w)
      BY <1>1, <1>6, <2>2, <3>2, <3>3, SegmentRestores
    <3> QED BY <1>2, <2>2, <3>2, <3>4 DEF Seen, NoShorter
  <2>3. ASSUME mf.etag # a.etag, IsSnapshot(mf, a, n, w), NEW k, SnapshotReaches(o, mf, w, k)
        PROVE  Seen(p, mf, a, n, w, lb, f, sh) /\ NoShorter(o, p, mf, w)
    <3>1. mf.snap.kind = "snap" /\ mf.segs = <<>>
      BY <2>3 DEF IsSnapshot, ObjKey
    <3>2. mf.snap \in DOMAIN o /\ mf.snap # seg.key
      BY <1>4, <2>3, <3>1 DEF SnapshotReaches
    <3>3. mf.snap \in DOMAIN p /\ p[mf.snap] = o[mf.snap]
      BY <1>5, <3>2
    <3>4. SnapshotReaches(p, mf, w, k)
      BY <2>3, <3>3 DEF SnapshotReaches
    <3>5. Restoring(p, mf) = Restoring(o, mf)
      BY <3>1, <3>3 DEF Restoring
    <3> QED BY <2>3, <3>4, <3>5 DEF Seen, NoShorter
  <2> QED BY <1>1, <2>1, <2>2, <2>3 DEF Seen
<1>10. Sound(p, mf, a, n, w, lb, f, sh)
  <2>1. f /\ mf = a => Untorn(Restoring(p, a))
    BY <1>1, <1>6
  <2> QED BY <1>1, <1>6, <1>9, <2>1, SoundIf
<1>11. SendsSegment(p, mf, a, n, w, f, sh, d, seg)
  <2>1. mf.etag = a.etag => mf = a
    BY <1>1 DEF Seen
  <2>2. mf.etag = a.etag => Len(Replayed(Restoring(p, mf))) <= seg.end
    BY <1>2, <1>6, <2>1
  <2> QED BY <1>2, <1>5, <2>2 DEF SendsSegment, MayLand
<1> QED BY <1>9, <1>10, <1>11 DEF Sends

LEMMA PutSnapshot ==
  ASSUME NEW o, NEW mf, NEW a, NEW n, NEW w, NEW lb, NEW f, NEW sh, Sound(o, mf, a, n, w, lb, f, sh),
         NEW c, c.phase = "uploading", SendsSnapshot(o, mf, a, n, w, c), c.m \in Manifests,
         NEW j \in c.m.base..Len(w),
         NEW p, p = Put(o, c.key, Upto(w, j)),
         NEW d, d.phase = "swapping", d.key = c.key, d.m = c.m
  PROVE  /\ Sound(p, mf, a, n, w, lb, f, sh)
         /\ Sends(p, mf, a, n, w, f, sh, d)
         /\ NoShorter(o, p, mf, w)
<1>1. /\ Objects(o) /\ mf \in Manifests /\ a \in Manifests /\ n \in Nat /\ w \in Wal
      /\ Stored(o, mf, n) /\ Untorn(Restoring(o, mf))
      /\ Lived(o, a, n, w, lb, f, sh) /\ Seen(o, mf, a, n, w, lb, f, sh)
  BY DEF Sound
<1>2. /\ IsSnapshot(c.m, a, n, w) /\ c.key = c.m.snap /\ mf.base <= c.m.base
      /\ Len(Replayed(Restoring(o, mf))) <= c.m.base
  BY DEF SendsSnapshot, MayLand
<1>3. c.m.snap = ObjKey("snap", a.seq + 1, n) /\ c.m.base \in 1..Len(w)
  BY <1>2 DEF IsSnapshot
<1>4. c.key \in Keys /\ c.key.kind = "snap" /\ c.key.seq = a.seq + 1
  BY <1>2, <1>3 DEF ObjKey, Manifests
<1>5. Len(w) \in Nat /\ j \in 0..Len(w) /\ Upto(w, j) \in Wal
  <2>1. Len(w) \in Nat
    BY <1>1, LenProperties DEF Wal
  <2>2. j \in 0..Len(w)
    BY <1>3, <2>1
  <2> QED BY <1>1, <2>1, <2>2, UptoMeans
<1>6. /\ DOMAIN p = DOMAIN o \cup {c.key} /\ p[c.key] = Upto(w, j)
      /\ \A k \in DOMAIN o : k # c.key => p[k] = o[k]
  BY DEF Put
<1>7. Objects(p) /\ Lived(p, a, n, w, lb, f, sh) /\ Restoring(p, a) = Restoring(o, a)
  BY <1>4, <1>5, PutKeeps
<1>8. Seen(p, mf, a, n, w, lb, f, sh) /\ NoShorter(o, p, mf, w)
  <2>1. CASE mf = a /\ (f => Replayed(Restoring(o, a)) = Upto(w, lb - 1))
    BY <1>7, <2>1 DEF Seen, NoShorter
  <2>2. ASSUME mf.etag # a.etag, NEW seg, NEW k, AddsSegment(mf, a, KeepOf(a, f), n, seg),
               SegmentReaches(o, seg, StartOf(a, f, sh), w, k)
        PROVE  Seen(p, mf, a, n, w, lb, f, sh) /\ NoShorter(o, p, mf, w)
    <3>1. seg.key.kind = "wal" /\ seg.key \in DOMAIN o
      BY <2>2 DEF AddsSegment, ObjKey, SegmentReaches
    <3>2. seg.key \in DOMAIN p /\ p[seg.key] = o[seg.key]
      BY <1>4, <1>6, <3>1
    <3>3. SegmentReaches(p, seg, StartOf(a, f, sh), w, k)
      BY <2>2, <3>2 DEF SegmentReaches
    <3>4. /\ Stored(p, a, n) /\ Based(p, a, KeepOf(a, f), StartOf(a, f, sh), w)
          /\ Stored(o, a, n) /\ Based(o, a, KeepOf(a, f), StartOf(a, f, sh), w)
      BY <1>1, <1>7 DEF Lived
    <3>5. Restoring(p, mf) = Upto(w, k)
      BY <1>1, <1>7, <2>2, <3>3, <3>4, SegmentRestores
    <3>6. Restoring(o, mf) = Upto(w, k)
      BY <1>1, <2>2, <3>4, SegmentRestores
    <3> QED BY <2>2, <3>3, <3>5, <3>6 DEF Seen, NoShorter
  <2>3. ASSUME mf.etag # a.etag, IsSnapshot(mf, a, n, w)
        PROVE  Seen(p, mf, a, n, w, lb, f, sh) /\ NoShorter(o, p, mf, w)
    <3>1. mf.snap = c.key /\ mf.base \in 1..Len(w)
      BY <1>2, <1>3, <2>3 DEF IsSnapshot
    <3>2. j \in mf.base..Len(w)
      BY <1>2, <1>3, <1>5, <3>1
    <3>3. SnapshotReaches(p, mf, w, j)
      BY <1>6, <3>1, <3>2 DEF SnapshotReaches
    <3>4. Restoring(p, mf) = Upto(w, j)
      BY <1>1, <1>7, <2>3, <3>3, SnapshotRestores
    <3>5. Len(Replayed(Restoring(o, mf))) <= j
      <4>1. \E i \in 0..Len(w) : Replayed(Restoring(o, mf)) = Upto(w, i)
        BY <1>1, BucketReplays
      <4>2. Len(Replayed(Restoring(o, mf))) \in Nat
        BY <1>1, <4>1, UptoMeans
      <4> QED BY <1>2, <1>3, <1>5, <4>2
    <3> QED BY <1>5, <2>3, <3>3, <3>4, <3>5 DEF Seen, NoShorter
  <2> QED BY <1>1, <2>1, <2>2, <2>3 DEF Seen
<1>9. Sound(p, mf, a, n, w, lb, f, sh)
  <2>1. f /\ mf = a => Untorn(Restoring(p, a))
    BY <1>1, <1>7
  <2> QED BY <1>1, <1>7, <1>8, <2>1, SoundIf
<1>10. SendsSnapshot(p, mf, a, n, w, d)
  <2>1. mf.etag = a.etag => mf = a
    BY <1>1 DEF Seen
  <2>2. mf.etag = a.etag => Len(Replayed(Restoring(p, mf))) <= c.m.base
    BY <1>2, <1>7, <2>1
  <2>3. SnapshotReaches(p, d.m, w, j)
    BY <1>2, <1>6 DEF SnapshotReaches
  <2> QED BY <1>2, <2>2, <2>3 DEF SendsSnapshot, MayLand
<1> QED BY <1>8, <1>9, <1>10 DEF Sends

(* What the step comes to.                                                 *)
LEMMA UploadChanges ==
  ASSUME NEW o, NEW mf, NEW a, NEW n, NEW w, NEW lb, NEW f, NEW sh, Sound(o, mf, a, n, w, lb, f, sh),
         NEW c, c.phase = "uploading", Sends(o, mf, a, n, w, f, sh, c), c.m \in Manifests,
         NEW b, b \in IF c.key.kind = "wal" THEN {Last(c.m.segs).body}
                                            ELSE {SubSeq(w, 1, j) : j \in c.m.base..Len(w)},
         NEW p, p = Put(o, c.key, b),
         NEW d, d.phase = "swapping", d.key = c.key, d.m = c.m
  PROVE  /\ Sound(p, mf, a, n, w, lb, f, sh)
         /\ Sends(p, mf, a, n, w, f, sh, d)
         /\ NoShorter(o, p, mf, w)
<1>1. ASSUME NEW seg, SendsSegment(o, mf, a, n, w, f, sh, c, seg)
      PROVE  /\ Sound(p, mf, a, n, w, lb, f, sh)
             /\ Sends(p, mf, a, n, w, f, sh, d)
             /\ NoShorter(o, p, mf, w)
  <2>1. AddsSegment(c.m, a, KeepOf(a, f), n, seg) /\ c.key = seg.key
    BY <1>1 DEF SendsSegment
  <2>2. c.key.kind = "wal" /\ seg \in Segs /\ c.m.segs = Append(KeepOf(a, f), seg)
    BY <2>1 DEF AddsSegment, ObjKey
  <2>3. Last(c.m.segs) = seg
    <3>1. KeepOf(a, f) \in Seq(Segs)
      BY DEF Sound, Manifests, KeepOf
    <3> DEFINE keep == KeepOf(a, f)
    <3> HIDE DEF Segs, keep
    <3>2. /\ Append(keep, seg)[Len(keep) + 1] = seg /\ Len(Append(keep, seg)) = Len(keep) + 1
      BY <2>2, <3>1, AppendProperties DEF keep
    <3> QED BY <2>2, <3>2 DEF Last, keep
  <2>4. b = seg.body
    BY <2>2, <2>3
  <2> QED BY <1>1, <2>4, PutSegment
<1>2. ASSUME SendsSnapshot(o, mf, a, n, w, c)
      PROVE  /\ Sound(p, mf, a, n, w, lb, f, sh)
             /\ Sends(p, mf, a, n, w, f, sh, d)
             /\ NoShorter(o, p, mf, w)
  <2>1. c.key.kind = "snap"
    BY <1>2 DEF SendsSnapshot, IsSnapshot, ObjKey
  <2>2. PICK j \in c.m.base..Len(w) : b = Upto(w, j)
    BY <2>1 DEF Upto
  <2> QED BY <1>2, <2>2, PutSnapshot
<1> QED BY <1>1, <1>2 DEF Sends

(* Rows that replay still replay where the restore reaches no less far.    *)
LEMMA RowsReach ==
  ASSUME NEW o, NEW mf, NEW a, NEW n, NEW w, NEW lb, NEW f, NEW sh, Sound(o, mf, a, n, w, lb, f, sh),
         NEW k \in 0..Len(w), Len(Replayed(Restoring(o, mf))) <= k
  PROVE  Rows(Replayed(Restoring(o, mf))) \subseteq Rows(Replayed(Upto(w, k)))
<1>1. /\ Objects(o) /\ mf \in Manifests /\ a \in Manifests /\ n \in Nat /\ w \in Wal
      /\ Stored(o, mf, n) /\ Untorn(Restoring(o, mf))
      /\ Lived(o, a, n, w, lb, f, sh) /\ Seen(o, mf, a, n, w, lb, f, sh)
  BY DEF Sound
<1>2. PICK j \in 0..Len(w) : Replayed(Restoring(o, mf)) = Upto(w, j)
  BY <1>1, BucketReplays
<1>3. Len(Upto(w, j)) = j
  BY <1>1, UptoMeans
<1>4. Restoring(o, mf) \in Wal
  BY <1>1, RestoringMeans
<1>5. Untorn(w)
  BY <1>1 DEF Lived
<1> QED BY <1>1, <1>2, <1>3, <1>4, <1>5, RowsGrow

LEMMA NoShorterKeepsRows ==
  ASSUME NEW o, NEW mf, NEW a, NEW n, NEW w, NEW lb, NEW f, NEW sh, Sound(o, mf, a, n, w, lb, f, sh),
         NEW p, NoShorter(o, p, mf, w)
  PROVE  Rows(Replayed(Restoring(o, mf))) \subseteq Rows(Replayed(Restoring(p, mf)))
  BY RowsReach DEF NoShorter

----------------------------------------------------------------------------
(* A swap.                                                                 *)

(* The manifest m restores no less than mf does.                           *)
GoesOn(o, mf, m, w) ==
    \E k \in 0..Len(w) : /\ Restoring(o, m) = Upto(w, k)
                         /\ Len(Replayed(Restoring(o, mf))) <= k

LEMMA SegmentLands ==
  ASSUME NEW o, NEW mf, NEW a, NEW n, NEW w, NEW lb, NEW f, NEW sh, Sound(o, mf, a, n, w, lb, f, sh),
         mf.etag = a.etag, NEW c, c.phase = "swapping", NEW seg, SendsSegment(o, mf, a, n, w, f, sh, c, seg),
         NEW m \in Manifests, m.seq = c.m.seq, m.snap = c.m.snap, m.base = c.m.base, m.segs = c.m.segs,
         m.etag # a.etag, NEW no, no = FALSE
  PROVE  /\ Seen(o, m, a, n, w, lb, f, sh)
         /\ Lived(o, m, n, w, lb, no, ShippedOf(m))
         /\ GoesOn(o, mf, m, w)
<1> DEFINE start == StartOf(a, f, sh)
           keep == KeepOf(a, f)
<1>1. /\ Objects(o) /\ mf \in Manifests /\ a \in Manifests /\ n \in Nat /\ w \in Wal
      /\ Lived(o, a, n, w, lb, f, sh) /\ Seen(o, mf, a, n, w, lb, f, sh)
  BY DEF Sound
<1>2. /\ AddsSegment(c.m, a, keep, n, seg)
      /\ seg.end \in start..Len(w) /\ seg.body = From(w, start, seg.end)
      /\ seg.key \in DOMAIN o /\ o[seg.key] = seg.body
      /\ Len(Replayed(Restoring(o, mf))) <= seg.end
  BY DEF SendsSegment, MayLand
<1>3. AddsSegment(m, a, keep, n, seg)
  BY <1>2 DEF AddsSegment
<1>4. SegmentReaches(o, seg, start, w, seg.end)
  BY <1>2 DEF SegmentReaches
<1>5. Stored(o, a, n) /\ Based(o, a, keep, start, w) /\ a.base \in 0..Len(w) /\ Lead(o, a) = Upto(w, a.base)
  BY <1>1 DEF Lived, Based
<1>6. /\ Stored(o, m, n) /\ Lead(o, m) = Lead(o, a)
      /\ Lead(o, m) \o Joined(o, m.segs) = Upto(w, seg.end)
      /\ Restoring(o, m) = Upto(w, seg.end) /\ seg.end \in 0..Len(w)
  BY <1>1, <1>3, <1>4, <1>5, SegmentRestores
<1>7. ShippedOf(m) = seg.end
  <2>1. m.segs = Append(keep, seg) /\ seg \in Segs
    BY <1>3 DEF AddsSegment
  <2>2. keep \in Seq(Segs)
    BY <1>1 DEF Manifests, KeepOf
  <2> HIDE DEF Segs, keep
  <2>3. /\ Append(keep, seg)[Len(keep) + 1] = seg /\ Len(Append(keep, seg)) = Len(keep) + 1
        /\ Append(keep, seg) # <<>>
    BY <2>1, <2>2, AppendProperties
  <2> QED BY <2>1, <2>3 DEF ShippedOf, Last
<1>8. Based(o, m, m.segs, seg.end, w)
  <2>1. m.base = a.base
    BY <1>3 DEF AddsSegment
  <2> QED BY <1>5, <1>6, <2>1 DEF Based
<1>9. Lived(o, m, n, w, lb, no, ShippedOf(m))
  BY <1>1, <1>6, <1>7, <1>8 DEF Lived, KeepOf, StartOf
<1>10. Seen(o, m, a, n, w, lb, f, sh)
  BY <1>3, <1>4 DEF Seen
<1> QED BY <1>2, <1>6, <1>9, <1>10 DEF GoesOn

LEMMA SnapshotLands ==
  ASSUME NEW o, NEW mf, NEW a, NEW n, NEW w, NEW lb, NEW f, NEW sh, Sound(o, mf, a, n, w, lb, f, sh),
         mf.etag = a.etag, NEW c, c.phase = "swapping", SendsSnapshot(o, mf, a, n, w, c),
         NEW m \in Manifests, m.seq = c.m.seq, m.snap = c.m.snap, m.base = c.m.base, m.segs = c.m.segs,
         m.etag # a.etag, NEW no, no = FALSE
  PROVE  /\ Seen(o, m, a, n, w, lb, f, sh)
         /\ Lived(o, m, n, w, lb, no, ShippedOf(m))
         /\ GoesOn(o, mf, m, w)
<1>1. /\ Objects(o) /\ mf \in Manifests /\ a \in Manifests /\ n \in Nat /\ w \in Wal /\ Len(w) \in Nat
      /\ Lived(o, a, n, w, lb, f, sh) /\ Seen(o, mf, a, n, w, lb, f, sh)
  BY LenProperties DEF Sound, Wal
<1>2. /\ IsSnapshot(c.m, a, n, w)
      /\ Len(Replayed(Restoring(o, mf))) <= c.m.base
  BY DEF SendsSnapshot, MayLand
<1>3. PICK k : SnapshotReaches(o, c.m, w, k)
  BY DEF SendsSnapshot
<1>4. IsSnapshot(m, a, n, w)
  BY <1>2 DEF IsSnapshot
<1>5. SnapshotReaches(o, m, w, k)
  BY <1>3 DEF SnapshotReaches
<1>6. /\ Stored(o, m, n) /\ Lead(o, m) = Upto(w, m.base)
      /\ Lead(o, m) \o Joined(o, m.segs) = Upto(w, m.base)
      /\ Restoring(o, m) = Upto(w, k) /\ m.base \in 1..Len(w) /\ k \in 0..Len(w)
  BY <1>1, <1>4, <1>5, SnapshotRestores
<1>7. ShippedOf(m) = m.base /\ m.segs = <<>>
  BY <1>4 DEF ShippedOf, IsSnapshot
<1>8. Based(o, m, m.segs, m.base, w)
  BY <1>1, <1>6 DEF Based
<1>9. Lived(o, m, n, w, lb, no, ShippedOf(m))
  BY <1>1, <1>6, <1>7, <1>8 DEF Lived, KeepOf, StartOf
<1>10. Seen(o, m, a, n, w, lb, f, sh)
  BY <1>4, <1>5 DEF Seen
<1>11. Len(Replayed(Restoring(o, mf))) <= k
  <2>1. \E i \in 0..Len(w) : Replayed(Restoring(o, mf)) = Upto(w, i)
    BY <1>1, BucketReplays
  <2>2. Len(Replayed(Restoring(o, mf))) \in Nat
    BY <1>1, <2>1, UptoMeans
  <2>3. k \in m.base..Len(w)
    BY <1>5 DEF SnapshotReaches
  <2> QED BY <1>1, <1>2, <1>6, <2>2, <2>3
<1> QED BY <1>6, <1>9, <1>10, <1>11 DEF GoesOn

(* The manifest that the life then has restores from what is not deleted.  *)
LEMMA SupersededAreNot ==
  ASSUME NEW o, NEW a \in Manifests, NEW n \in Nat, Stored(o, a, n), NEW m \in Manifests, Stored(o, m, n)
  PROVE  KeysIn(m) \cap Superseded(a, m) = {}
<1>1. a.segs \in Seq(Segs) /\ m.segs \in Seq(Segs)
  BY DEF Manifests
<1>2. DOMAIN a.segs = 1..Len(a.segs) /\ DOMAIN m.segs = 1..Len(m.segs)
  BY <1>1, SegsMean
<1>3. ASSUME NEW k \in Superseded(a, m)
      PROVE  k.kind = "wal" /\ \A i \in 1..Len(m.segs) : m.segs[i].key # k
  <2>1. PICK s \in ToSet(a.segs) : k = s.key
    BY DEF Superseded
  <2>2. PICK i \in 1..Len(a.segs) : s = a.segs[i]
    BY <1>2, <2>1 DEF ToSet
  <2>3. k.kind = "wal"
    BY <2>1, <2>2 DEF Stored
  <2>4. \A j \in 1..Len(m.segs) : m.segs[j] \in ToSet(m.segs)
    BY <1>2 DEF ToSet
  <2>5. \A j \in 1..Len(m.segs) : m.segs[j].key # k
    BY <1>3, <2>4 DEF Superseded
  <2> QED BY <2>3, <2>5
<1>4. m.snap.kind = "snap"
  BY DEF Stored
<1> QED BY <1>3, <1>4 DEF KeysIn

----------------------------------------------------------------------------
(* The steps that change the bucket.                                       *)

LEMMA ProperIsSound ==
  ASSUME Proper, Running
  PROVE  Sound(objs, manifest, man, life, wal, lifeBase, force, shipped)
  BY DEF Proper, Types, BucketOk, LifeOk, Sound

LEMMA DurableIs == Durable = Rows(Replayed(Restoring(objs, manifest)))
  BY RestoredIs DEF Durable

LEMMA UploadStep == Proper /\ Upload => Proper' /\ Durable \subseteq Durable'
<1> SUFFICES ASSUME Proper, Upload PROVE Proper' /\ Durable \subseteq Durable'
  OBVIOUS
<1>1. commit.phase = "uploading" /\ commit.phase \in Underway
  BY DEF Upload, Underway
<1>2. Types
  BY DEF Proper
<1>3. commit \in [phase : Underway, key : Keys, m : Manifests] /\ Running
  BY <1>1, <1>2, CommitTypes
<1>4. UNCHANGED <<manifest, life, pads, wal, man, shipped, lifeBase, dirty, force>>
  BY DEF Upload, fields
<1>5. PICK b \in Bodies : objs' = Put(objs, commit.key, b)
  BY DEF Upload, Put
<1>6. b \in IF commit.key.kind = "wal" THEN {Last(commit.m.segs).body}
                                        ELSE {SubSeq(wal, 1, j) : j \in commit.m.base..Len(wal)}
  BY <1>5 DEF Bodies
<1>7. Sound(objs, manifest, man, life, wal, lifeBase, force, shipped)
  BY <1>3, ProperIsSound
<1>8. Sends(objs, manifest, man, life, wal, force, shipped, commit)
  BY <1>1 DEF Proper, CommitOk
<1> DEFINE d == [phase |-> "swapping", key |-> commit.key, m |-> commit.m]
<1>9. d.phase = "swapping" /\ d.key = commit.key /\ d.m = commit.m /\ d \in Commits /\ d # NoCommit
  BY <1>3 DEF Commits, Underway, NoCommit
<1>10. commit.m \in Manifests /\ commit = [phase |-> "uploading", key |-> commit.key, m |-> commit.m]
  BY <1>1, <1>3
<1>11. [commit EXCEPT !.phase = "swapping"] = d
  BY <1>10
<1> HIDE DEF d
<1>12. /\ Sound(objs', manifest, man, life, wal, lifeBase, force, shipped)
       /\ Sends(objs', manifest, man, life, wal, force, shipped, d)
       /\ NoShorter(objs, objs', manifest, wal)
  BY <1>1, <1>5, <1>6, <1>7, <1>8, <1>9, <1>10, UploadChanges
<1>13. BucketOk' /\ LifeOk' /\ Objects(objs')
  BY <1>4, <1>12 DEF Sound, BucketOk, LifeOk
<1>14. Durable \subseteq Durable'
  <2>1. Durable' = Rows(Replayed(Restoring(objs', manifest')))
    BY RestoredIs DEF Durable, Restored, Shipped, Restoring, Joined, Lead, Upto
  <2>2. Rows(Replayed(Restoring(objs, manifest))) \subseteq Rows(Replayed(Restoring(objs', manifest)))
    BY <1>7, <1>12, NoShorterKeepsRows
  <2> QED BY <1>4, <2>1, <2>2, DurableIs
<1>15. CASE commit' = [commit EXCEPT !.phase = "swapping"] /\ UNCHANGED state
  <2>1. commit' = d
    BY <1>11, <1>15
  <2>2. CommitOk'
    BY <1>4, <1>12, <2>1 DEF CommitOk
  <2>3. Running'
    BY <1>3, <1>15 DEF Running
  <2>4. Types'
    BY <1>2, <1>4, <1>9, <1>13, <1>15, <2>1, <2>3 DEF Types
  <2> QED BY <1>13, <1>14, <2>2, <2>4 DEF Proper
<1>16. CASE Settle("failed")
  <2>1. commit' = NoCommit /\ state' = IF state = "closing" THEN "down" ELSE state
    BY <1>16 DEF Settle
  <2>2. commit'.phase \notin Underway
    BY <2>1 DEF NoCommit, Underway
  <2>3. Types'
    BY <1>2, <1>4, <1>13, <2>1 DEF Types, Commits
  <2> QED BY <1>13, <1>14, <2>2, <2>3 DEF Proper, CommitOk
<1> QED BY <1>15, <1>16 DEF Upload

(* The objects once those of ks are deleted.                               *)
Without(o, ks) == [k \in DOMAIN o \ ks |-> o[k]]

(* m restores the same from o and from p.                                  *)
RestoresSame(o, p, m) == Restoring(p, m) = Restoring(o, m)

(* Objects that no manifest in use names may go.                           *)
LEMMA DeleteSuperseded ==
  ASSUME NEW o, NEW a \in Manifests, NEW n \in Nat, Stored(o, a, n), Objects(o),
         NEW m \in Manifests, NEW w \in Wal, NEW lb, NEW no, no = FALSE, Lived(o, m, n, w, lb, no, ShippedOf(m)),
         NEW p, p = Without(o, Superseded(a, m))
  PROVE  /\ Sound(p, m, m, n, w, lb, no, ShippedOf(m))
         /\ RestoresSame(o, p, m)
<1>1. DOMAIN p = DOMAIN o \ Superseded(a, m) /\ \A k \in DOMAIN p : p[k] = o[k]
  BY DEF Without
<1>2. Objects(p)
  BY <1>1 DEF Objects
<1>3. Stored(o, m, n)
  BY DEF Lived
<1>4. KeysIn(m) \cap Superseded(a, m) = {}
  BY <1>3, SupersededAreNot
<1>5. KeysIn(m) \subseteq DOMAIN p
  BY <1>1, <1>3, <1>4 DEF Stored
<1>6. \A k \in KeysIn(m) : p[k] = o[k]
  BY <1>1, <1>5
<1>7. Lived(p, m, n, w, lb, no, ShippedOf(m))
  BY <1>5, <1>6, LivedSame
<1>8. Restoring(p, m) = Restoring(o, m)
  BY <1>6, RestoringSame
<1>9. Seen(p, m, m, n, w, lb, no, ShippedOf(m))
  BY DEF Seen
<1> QED BY <1>2, <1>7, <1>8, <1>9, SoundIf DEF RestoresSame

(* The compare-and-swap succeeds.                                          *)
LEMMA SwapLands ==
  ASSUME Proper, commit.phase = "swapping", man.etag = manifest.etag,
         manifest' = [commit.m EXCEPT !.etag = manifest.etag + 1],
         UNCHANGED <<life, pads, wal, lifeBase>>, commit' = NoCommit,
         state' = IF state = "closing" THEN "down" ELSE state,
         \/ Advance /\ objs' = [k \in DOMAIN objs \ Superseded(man, manifest') |-> objs[k]]
         \/ UNCHANGED <<objs, man, dirty, force, shipped>>
  PROVE  /\ Proper' /\ Durable \subseteq Durable'
         /\ Advance => Lived(objs', man', life', wal', lifeBase', force', shipped')
<1>1. commit.phase \in Underway /\ Types
  BY DEF Underway, Proper
<1>2. commit \in [phase : Underway, key : Keys, m : Manifests] /\ Running
  BY <1>1, CommitTypes
<1>3. Sound(objs, manifest, man, life, wal, lifeBase, force, shipped)
  BY <1>2, ProperIsSound
<1>4. Sends(objs, manifest, man, life, wal, force, shipped, commit)
  BY <1>1 DEF Proper, CommitOk
<1> DEFINE m == [commit.m EXCEPT !.etag = manifest.etag + 1]
           no == FALSE
<1>0. no = FALSE
  OBVIOUS
<1>5. commit.m \in Manifests /\ manifest.etag \in Nat
  BY <1>1, <1>2 DEF Types, Manifests
<1>6. /\ m \in Manifests /\ m.etag = manifest.etag + 1 /\ m.seq = commit.m.seq /\ m.snap = commit.m.snap
      /\ m.base = commit.m.base /\ m.segs = commit.m.segs
  <2> DEFINE T == Seq(Segs)
  <2>1. commit.m \in [etag : Nat, seq : Nat, snap : Keys, base : Nat, segs : T]
    BY <1>5 DEF Manifests
  <2> HIDE DEF T
  <2>2. /\ m \in [etag : Nat, seq : Nat, snap : Keys, base : Nat, segs : T] /\ m.etag = manifest.etag + 1
        /\ m.seq = commit.m.seq /\ m.snap = commit.m.snap /\ m.base = commit.m.base /\ m.segs = commit.m.segs
    BY <1>5, <2>1
  <2> QED BY <2>2 DEF Manifests, T
<1>7. manifest' = m
  OBVIOUS
<1> HIDE DEF m, no
<1>8. m.etag # man.etag
  BY <1>5, <1>6
<1>9. /\ Seen(objs, m, man, life, wal, lifeBase, force, shipped)
      /\ Lived(objs, m, life, wal, lifeBase, no, ShippedOf(m))
      /\ GoesOn(objs, manifest, m, wal)
  <2>1. ASSUME NEW seg, SendsSegment(objs, manifest, man, life, wal, force, shipped, commit, seg)
        PROVE  /\ Seen(objs, m, man, life, wal, lifeBase, force, shipped)
               /\ Lived(objs, m, life, wal, lifeBase, no, ShippedOf(m))
               /\ GoesOn(objs, manifest, m, wal)
    BY <1>0, <1>3, <1>6, <1>8, <2>1, SegmentLands
  <2>2. ASSUME SendsSnapshot(objs, manifest, man, life, wal, commit)
        PROVE  /\ Seen(objs, m, man, life, wal, lifeBase, force, shipped)
               /\ Lived(objs, m, life, wal, lifeBase, no, ShippedOf(m))
               /\ GoesOn(objs, manifest, m, wal)
    BY <1>0, <1>3, <1>6, <1>8, <2>2, SnapshotLands
  <2> QED BY <1>4, <2>1, <2>2 DEF Sends
<1>10. PICK k \in 0..Len(wal) : /\ Restoring(objs, m) = Upto(wal, k)
                                /\ Len(Replayed(Restoring(objs, manifest))) <= k
  BY <1>9 DEF GoesOn
<1>11. Rows(Replayed(Restoring(objs, manifest))) \subseteq Rows(Replayed(Restoring(objs, m)))
  BY <1>3, <1>10, RowsReach
<1>12. /\ Objects(objs) /\ man \in Manifests /\ life \in Nat /\ wal \in Wal /\ Stored(objs, man, life)
       /\ Lived(objs, man, life, wal, lifeBase, force, shipped)
  BY <1>3 DEF Sound, Lived
<1>13. Durable' = Rows(Replayed(Restoring(objs', m)))
  BY <1>7, RestoredIs DEF Durable, Restored, Shipped, Restoring, Joined, Lead, Upto
<1>14. commit'.phase \notin Underway
  BY DEF NoCommit, Underway
<1>15. Running' => Running
  BY DEF Running
<1>16. CASE Advance /\ objs' = [k1 \in DOMAIN objs \ Superseded(man, m) |-> objs[k1]]
  <2>1. man' = m /\ dirty' = FALSE /\ force' = FALSE /\ shipped' = ShippedOf(m)
    BY <1>7, <1>16 DEF Advance, ShippedOf
  <2>2. /\ Sound(objs', m, m, life, wal, lifeBase, no, ShippedOf(m))
        /\ Restoring(objs', m) = Restoring(objs, m)
    <3>1. objs' = Without(objs, Superseded(man, m))
      BY <1>16 DEF Without
    <3>2. Sound(objs', m, m, life, wal, lifeBase, no, ShippedOf(m)) /\ RestoresSame(objs, objs', m)
      BY <1>0, <1>6, <1>9, <1>12, <3>1, DeleteSuperseded
    <3> QED BY <3>2 DEF RestoresSame
  <2>3. Durable \subseteq Durable'
    BY <1>11, <1>13, <2>2, DurableIs
  <2>4. BucketOk' /\ LifeOk' /\ Objects(objs')
    BY <1>0, <1>7, <2>1, <2>2 DEF BucketOk, LifeOk, Sound
  <2>5. ShippedOf(m) \in Nat
    <3>1. StartOf(m, no, ShippedOf(m)) \in 0..Len(wal) /\ Len(wal) \in Nat
      BY <1>9, <1>12, LenProperties DEF Lived, Based, Wal
    <3> QED BY <1>0, <3>1 DEF StartOf
  <2>6. Types'
    BY <1>1, <1>6, <1>7, <2>1, <2>4, <2>5 DEF Types, Commits
  <2>7. Lived(objs', man', life', wal', lifeBase', force', shipped')
    BY <1>0, <2>1, <2>2 DEF Sound
  <2> QED BY <1>14, <2>3, <2>4, <2>6, <2>7 DEF Proper, CommitOk
<1>17. CASE UNCHANGED <<objs, man, dirty, force, shipped>>
  <2>1. Durable \subseteq Durable'
    BY <1>11, <1>13, <1>17, DurableIs
  <2>2. ~(force /\ m = man)
    BY <1>8
  <2>3. Sound(objs, m, man, life, wal, lifeBase, force, shipped)
    BY <1>6, <1>9, <1>12, <2>2, SoundIf
  <2>4. BucketOk' /\ LifeOk'
    BY <1>7, <1>17, <2>3 DEF BucketOk, LifeOk, Sound
  <2>5. Types'
    BY <1>1, <1>6, <1>7, <1>17 DEF Types, Commits
  <2>6. ~Advance
    BY <1>7, <1>8, <1>17 DEF Advance
  <2> QED BY <1>14, <2>1, <2>4, <2>5, <2>6 DEF Proper, CommitOk
<1> QED BY <1>7, <1>16, <1>17

LEMMA SwapStep ==
  ASSUME Proper, Swap
  PROVE  /\ Proper' /\ Durable \subseteq Durable'
         /\ man.etag = manifest.etag /\ Advance
              => Lived(objs', man', life', wal', lifeBase', force', shipped')
<1>1. /\ commit.phase = "swapping" /\ UNCHANGED <<life, pads, wal, lifeBase>>
      /\ commit' = NoCommit /\ state' = IF state = "closing" THEN "down" ELSE state
  BY DEF Swap, Settle
<1>2. CASE man.etag = manifest.etag
  <2>1. /\ manifest' = [commit.m EXCEPT !.etag = manifest.etag + 1]
        /\ \/ Advance /\ objs' = [k \in DOMAIN objs \ Superseded(man, manifest') |-> objs[k]]
           \/ UNCHANGED <<objs, man, dirty, force, shipped>>
    BY <1>2 DEF Swap
  <2> QED BY <1>1, <1>2, <2>1, SwapLands
<1>3. CASE man.etag # manifest.etag
  <2>1. UNCHANGED <<manifest, objs, man, dirty, force, shipped>>
    BY <1>3 DEF Swap, bucket
  <2>2. commit'.phase \notin Underway /\ (Running' => Running)
    BY <1>1 DEF NoCommit, Underway, Running
  <2>3. Types'
    BY <1>1, <2>1 DEF Proper, Types, Commits
  <2>4. Proper'
    BY <1>1, <2>1, <2>2, <2>3, QuietStep
  <2>5. Durable' = Durable
    BY <2>1 DEF Durable, Restored, Shipped
  <2> QED BY <1>3, <2>4, <2>5
<1> QED BY <1>2, <1>3

----------------------------------------------------------------------------
(* All steps.                                                              *)

(* A commit decides what to ship: all there is of the WAL, if any.         *)
StartsToShip ==
    /\ UNCHANGED <<manifest, objs, state, life, man, shipped, lifeBase, dirty, force, waiters, status>>
    /\ Extends(wal', wal)
    /\ commit'.phase = "uploading" /\ ShippedOf(commit'.m) = Len(wal')

ShipsNothing == Nothing /\ (NoGrowth \/ (~force /\ Len(wal) = shipped))

LEMMA CommitStarts ==
  ASSUME Proper, CommitNothing \/ CommitRebaseline \/ CommitIncremental \/ CommitSnapshot
  PROVE  /\ Proper' /\ UNCHANGED bucket /\ commit.phase = "pacing"
         /\ StartsToShip \/ ShipsNothing
<1>1. commit.phase = "pacing"
  BY DEF CommitNothing, CommitRebaseline, CommitIncremental, CommitSnapshot
<1>2. commit # NoCommit /\ Running /\ force \in BOOLEAN
  BY <1>1 DEF NoCommit, Proper, Types
<1>3. CASE ShipsNothing
  BY <1>1, <1>2, <1>3, NothingProper DEF ShipsNothing, Nothing
<1>4. CASE CommitRebaseline
  <2>1. PICK flushed \in FlushedWal : ShipRange(man.base, flushed, <<>>)
    BY <1>4 DEF CommitRebaseline
  <2>2. StartOf(man, force, shipped) = man.base /\ KeepOf(man, force) = <<>>
    BY <1>4 DEF CommitRebaseline, StartOf, KeepOf
  <2>3. /\ UNCHANGED <<manifest, objs, state, life, man, shipped, lifeBase, dirty, force>>
        /\ UNCHANGED bucket /\ UNCHANGED <<waiters, status>>
    BY <1>4 DEF CommitRebaseline, bucket, fields
  <2>4. Proper' /\ Extends(wal', wal) /\ commit'.phase = "uploading" /\ ShippedOf(commit'.m) = Len(wal')
    BY <1>2, <2>1, <2>2, <2>3, ShipProper
  <2> QED BY <1>1, <2>3, <2>4 DEF StartsToShip
<1>5. ASSUME NEW flushed \in FlushedWal, ~force, ShipRange(shipped, flushed, man.segs),
             UNCHANGED <<bucket, state, life, fields, waiters, status>>
      PROVE  Proper' /\ UNCHANGED bucket /\ StartsToShip
  <2>1. StartOf(man, force, shipped) = shipped /\ KeepOf(man, force) = man.segs
    BY <1>5 DEF StartOf, KeepOf
  <2>2. /\ UNCHANGED <<manifest, objs, state, life, man, shipped, lifeBase, dirty, force>>
        /\ UNCHANGED bucket /\ UNCHANGED <<waiters, status>>
    BY <1>5 DEF bucket, fields
  <2>3. Proper' /\ Extends(wal', wal) /\ commit'.phase = "uploading" /\ ShippedOf(commit'.m) = Len(wal')
    BY <1>2, <1>5, <2>1, <2>2, ShipProper
  <2> QED BY <2>2, <2>3 DEF StartsToShip
<1>6. CASE CommitSnapshot
  <2>1. /\ UNCHANGED <<manifest, objs, state, life, man, shipped, lifeBase, dirty, force>>
        /\ UNCHANGED bucket /\ UNCHANGED <<waiters, status>>
    BY <1>6 DEF CommitSnapshot, bucket, fields
  <2>2. Proper' /\ Extends(wal', wal) /\ commit'.phase = "uploading" /\ ShippedOf(commit'.m) = Len(wal')
    BY <1>2, <1>6, <2>1, SnapshotProper DEF CommitSnapshot
  <2> QED BY <1>1, <2>1, <2>2 DEF StartsToShip
<1>7. CASE CommitNothing
  BY <1>3, <1>7 DEF CommitNothing, ShipsNothing
<1>8. CASE CommitIncremental
  BY <1>1, <1>3, <1>5, <1>8 DEF CommitIncremental, ShipsNothing
<1> QED BY <1>4, <1>6, <1>7, <1>8

LEMMA StillBucket == UNCHANGED bucket => NoRowIsLost
  BY DEF bucket, NoRowIsLost, Durable, Restored, Shipped

LEMMA StepProper == Proper /\ [Next]_vars => Proper' /\ [NoRowIsLost]_vars
<1> SUFFICES ASSUME Proper, [Next]_vars PROVE Proper' /\ [NoRowIsLost]_vars
  OBVIOUS
<1>1. CASE UNCHANGED vars
  <2>1. Proper'
    BY <1>1 DEF vars, bucket, fields, Proper, Types, BucketOk, LifeOk, CommitOk, Running
  <2> QED BY <1>1, <2>1
<1>2. CASE Boot
  BY <1>2, BootProper, StillBucket DEF Boot
<1>3. CASE Flush
  BY <1>3, FlushProper, StillBucket DEF Flush
<1>4. CASE CommitNothing \/ CommitRebaseline \/ CommitIncremental \/ CommitSnapshot
  BY <1>4, CommitStarts, StillBucket
<1>5. CASE Upload
  BY <1>5, UploadStep DEF NoRowIsLost
<1>6. CASE Swap
  BY <1>6, SwapStep DEF NoRowIsLost
<1>7. CASE Close
  BY <1>7, CloseProper, StillBucket DEF Close
<1>8. CASE Crash
  BY <1>8, CrashProper, StillBucket DEF Crash
<1>9. ASSUME NEW r \in Req, Exec(r)
      PROVE  Proper' /\ [NoRowIsLost]_vars
  BY <1>9, ExecProper, StillBucket DEF Exec
<1>10. ASSUME NEW r \in Req, AfterWrite(r)
       PROVE  Proper' /\ [NoRowIsLost]_vars
  BY <1>10, AfterWriteProper, StillBucket DEF AfterWrite
<1> QED BY <1>1, <1>2, <1>3, <1>4, <1>5, <1>6, <1>7, <1>8, <1>9, <1>10 DEF Next, CommitStep

(* The objects of the bucket's manifest are there and the WAL they make    *)
(* is in one piece; the life that runs, its manifest and the commit it has *)
(* under way fit them.                                                     *)
THEOREM CommitInvariance == Spec => []Proper
<1>1. Init => Proper
  BY InitProper
<1>2. Proper /\ [Next]_vars => Proper'
  BY StepProper
<1> QED BY <1>1, <1>2, PTL DEF Spec

LEMMA ProperIsPrefix == Proper => BucketIsPrefix
<1> SUFFICES ASSUME Proper, Running PROVE IsPrefix(Replayed(Restored(manifest)), wal)
  BY DEF BucketIsPrefix, Running
<1>1. /\ Objects(objs) /\ manifest \in Manifests /\ man \in Manifests /\ life \in Nat /\ wal \in Wal
      /\ Lived(objs, man, life, wal, lifeBase, force, shipped)
      /\ Seen(objs, manifest, man, life, wal, lifeBase, force, shipped)
  BY DEF Proper, Types, LifeOk
<1>2. PICK k \in 0..Len(wal) : Replayed(Restoring(objs, manifest)) = Upto(wal, k)
  BY <1>1, BucketReplays
<1>3. Upto(wal, k) \in Wal /\ Len(Upto(wal, k)) = k
  BY <1>1, UptoMeans
<1>4. Len(wal) \in Nat
  BY <1>1, LenProperties DEF Wal
<1>5. SubSeq(Upto(wal, k), 1, Len(Upto(wal, k))) = SubSeq(wal, 1, Len(Upto(wal, k)))
  <2>1. Upto(Upto(wal, k), Len(Upto(wal, k))) = Upto(wal, k)
    BY <1>3, UptoAll
  <2> QED BY <1>3, <2>1 DEF Upto
<1> QED BY <1>2, <1>3, <1>4, <1>5, RestoredIs DEF IsPrefix

(* Whatever crashes, lost replies and ragged ends there were, what a       *)
(* restore replays is a prefix of the WAL of the life that runs: no        *)
(* segment is laid at a wrong place, and no record that was committed is   *)
(* behind a gap.                                                           *)
THEOREM BucketHoldsAPrefix == Spec => []BucketIsPrefix
<1>1. Proper => BucketIsPrefix
  BY ProperIsPrefix
<1> QED BY <1>1, CommitInvariance, PTL

(* A row that the bucket has replayed once it replays for good: no upload, *)
(* swap, delete or reboot takes one away.                                  *)
THEOREM ReplayOnlyGrows == Spec => ReplayGrows
<1>1. Proper /\ [Next]_vars => [NoRowIsLost]_vars
  BY StepProper
<1> QED BY <1>1, CommitInvariance, PTL DEF Spec, ReplayGrows

----------------------------------------------------------------------------
(* Strict mode.  A request that joins a commit whose range is already read *)
(* is answered for a commit that does not have its row, and one that joins *)
(* a commit nobody waits for may be: requests come one at a time here, and *)
(* no reply is lost, which would leave the dirty flag to a flush.          *)

(* What the guarantee of strict mode rests on.                             *)
InTurn == Durability = "strict" /\ MaxOpen = 1 /\ ~LostReplies

(* The row of r is among the records this life wrote, before k.            *)
Logged(w, lb, r, k) == \E i \in (lb + 1)..k : w[i].what = "row" /\ w[i].req = r

(* One request at a time is open, a commit has it waiting and, once the    *)
(* range is chosen, its row in the range; what was answered is durable.    *)
Orderly ==
    /\ status \in [Req -> {"new", "applied", "waiting", "acked", "failed"}]
    /\ waiters = {r \in Req : status[r] = "waiting"}
    /\ Running => man = manifest
    /\ state = "closing" \/ (Running /\ dirty) => commit # NoCommit
    /\ Opened # {} => Running
    /\ commit # NoCommit <=> waiters # {}
    /\ \A q, r \in Opened : q = r
    /\ \A r \in Opened \ Idle : Logged(wal, lifeBase, r, Len(wal))
    /\ commit.phase \in Underway =>
           \A r \in waiters \ Idle : Logged(wal, lifeBase, r, ShippedOf(commit.m))
    /\ \A r \in Req \ Idle : status[r] = "acked" => r \in Durable

LEMMA InitOrderly == Init => Orderly
<1> SUFFICES ASSUME Init PROVE Orderly
  OBVIOUS
<1>1. /\ \A r \in Req : status[r] = "new"
      /\ status \in [Req -> {"new", "applied", "waiting", "acked", "failed"}]
      /\ waiters = {} /\ commit = NoCommit /\ state = "down"
  BY DEF Init
<1>2. Opened = {} /\ waiters = {r \in Req : status[r] = "waiting"}
  BY <1>1 DEF Opened
<1>3. ~Running /\ commit.phase \notin Underway
  BY <1>1 DEF Running, NoCommit, Underway
<1> QED BY <1>1, <1>2, <1>3 DEF Orderly

(* Rows stay logged as the WAL grows, in the longer piece.                 *)
LEMMA LoggedGrows ==
  ASSUME NEW v \in Wal, NEW w \in Wal, Extends(w, v), NEW lb \in Nat, NEW r,
         NEW k \in 0..Len(v), Logged(v, lb, r, k), NEW j \in k..Len(w)
  PROVE  Logged(w, lb, r, j)
<1>1. PICK i \in (lb + 1)..k : v[i].what = "row" /\ v[i].req = r
  BY DEF Logged
<1>2. Len(v) \in Nat /\ Len(w) \in Nat
  BY ExtendsMeans
<1>3. i \in 1..Len(v) /\ i \in (lb + 1)..j
  BY <1>1, <1>2
<1>4. w[i] = v[i]
  BY <1>3, ExtendsMeans
<1> QED BY <1>1, <1>3, <1>4 DEF Logged

(* Once a life has committed, the bucket restores all that it shipped.     *)
LEMMA LivedReaches ==
  ASSUME NEW o, Objects(o), NEW a \in Manifests, NEW n \in Nat, NEW w \in Wal, NEW lb, NEW f, NEW sh,
         ~f, Lived(o, a, n, w, lb, f, sh)
  PROVE  \E k \in 0..Len(w) : Restoring(o, a) = Upto(w, k) /\ sh <= k /\ sh \in 0..Len(w)
<1>1. Stored(o, a, n) /\ sh \in 0..Len(w) /\ Lead(o, a) \o Joined(o, a.segs) = Upto(w, sh)
  BY DEF Lived, Based, KeepOf, StartOf
<1>2. PICK k \in 0..Len(w) : Restoring(o, a) = Upto(w, k)
  BY DEF Lived
<1>3. Len(w) \in Nat
  BY LenProperties DEF Wal
<1>4. CASE a.segs # <<>>
  <2>1. Restoring(o, a) = Upto(w, sh)
    BY <1>1, <1>4 DEF Restoring
  <2> QED BY <1>1, <1>3, <2>1
<1>5. CASE a.segs = <<>>
  <2>1. Lead(o, a) \in Wal /\ Len(Lead(o, a)) = a.base /\ a.base \in 0..Len(Restoring(o, a))
    BY <1>1, RestoringMeans
  <2>2. Lead(o, a) = Upto(w, sh)
    BY <1>1, <1>5, <2>1, JoinedEmpty, ConcatEmptySeq DEF Wal
  <2>3. Len(Upto(w, sh)) = sh /\ Len(Upto(w, k)) = k
    BY <1>1, UptoMeans
  <2>4. sh <= k
    BY <1>1, <1>2, <1>3, <2>1, <2>2, <2>3
  <2> QED BY <1>1, <1>2, <2>4
<1> QED BY <1>4, <1>5

LEMMA LoggedIsDurable ==
  ASSUME NEW o, Objects(o), NEW a \in Manifests, NEW n \in Nat, NEW w \in Wal, NEW lb \in Nat, NEW f, NEW sh,
         ~f, Lived(o, a, n, w, lb, f, sh), NEW r, Logged(w, lb, r, sh)
  PROVE  r \in Rows(Replayed(Restoring(o, a)))
<1>1. PICK k \in 0..Len(w) : Restoring(o, a) = Upto(w, k) /\ sh <= k /\ sh \in 0..Len(w)
  BY LivedReaches
<1>2. Upto(w, k) \in Wal /\ Untorn(Upto(w, k))
  BY UptoMeans, UntornUpto DEF Lived
<1>3. Rows(Replayed(Upto(w, k))) = Rows(Upto(w, k))
  BY <1>2, ReplayedRows
<1>4. Rows(Upto(w, k)) = {w[i].req : i \in {j \in 1..k : w[j].what = "row"}}
  BY RowsUpto
<1>5. PICK i \in (lb + 1)..sh : w[i].what = "row" /\ w[i].req = r
  BY DEF Logged
<1>6. Len(w) \in Nat
  BY LenProperties DEF Wal
<1>7. i \in 1..k
  BY <1>1, <1>5, <1>6
<1> QED BY <1>1, <1>3, <1>4, <1>5, <1>7

(* A waiting request is the only one open.                                 *)
LEMMA WaitersAreOpen ==
  ASSUME Orderly
  PROVE  /\ waiters = {r \in Opened : status[r] = "waiting"}
         /\ \A r \in Opened : waiters # {} => status[r] = "waiting"
  BY DEF Orderly, Opened

LEMMA ExecOrderly ==
  ASSUME InTurn, Proper, Proper', Orderly, NEW q \in Req, Exec(q)
  PROVE  Orderly'
<1>1. /\ UNCHANGED <<manifest, objs, state, life, pads, man, shipped, lifeBase, dirty, force, commit, waiters>>
      /\ Running /\ status[q] = "new" /\ status' = [status EXCEPT ![q] = "applied"]
  BY DEF Exec, bucket, fields, Running
<1>2. Opened = {}
  <2>1. Cardinality(Opened) < 1
    BY DEF Exec, InTurn
  <2>2. ASSUME NEW r \in Opened PROVE FALSE
    <3>1. Opened = {r}
      BY DEF Orderly
    <3>2. Cardinality({r}) = 1
      BY FS_Singleton
    <3> QED BY <2>1, <3>1, <3>2
  <2> QED BY <2>2
<1>3. waiters = {} /\ commit = NoCommit
  BY <1>2, WaitersAreOpen DEF Orderly
<1>4. status' \in [Req -> {"new", "applied", "waiting", "acked", "failed"}] /\ Opened' = {q}
  BY <1>1, <1>2 DEF Orderly, Opened
<1>5. waiters' = {r \in Req : status'[r] = "waiting"}
  BY <1>1, <1>3 DEF Orderly
<1>6. ASSUME q \notin Idle PROVE Logged(wal', lifeBase', q, Len(wal'))
  <2>1. wal' = Append(wal, Row(q)) /\ wal \in Wal /\ life \in Nat
    BY <1>6 DEF Exec, Proper, Types
  <2>2. Row(q) \in Recs /\ Row(q).what = "row" /\ Row(q).req = q
    BY <1>6, <2>1, RecsAre DEF Row
  <2>3. Untorn(wal) /\ wal[Len(wal)].life = life /\ lifeBase \in 1..Len(wal)
    BY <1>1 DEF Proper, LifeOk, Lived
  <2>4. Len(wal') = Len(wal) + 1 /\ wal'[Len(wal')] = Row(q) /\ Len(wal) \in Nat
    BY <2>1, <2>2, <2>3, AppendGrows DEF Row
  <2>5. Len(wal') \in (lifeBase + 1)..Len(wal')
    BY <2>3, <2>4
  <2> QED BY <1>1, <2>2, <2>4, <2>5 DEF Logged
<1>7. \A r \in Req \ Idle : status'[r] = "acked" => r \in Durable'
  <2>1. Durable' = Durable
    BY <1>1 DEF Durable, Restored, Shipped
  <2> QED BY <1>1, <2>1 DEF Orderly
<1>8. Running' /\ man' = manifest' /\ (state' = "closing" \/ (Running' /\ dirty') => commit' # NoCommit)
  BY <1>1 DEF Orderly, Running
<1>9. commit' = NoCommit /\ commit'.phase \notin Underway
  BY <1>1, <1>3 DEF NoCommit, Underway
<1>10. commit' # NoCommit <=> waiters' # {}
  BY <1>1, <1>3
<1>11. \A r \in Opened' \ Idle : Logged(wal', lifeBase', r, Len(wal'))
  BY <1>4, <1>6
<1> QED BY <1>4, <1>5, <1>7, <1>8, <1>9, <1>10, <1>11 DEF Orderly

LEMMA AfterWriteOrderly ==
  ASSUME InTurn, Proper, Orderly, NEW q \in Req, AfterWrite(q)
  PROVE  Orderly'
<1>1. /\ UNCHANGED <<manifest, objs, state, life, pads, wal, man, shipped, lifeBase, force>>
      /\ Running /\ status[q] = "applied" /\ dirty' = TRUE
  BY DEF AfterWrite, bucket, Running
<1>2. q \in Opened /\ Opened = {q}
  BY <1>1 DEF Orderly, Opened
<1>3. waiters = {} /\ commit = NoCommit
  BY <1>1, <1>2, WaitersAreOpen DEF Orderly
<1>4. state = "up"
  BY <1>1, <1>3 DEF Orderly, Running
<1>5. status' = [status EXCEPT ![q] = "waiting"] /\ waiters' = {q} /\ commit' = [phase |-> "pacing"]
  BY <1>3, <1>4 DEF AfterWrite, InTurn
<1>6. status' \in [Req -> {"new", "applied", "waiting", "acked", "failed"}] /\ Opened' = {q}
  BY <1>2, <1>5 DEF Orderly, Opened
<1>7. waiters' = {r \in Req : status'[r] = "waiting"}
  BY <1>3, <1>5 DEF Orderly
<1>8. q \notin Idle => Logged(wal', lifeBase', q, Len(wal'))
  BY <1>1, <1>2 DEF Orderly
<1>9. \A r \in Req \ Idle : status'[r] = "acked" => r \in Durable'
  <2>1. Durable' = Durable
    BY <1>1 DEF Durable, Restored, Shipped
  <2> QED BY <1>5, <2>1 DEF Orderly
<1>10. commit' # NoCommit /\ commit'.phase \notin Underway /\ Running' /\ man' = manifest'
  BY <1>1, <1>4, <1>5 DEF NoCommit, Underway, Orderly, Running
<1> QED BY <1>5, <1>6, <1>7, <1>8, <1>9, <1>10 DEF Orderly

LEMMA ShipOrderly ==
  ASSUME Proper, Proper', Orderly, commit # NoCommit, StartsToShip
  PROVE  Orderly'
<1>1. /\ UNCHANGED <<manifest, objs, state, life, man, shipped, lifeBase, dirty, force, waiters, status>>
      /\ Extends(wal', wal) /\ commit'.phase = "uploading" /\ ShippedOf(commit'.m) = Len(wal')
  BY DEF StartsToShip
<1>2. wal \in Wal /\ wal' \in Wal /\ lifeBase \in Nat
  BY DEF Proper, Types
<1>3. Len(wal) \in 0..Len(wal) /\ Len(wal') \in Len(wal)..Len(wal')
  BY <1>1, <1>2, ExtendsMeans
<1>4. Opened' = Opened
  BY <1>1 DEF Opened
<1>5. \A r \in Opened \ Idle : Logged(wal', lifeBase, r, Len(wal'))
  BY <1>1, <1>2, <1>3, LoggedGrows DEF Orderly
<1>6. waiters \subseteq Opened
  BY WaitersAreOpen
<1>7. \A r \in Req \ Idle : status'[r] = "acked" => r \in Durable'
  <2>1. Durable' = Durable
    BY <1>1 DEF Durable, Restored, Shipped
  <2> QED BY <1>1, <2>1 DEF Orderly
<1>8. commit' # NoCommit /\ Running' = Running
  BY <1>1 DEF NoCommit, Running
<1> QED BY <1>1, <1>4, <1>5, <1>6, <1>7, <1>8 DEF Orderly

(* A commit that succeeds answers the one request there is.                *)
LEMMA SettleOrderly ==
  ASSUME Orderly, commit # NoCommit, Settle("acked"), dirty' = FALSE, NoRowIsLost,
         Running' => man' = manifest',
         \A r \in waiters \ Idle : r \in Durable'
  PROVE  Orderly'
<1>1. /\ commit' = NoCommit /\ waiters' = {}
      /\ status' = [r \in Req |-> IF r \in waiters THEN "acked"
                                 ELSE IF state = "closing" THEN Cut(r) ELSE status[r]]
      /\ state' = IF state = "closing" THEN "down" ELSE state
  BY DEF Settle
<1>2. waiters # {}
  BY DEF Orderly
<1>3. Opened = waiters
  BY <1>2, WaitersAreOpen
<1>4. \A r \in Req : status'[r] = IF r \in waiters THEN "acked" ELSE status[r]
  BY <1>1, <1>3 DEF Cut
<1>5. Opened' = {}
  BY <1>3, <1>4 DEF Opened
<1>6. status' \in [Req -> {"new", "applied", "waiting", "acked", "failed"}]
  <2>1. \A r \in Req : status[r] \in {"new", "applied", "waiting", "acked", "failed"}
    BY DEF Orderly
  <2>2. \A r \in Req : status'[r] \in {"new", "applied", "waiting", "acked", "failed"}
    BY <1>4, <2>1
  <2> QED BY <1>1, <2>2
<1>7. waiters' = {r \in Req : status'[r] = "waiting"}
  BY <1>1, <1>4 DEF Orderly
<1>8. \A r \in Req \ Idle : status'[r] = "acked" => r \in Durable'
  BY <1>4 DEF Orderly, NoRowIsLost
<1>9. state' # "closing" /\ commit'.phase \notin Underway
  BY <1>1 DEF NoCommit, Underway
<1> QED BY <1>1, <1>5, <1>6, <1>7, <1>8, <1>9 DEF Orderly

LEMMA NothingOrderly ==
  ASSUME Proper, Orderly, commit # NoCommit, ShipsNothing
  PROVE  Orderly'
<1>1. /\ Settle("acked") /\ dirty' = FALSE
      /\ UNCHANGED <<manifest, objs, life, pads, wal, man, shipped, lifeBase, force>>
  BY DEF ShipsNothing, Nothing, bucket
<1>2. Durable' = Durable
  BY <1>1 DEF Durable, Restored, Shipped
<1>3. Running /\ man = manifest
  BY DEF Orderly, Proper, Types
<1>4. Running' => man' = manifest'
  BY <1>1, <1>3
<1>5. /\ Objects(objs) /\ man \in Manifests /\ life \in Nat /\ wal \in Wal /\ lifeBase \in Nat /\ Len(wal) \in Nat
      /\ Lived(objs, man, life, wal, lifeBase, force, shipped)
  BY <1>3, LenProperties DEF Proper, Types, LifeOk, Wal
<1>6. ASSUME NEW r \in waiters \ Idle PROVE r \in Durable
  <2>1. Logged(wal, lifeBase, r, Len(wal))
    BY WaitersAreOpen DEF Orderly
  <2>2. ~NoGrowth
    BY <1>5, <2>1 DEF NoGrowth, Logged
  <2>3. ~force /\ Len(wal) = shipped
    BY <2>2 DEF ShipsNothing
  <2>4. r \in Rows(Replayed(Restoring(objs, man)))
    BY <1>5, <2>1, <2>3, LoggedIsDurable
  <2> QED BY <1>3, <2>4, DurableIs
<1> QED BY <1>1, <1>2, <1>4, <1>6, SettleOrderly DEF NoRowIsLost

LEMMA UploadOrderly ==
  ASSUME InTurn, Proper, Orderly, Upload, NoRowIsLost
  PROVE  Orderly'
<1>1. /\ commit.phase = "uploading" /\ commit' = [commit EXCEPT !.phase = "swapping"]
      /\ UNCHANGED <<manifest, life, pads, wal, man, shipped, lifeBase, dirty, force, state, waiters, status>>
  BY DEF Upload, InTurn, fields
<1>2. commit.phase \in Underway /\ commit # NoCommit
  BY <1>1 DEF Underway, NoCommit
<1>3. commit \in [phase : Underway, key : Keys, m : Manifests]
  BY <1>2, CommitTypes DEF Proper
<1>4. commit'.m = commit.m /\ commit' # NoCommit
  BY <1>1, <1>3 DEF NoCommit
<1>5. Opened' = Opened /\ Running' = Running
  BY <1>1 DEF Opened, Running
<1>6. \A r \in Req \ Idle : status'[r] = "acked" => r \in Durable'
  BY <1>1 DEF Orderly, NoRowIsLost
<1>7. \A r \in waiters \ Idle : Logged(wal, lifeBase, r, ShippedOf(commit.m))
  BY <1>2 DEF Orderly
<1>8. \A r \in waiters' \ Idle : Logged(wal', lifeBase', r, ShippedOf(commit'.m))
  BY <1>1, <1>4, <1>7
<1>9. commit' # NoCommit <=> waiters' # {}
  BY <1>1, <1>2, <1>4 DEF Orderly
<1> QED BY <1>1, <1>2, <1>4, <1>5, <1>6, <1>8, <1>9 DEF Orderly

LEMMA SwapOrderly ==
  ASSUME InTurn, Proper, Proper', Orderly, Swap, NoRowIsLost
  PROVE  Orderly'
<1>1. commit.phase = "swapping" /\ commit.phase \in Underway /\ commit # NoCommit
  BY DEF Swap, Underway, NoCommit
<1>2. Running /\ man = manifest
  BY <1>1 DEF Orderly, Proper, Types
<1>3. Settle("acked") /\ Advance /\ manifest' = [commit.m EXCEPT !.etag = manifest.etag + 1]
  BY <1>2 DEF Swap, InTurn
<1>4. man' = manifest' /\ dirty' = FALSE /\ force' = FALSE /\ shipped' = ShippedOf(manifest')
  BY <1>3 DEF Advance, ShippedOf
<1>5. manifest'.base = commit.m.base /\ manifest'.segs = commit.m.segs
  <2>1. commit \in [phase : Underway, key : Keys, m : Manifests]
    BY <1>1, CommitTypes DEF Proper
  <2>2. commit.m \in Manifests
    BY <2>1
  <2> QED BY <1>3, <2>2 DEF Manifests
<1>6. shipped' = ShippedOf(commit.m) /\ UNCHANGED <<wal, lifeBase>>
  BY <1>4, <1>5 DEF ShippedOf, Swap
<1>7. ASSUME NEW r \in waiters \ Idle PROVE r \in Durable'
  <2>1. Logged(wal', lifeBase', r, shipped')
    BY <1>1, <1>6 DEF Orderly
  <2>2. /\ Objects(objs') /\ man' \in Manifests /\ life' \in Nat /\ wal' \in Wal /\ lifeBase' \in Nat
        /\ Lived(objs', man', life', wal', lifeBase', force', shipped')
    BY <1>2, <1>3, SwapStep DEF Proper, Types
  <2>3. r \in Rows(Replayed(Restoring(objs', man')))
    BY <1>4, <2>1, <2>2, LoggedIsDurable
  <2> QED BY <1>4, <2>3, RestoredIs DEF Durable, Restored, Shipped, Restoring, Joined, Lead, Upto
<1> QED BY <1>1, <1>3, <1>4, <1>7, SettleOrderly

LEMMA BootOrderly ==
  ASSUME Proper', Orderly, Boot
  PROVE  Orderly'
<1>1. /\ state = "down" /\ UNCHANGED <<manifest, objs, commit, waiters, status>>
      /\ (state' = "up" /\ man' = manifest) \/ state' = "bricked"
      /\ dirty' = FALSE
  BY DEF Boot, bucket
<1>2. Opened = {} /\ Opened' = Opened
  BY <1>1 DEF Orderly, Running, Opened
<1>3. waiters = {} /\ commit = NoCommit
  BY <1>2, WaitersAreOpen DEF Orderly
<1>4. commit' = NoCommit /\ commit'.phase \notin Underway
  BY <1>1, <1>3 DEF NoCommit, Underway
<1>5. Running' => man' = manifest'
  BY <1>1 DEF Running
<1>6. \A r \in Req \ Idle : status'[r] = "acked" => r \in Durable'
  <2>1. Durable' = Durable
    BY <1>1 DEF Durable, Restored, Shipped
  <2> QED BY <1>1, <2>1 DEF Orderly
<1> QED BY <1>1, <1>2, <1>3, <1>4, <1>5, <1>6 DEF Orderly

(* The process has ended: what was open has failed, what was answered is   *)
(* where it was.                                                           *)
LEMMA EndedOrderly ==
  ASSUME Orderly, UNCHANGED <<manifest, objs>>, state' = "down", commit' = NoCommit,
         waiters' = {}, status' = [r \in Req |-> Cut(r)]
  PROVE  Orderly'
<1>1. \A r \in Req : /\ status[r] \in {"new", "applied", "waiting", "acked", "failed"}
                     /\ status'[r] = IF status[r] \in {"applied", "waiting"} THEN "failed" ELSE status[r]
  BY DEF Orderly, Cut, Opened
<1>2. status' \in [Req -> {"new", "applied", "waiting", "acked", "failed"}]
  BY <1>1
<1>3. Opened' = {} /\ waiters' = {r \in Req : status'[r] = "waiting"}
  BY <1>1 DEF Opened
<1>4. ~Running' /\ commit'.phase \notin Underway
  BY DEF Running, NoCommit, Underway
<1>5. \A r \in Req \ Idle : status'[r] = "acked" => r \in Durable'
  <2>1. Durable' = Durable
    BY DEF Durable, Restored, Shipped
  <2> QED BY <1>1, <2>1 DEF Orderly
<1> QED BY <1>2, <1>3, <1>4, <1>5 DEF Orderly

LEMMA CloseOrderly ==
  ASSUME Orderly, Close
  PROVE  Orderly'
<1>1. /\ state = "up" /\ Running
      /\ UNCHANGED <<manifest, objs, life, pads, wal, man, shipped, lifeBase, dirty, force, waiters>>
  BY DEF Close, bucket, fields, Running
<1>2. CASE dirty
  <2>1. commit # NoCommit
    BY <1>1, <1>2 DEF Orderly
  <2>2. state' = "closing" /\ UNCHANGED <<commit, status>>
    BY <1>2, <2>1 DEF Close
  <2>3. Running' /\ Opened' = Opened
    BY <2>2 DEF Running, Opened
  <2>4. Durable' = Durable
    BY <1>1 DEF Durable, Restored, Shipped
  <2> QED BY <1>1, <2>1, <2>2, <2>3, <2>4 DEF Orderly
<1>3. CASE ~dirty
  <2>1. commit = NoCommit /\ commit' = NoCommit /\ state' = "down" /\ status' = [r \in Req |-> Cut(r)]
    BY <1>3 DEF Close
  <2>2. waiters' = {}
    BY <1>1, <2>1 DEF Orderly
  <2> QED BY <1>1, <2>1, <2>2, EndedOrderly
<1> QED BY <1>2, <1>3

LEMMA FlushNever == ASSUME Orderly, Flush PROVE FALSE
  BY DEF Orderly, Flush, Running

LEMMA OrderlyStep == InTurn /\ Proper /\ Orderly /\ [Next]_vars => Orderly'
<1> SUFFICES ASSUME InTurn, Proper, Orderly, [Next]_vars PROVE Orderly'
  OBVIOUS
<1>1. Proper' /\ [NoRowIsLost]_vars
  BY StepProper
<1>2. CASE UNCHANGED vars
  BY <1>2 DEF vars, bucket, fields, Orderly, Opened, Running, Durable, Restored, Shipped
<1>3. CASE Boot
  BY <1>1, <1>3, BootOrderly
<1>4. CASE Flush
  BY <1>4, FlushNever
<1>5. CASE CommitNothing \/ CommitRebaseline \/ CommitIncremental \/ CommitSnapshot
  <2>1. commit.phase = "pacing" /\ (StartsToShip \/ ShipsNothing)
    BY <1>5, CommitStarts
  <2>2. commit # NoCommit
    BY <2>1 DEF NoCommit
  <2> QED BY <1>1, <2>1, <2>2, ShipOrderly, NothingOrderly
<1>6. [NoRowIsLost]_vars => NoRowIsLost
  BY DEF vars, bucket, NoRowIsLost, Durable, Restored, Shipped
<1>7. CASE Upload
  BY <1>1, <1>6, <1>7, UploadOrderly
<1>8. CASE Swap
  BY <1>1, <1>6, <1>8, SwapOrderly
<1>9. CASE Close
  BY <1>9, CloseOrderly
<1>10. CASE Crash
  BY <1>10, EndedOrderly DEF Crash, bucket
<1>11. ASSUME NEW r \in Req, Exec(r) PROVE Orderly'
  BY <1>1, <1>11, ExecOrderly
<1>12. ASSUME NEW r \in Req, AfterWrite(r) PROVE Orderly'
  BY <1>12, AfterWriteOrderly
<1> QED BY <1>2, <1>3, <1>4, <1>5, <1>7, <1>8, <1>9, <1>10, <1>11, <1>12 DEF Next, CommitStep

LEMMA OrderlyAlways == ASSUME InTurn PROVE Spec => [](Proper /\ Orderly)
<1>1. Init => Proper /\ Orderly
  BY InitProper, InitOrderly
<1>2. Proper /\ Orderly /\ [Next]_vars => Proper' /\ Orderly'
  BY OrderlyStep, StepProper
<1> QED BY <1>1, <1>2, PTL DEF Spec

(* In strict mode, to clients that write one at a time over a store that   *)
(* loses no reply, a write that has returned is in the bucket and replays, *)
(* whatever crashes, reboots and closes there are: afterWrite() answers    *)
(* for a commit that read its range after the row was logged.              *)
THEOREM StrictWritesAreDurable ==
  ASSUME InTurn
  PROVE  Spec => []StrictAck
<1>1. Orderly => StrictAck
  BY DEF Orderly, StrictAck
<1> QED BY <1>1, OrderlyAlways, PTL

(* Under the same conditions a database that is neither dirty nor          *)
(* committing holds no answered row that the bucket lacks: close(), an     *)
(* idle stop and an eviction may drop it.                                  *)
THEOREM CleanIsDurable ==
  ASSUME InTurn
  PROVE  Spec => []CleanMeansDurable
<1>1. ASSUME Proper, Orderly, NEW r \in Req, status[r] = "acked", r \in Rows(wal)
      PROVE  r \in Durable
  <2>1. PICK i \in DOMAIN wal : wal[i].what = "row" /\ wal[i].req = r
    BY <1>1 DEF Rows
  <2>2. wal \in Seq(Recs)
    BY <1>1 DEF Proper, Types, Wal
  <2>3. wal[i] \in Recs
    BY <2>1, <2>2
  <2>4. r \notin Idle
    BY <2>1, <2>3 DEF Recs
  <2> QED BY <1>1, <2>4 DEF Orderly
<1>2. Proper /\ Orderly => CleanMeansDurable
  BY <1>1 DEF CleanMeansDurable
<1> QED BY <1>2, OrderlyAlways, PTL
=============================================================================
