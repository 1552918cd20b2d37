------------------------- MODULE ColdArchiveProofs -------------------------
(***************************************************************************)
(* Theorems about the cold archive, for any number of overlapping backups  *)
(* and retentions and for every retention policy: no backup that has been  *)
(* reported is lost, an entry without its object is one that a retention   *)
(* deleted, a retention deletes nothing that its policy would keep by now, *)
(* and, as long as the clock and the commitSeq of the primary go forward,  *)
(* a restore gets the latest commit the archive holds.                     *)
(***************************************************************************)
EXTENDS ColdArchive, FiniteSetTheorems, WellFoundedInduction, TLAPS

Rules == [keepLast : Nat, maxAge : Nat, gfs : Nat]

LaterBuckets(list, b) == {c \in {Bucket(f) : f \in list} : c > b}

(* What Retain() does not keep of a list, whether it is in the list or not:*)
(* the negation of each part of the policy p on day t.                     *)
Dispensable(p, list, t, e) ==
    /\ LaterOnes(list, e) # {}
    /\ p.keepLast <= Cardinality(LaterOnes(list, e))
    /\ p.maxAge = 0 \/ e.at < t - p.maxAge
    /\ \/ \E f \in list : Bucket(f) = Bucket(e) /\ Later(f, e)
       \/ p.gfs <= Cardinality(LaterBuckets(list, Bucket(e)))

----------------------------------------------------------------------------
(* Finite sets and what is last in them.                                   *)

Before == {p \in Nat \X Nat : p[1] < p[2]}

LEMMA BeforeIsWellFounded == IsWellFoundedOn(Before, Nat)
  BY NatLessThanWellFounded DEF OpToRel, Before

(* A set of numbers has a least one.                                       *)
LEMMA LeastNumber ==
  ASSUME NEW T \in SUBSET Nat, T # {}
  PROVE  \E x \in T : \A y \in T : x <= y
<1>1. PICK x \in T : \A y \in T : ~(<<y, x>> \in Before)
  BY BeforeIsWellFounded, WFMin, Zenon
<1>2. ASSUME NEW y \in T PROVE x <= y
  <2>1. x \in Nat /\ y \in Nat
    OBVIOUS
  <2>2. ~(<<y, x>>[1] < <<y, x>>[2])
    BY <1>1, <2>1 DEF Before
  <2> QED BY <2>1, <2>2
<1> QED BY <1>2

(* A finite set has an element with none before it, in whatever order: one *)
(* that the fewest come before.                                            *)
LEMMA FirstElement ==
  ASSUME NEW S, IsFiniteSet(S), S # {}, NEW R,
         \A x \in S : <<x, x>> \notin R,
         \A x, y, z \in S : <<x, y>> \in R /\ <<y, z>> \in R => <<x, z>> \in R
  PROVE  \E x \in S : \A y \in S : <<y, x>> \notin R
<1> DEFINE Prior(x) == {y \in S : <<y, x>> \in R}
           T == {Cardinality(Prior(x)) : x \in S}
<1>1. ASSUME NEW x \in S PROVE IsFiniteSet(Prior(x)) /\ Cardinality(Prior(x)) \in Nat
  <2>1. Prior(x) \in SUBSET S
    OBVIOUS
  <2> HIDE DEF Prior
  <2> QED BY <2>1, FS_Subset, FS_CardinalityType
<1>2. T \in SUBSET Nat /\ T # {}
  <2> HIDE DEF Prior
  <2> QED BY <1>1
<1>3. PICK least \in T : \A n \in T : least <= n
  <2> HIDE DEF T
  <2> QED BY <1>2, LeastNumber
<1>4. PICK x \in S : least = Cardinality(Prior(x))
  BY <1>3
<1>5. ASSUME NEW y \in S, <<y, x>> \in R PROVE FALSE
  <2>1. Prior(y) \in SUBSET Prior(x)
    BY <1>5
  <2>2. y \in Prior(x) /\ y \notin Prior(y)
    BY <1>5
  <2> HIDE DEF Prior
  <2>3. Cardinality(Prior(x)) <= Cardinality(Prior(y))
    <3>1. Cardinality(Prior(y)) \in T
      OBVIOUS
    <3> QED BY <3>1, <1>3, <1>4
  <2>4. Cardinality(Prior(y)) <= Cardinality(Prior(x))
    BY <2>1, <1>1, FS_Subset
  <2>5. Cardinality(Prior(y)) = Cardinality(Prior(x))
    BY <2>3, <2>4, <1>1
  <2>6. Prior(x) = Prior(y)
    BY <2>1, <2>5, <1>1, FS_Subset
  <2> QED BY <2>2, <2>6
<1> QED BY <1>5

LEMMA BucketIsNumber ==
  ASSUME NEW e \in Entries
  PROVE  Bucket(e) \in Int
  BY ArchiveAssumption DEF Entries, Bucket

(* Of some entries, one is the last.                                       *)
LEMMA LastEntry ==
  ASSUME NEW S \in SUBSET Entries, IsFiniteSet(S), S # {}
  PROVE  \E x \in S : \A y \in S : ~Later(y, x)
<1> DEFINE R == {p \in Entries \X Entries : Later(p[1], p[2])}
<1>1. \A x, y \in Entries : <<x, y>> \in R <=> Later(x, y)
  OBVIOUS
<1>2. \A x \in S : <<x, x>> \notin R
  BY <1>1 DEF Later, Entries
<1>3. ASSUME NEW x \in S, NEW y \in S, NEW z \in S, Later(x, y), Later(y, z)
      PROVE  Later(x, z)
  <2>1. x \in Entries /\ y \in Entries /\ z \in Entries
    OBVIOUS
  <2> QED BY <1>3, <2>1 DEF Later, Entries
<1>4. \A x, y, z \in S : <<x, y>> \in R /\ <<y, z>> \in R => <<x, z>> \in R
  BY <1>1, <1>3
<1> HIDE DEF R
<1>5. \E x \in S : \A y \in S : <<y, x>> \notin R
  BY <1>2, <1>4, FirstElement
<1> QED BY <1>1, <1>5

(* Of some numbers, finitely many, one is the greatest.                    *)
LEMMA GreatestNumber ==
  ASSUME NEW S \in SUBSET Int, IsFiniteSet(S), S # {}
  PROVE  \E x \in S : \A y \in S : y <= x
<1> DEFINE R == {p \in Int \X Int : p[1] > p[2]}
<1>1. \A x, y \in Int : <<x, y>> \in R <=> x > y
  OBVIOUS
<1>2. \A x \in S : <<x, x>> \notin R
  BY <1>1
<1>3. \A x, y, z \in S : <<x, y>> \in R /\ <<y, z>> \in R => <<x, z>> \in R
  BY <1>1
<1> HIDE DEF R
<1>4. PICK x \in S : \A y \in S : <<y, x>> \notin R
  BY <1>2, <1>3, FirstElement
<1>5. \A y \in S : ~(y > x)
  BY <1>1, <1>4
<1> QED BY <1>5

(* A list has finitely many buckets.                                       *)
LEMMA BucketsAreFinite ==
  ASSUME NEW list \in SUBSET Entries, IsFiniteSet(list)
  PROVE  IsFiniteSet({Bucket(f) : f \in list})
<1> DEFINE B == {Bucket(f) : f \in list}
           g == [f \in list |-> Bucket(f)]
<1>1. g \in Surjection(list, B)
  BY DEF Surjection
<1> HIDE DEF B, g
<1>2. IsFiniteSet(B)
  BY <1>1, FS_Surjection
<1> QED BY <1>2 DEF B

(* Both measures a policy counts are of finite sets.                       *)
LEMMA MeasuresAreFinite ==
  ASSUME NEW list \in SUBSET Entries, IsFiniteSet(list)
  PROVE  /\ \A e : IsFiniteSet(LaterOnes(list, e)) /\ Cardinality(LaterOnes(list, e)) \in Nat
         /\ \A b : /\ IsFiniteSet(LaterBuckets(list, b))
                   /\ Cardinality(LaterBuckets(list, b)) \in Nat
<1>1. ASSUME NEW e
      PROVE  IsFiniteSet(LaterOnes(list, e)) /\ Cardinality(LaterOnes(list, e)) \in Nat
  <2>1. LaterOnes(list, e) \in SUBSET list
    BY DEF LaterOnes
  <2> QED BY <2>1, FS_Subset, FS_CardinalityType
<1>2. ASSUME NEW b
      PROVE  IsFiniteSet(LaterBuckets(list, b)) /\ Cardinality(LaterBuckets(list, b)) \in Nat
  <2>1. LaterBuckets(list, b) \in SUBSET {Bucket(f) : f \in list}
    BY DEF LaterBuckets
  <2> QED BY <2>1, BucketsAreFinite, FS_Subset, FS_CardinalityType
<1> QED BY <1>1, <1>2

----------------------------------------------------------------------------
(* What a policy can do without, of a list that is rewritten.              *)

LEMMA RetainMeans ==
  ASSUME NEW list \in SUBSET Entries, IsFiniteSet(list), NEW t \in Int, policy \in Rules,
         NEW e \in Entries
  PROVE  /\ e \in list \ Retain(list, t) => Dispensable(policy, list, t, e)
         /\ Dispensable(policy, list, t, e) => e \notin Retain(list, t)
<1> DEFINE n == Cardinality(LaterOnes(list, e))
           g == Cardinality(LaterBuckets(list, Bucket(e)))
<1>1. n \in Nat /\ g \in Nat
  BY MeasuresAreFinite
<1>2. e.at \in Nat /\ policy.keepLast \in Nat /\ policy.maxAge \in Nat /\ policy.gfs \in Nat
  BY DEF Entries, Rules
<1>3. g = Cardinality({b \in {Bucket(f) : f \in list} : b > Bucket(e)})
  BY DEF LaterBuckets
<1>4. e \in GfsKeep(list, policy.gfs) <=>
        e \in list /\ (\A f \in list : Bucket(f) = Bucket(e) => ~Later(f, e)) /\ g < policy.gfs
  BY <1>3 DEF GfsKeep
<1>5. e \in Retain(list, t) <=>
        /\ e \in list
        /\ \/ LaterOnes(list, e) = {}
           \/ n < policy.keepLast
           \/ policy.maxAge > 0 /\ e.at >= t - policy.maxAge
           \/ e \in GfsKeep(list, policy.gfs)
  BY DEF Retain
<1>6. Dispensable(policy, list, t, e) <=>
        /\ LaterOnes(list, e) # {}
        /\ policy.keepLast <= n
        /\ policy.maxAge = 0 \/ e.at < t - policy.maxAge
        /\ (\E f \in list : Bucket(f) = Bucket(e) /\ Later(f, e)) \/ policy.gfs <= g
  BY DEF Dispensable
<1> HIDE DEF n, g
<1> QED BY <1>1, <1>2, <1>4, <1>5, <1>6

(* An entry more changes nothing, nor does time.                           *)
LEMMA StillDispensable ==
  ASSUME NEW p \in Rules, NEW list \in SUBSET Entries, IsFiniteSet(list), NEW x \in Entries,
         NEW t \in Int, NEW u \in Int, t <= u, NEW e \in Entries, Dispensable(p, list, t, e)
  PROVE  Dispensable(p, list \cup {x}, u, e)
<1> DEFINE more == list \cup {x}
<1>1. more \in SUBSET Entries /\ IsFiniteSet(more)
  BY FS_AddElement
<1>2. LaterOnes(list, e) \in SUBSET LaterOnes(more, e)
  BY DEF LaterOnes
<1>3. LaterBuckets(list, Bucket(e)) \in SUBSET LaterBuckets(more, Bucket(e))
  BY DEF LaterBuckets
<1>4. /\ Cardinality(LaterOnes(list, e)) <= Cardinality(LaterOnes(more, e))
      /\ Cardinality(LaterOnes(list, e)) \in Nat /\ Cardinality(LaterOnes(more, e)) \in Nat
  BY <1>1, <1>2, MeasuresAreFinite, FS_Subset
<1>5. /\ Cardinality(LaterBuckets(list, Bucket(e))) <= Cardinality(LaterBuckets(more, Bucket(e)))
      /\ Cardinality(LaterBuckets(list, Bucket(e))) \in Nat
      /\ Cardinality(LaterBuckets(more, Bucket(e))) \in Nat
  BY <1>1, <1>3, MeasuresAreFinite, FS_Subset
<1>6. p.keepLast \in Nat /\ p.gfs \in Nat /\ p.maxAge \in Nat /\ e.at \in Nat
  BY DEF Rules, Entries
<1>7. LaterOnes(more, e) # {}
  BY <1>2 DEF Dispensable
<1>8. p.keepLast <= Cardinality(LaterOnes(more, e))
  BY <1>4, <1>6 DEF Dispensable
<1>9. p.maxAge = 0 \/ e.at < u - p.maxAge
  BY <1>6 DEF Dispensable
<1>10. (\E f \in more : Bucket(f) = Bucket(e) /\ Later(f, e))
         \/ p.gfs <= Cardinality(LaterBuckets(more, Bucket(e)))
  BY <1>5, <1>6 DEF Dispensable
<1> QED BY <1>7, <1>8, <1>9, <1>10 DEF Dispensable

(* The later of what is later is later.                                    *)
LEMMA LaterIsTransitive ==
  ASSUME NEW x \in Entries, NEW y \in Entries, NEW z \in Entries, Later(x, y), Later(y, z)
  PROVE  Later(x, z)
  BY DEF Later, Entries

(* Sweep by sweep: what is dispensable stays so when entries that are      *)
(* dispensable themselves are taken out of the list.  The last of those    *)
(* that was later than e has after it, untouched, what e is to have; and   *)
(* so the last of the buckets that vanish.                                 *)
LEMMA LaterOnesStay ==
  ASSUME NEW p \in Rules, NEW list \in SUBSET Entries, IsFiniteSet(list), NEW t \in Int,
         NEW D, \A d \in D \cap list : Dispensable(p, list, t, d),
         NEW e \in Entries, Dispensable(p, list, t, e)
  PROVE  LaterOnes(list \ D, e) # {} /\ p.keepLast <= Cardinality(LaterOnes(list \ D, e))
<1> DEFINE rest == list \ D
           gone == D \cap LaterOnes(list, e)
<1>1. rest \in SUBSET Entries /\ rest \in SUBSET list /\ IsFiniteSet(rest)
  BY FS_Subset
<1>2. CASE gone = {}
  <2>1. LaterOnes(rest, e) = LaterOnes(list, e)
    BY <1>2 DEF LaterOnes
  <2> QED BY <2>1 DEF Dispensable
<1>3. CASE gone # {}
  <2>1. gone \in SUBSET Entries /\ gone \in SUBSET list
    BY DEF LaterOnes
  <2>2. IsFiniteSet(gone)
    BY <2>1, FS_Subset
  <2>3. PICK d \in gone : \A y \in gone : ~Later(y, d)
    <3> HIDE DEF gone
    <3> QED BY <1>3, <2>1, <2>2, LastEntry
  <2>4. d \in Entries /\ d \in list /\ d \in D /\ Later(d, e)
    BY <2>1, <2>3 DEF LaterOnes
  <2>5. Dispensable(p, list, t, d)
    BY <2>4
  <2>6. ASSUME NEW f \in LaterOnes(list, d) PROVE f \in LaterOnes(rest, e)
    <3>1. f \in list /\ f \in Entries /\ Later(f, d)
      BY <2>6 DEF LaterOnes
    <3>2. Later(f, e)
      BY <3>1, <2>4, LaterIsTransitive
    <3>3. f \notin D
      BY <3>1, <3>2, <2>3 DEF LaterOnes
    <3> QED BY <3>1, <3>2, <3>3 DEF LaterOnes
  <2>7. LaterOnes(list, d) \in SUBSET LaterOnes(rest, e)
    BY <2>6
  <2>8. /\ Cardinality(LaterOnes(list, d)) <= Cardinality(LaterOnes(rest, e))
        /\ Cardinality(LaterOnes(list, d)) \in Nat /\ Cardinality(LaterOnes(rest, e)) \in Nat
    <3> HIDE DEF rest
    <3> QED BY <1>1, <2>7, MeasuresAreFinite, FS_Subset
  <2>9. LaterOnes(list, d) # {} /\ p.keepLast <= Cardinality(LaterOnes(list, d))
    BY <2>5 DEF Dispensable
  <2>10. p.keepLast \in Nat
    BY DEF Rules
  <2> HIDE DEF rest, gone
  <2>11. LaterOnes(rest, e) # {} /\ p.keepLast <= Cardinality(LaterOnes(rest, e))
    BY <2>7, <2>8, <2>9, <2>10
  <2> QED BY <2>11 DEF rest
<1> QED BY <1>2, <1>3

LEMMA LaterBucketsStay ==
  ASSUME NEW p \in Rules, NEW list \in SUBSET Entries, IsFiniteSet(list), NEW t \in Int,
         NEW D, \A d \in D \cap list : Dispensable(p, list, t, d),
         NEW b \in Int, p.gfs <= Cardinality(LaterBuckets(list, b))
  PROVE  p.gfs <= Cardinality(LaterBuckets(list \ D, b))
<1> DEFINE rest == list \ D
           gone == LaterBuckets(list, b) \ LaterBuckets(rest, b)
<1>1. rest \in SUBSET Entries /\ rest \in SUBSET list /\ IsFiniteSet(rest)
  BY FS_Subset
<1>2. LaterBuckets(rest, b) \in SUBSET LaterBuckets(list, b)
  BY DEF LaterBuckets
<1>3. CASE gone = {}
  <2>1. LaterBuckets(rest, b) = LaterBuckets(list, b)
    BY <1>2, <1>3
  <2> QED BY <2>1
<1>4. CASE gone # {}
  <2>1. gone \in SUBSET LaterBuckets(list, b)
    OBVIOUS
  <2>2. gone \in SUBSET Int
    BY <2>1, BucketIsNumber DEF LaterBuckets
  <2>3. IsFiniteSet(gone)
    BY <2>1, MeasuresAreFinite, FS_Subset
  <2>4. PICK c \in gone : \A y \in gone : y <= c
    <3> HIDE DEF gone
    <3> QED BY <1>4, <2>2, <2>3, GreatestNumber
  <2>5. c \in Int /\ c > b /\ c \in {Bucket(f) : f \in list} /\ c \notin LaterBuckets(rest, b)
    BY <2>2, <2>4 DEF LaterBuckets
  <2> DEFINE inc == {f \in list : Bucket(f) = c}
  <2>6. inc \in SUBSET Entries /\ inc \in SUBSET list /\ inc # {}
    BY <2>5
  <2>7. IsFiniteSet(inc)
    BY <2>6, FS_Subset
  <2>8. PICK d \in inc : \A y \in inc : ~Later(y, d)
    <3> HIDE DEF inc
    <3> QED BY <2>6, <2>7, LastEntry
  <2>9. d \in list /\ Bucket(d) = c /\ d \in Entries
    BY <2>8
  <2>10. d \in D
    BY <2>5, <2>9 DEF LaterBuckets
  <2>11. ~\E f \in list : Bucket(f) = Bucket(d) /\ Later(f, d)
    BY <2>8, <2>9
  <2>12. p.gfs <= Cardinality(LaterBuckets(list, c))
    BY <2>9, <2>10, <2>11 DEF Dispensable
  <2>13. ASSUME NEW x \in LaterBuckets(list, c) PROVE x \in LaterBuckets(rest, b)
    <3>1. x \in Int /\ x > c /\ x \in {Bucket(f) : f \in list}
      BY BucketIsNumber DEF LaterBuckets
    <3>2. x \in LaterBuckets(list, b)
      BY <3>1, <2>5 DEF LaterBuckets
    <3>3. x \notin gone
      <4> HIDE DEF gone
      <4> QED BY <3>1, <2>4, <2>5
    <3> QED BY <3>2, <3>3
  <2>14. LaterBuckets(list, c) \in SUBSET LaterBuckets(rest, b)
    BY <2>13
  <2>15. /\ Cardinality(LaterBuckets(list, c)) <= Cardinality(LaterBuckets(rest, b))
         /\ Cardinality(LaterBuckets(list, c)) \in Nat
         /\ Cardinality(LaterBuckets(rest, b)) \in Nat
    <3> HIDE DEF rest, gone, inc
    <3> QED BY <1>1, <2>14, MeasuresAreFinite, FS_Subset
  <2>16. p.gfs \in Nat
    BY DEF Rules
  <2> HIDE DEF rest, gone, inc
  <2>17. p.gfs <= Cardinality(LaterBuckets(rest, b))
    BY <2>12, <2>15, <2>16
  <2> QED BY <2>17 DEF rest
<1> QED BY <1>3, <1>4

LEMMA DispensableStays ==
  ASSUME NEW p \in Rules, NEW list \in SUBSET Entries, IsFiniteSet(list), NEW t \in Int,
         NEW D, \A d \in D \cap list : Dispensable(p, list, t, d),
         NEW e \in Entries, Dispensable(p, list, t, e)
  PROVE  Dispensable(p, list \ D, t, e)
<1> DEFINE rest == list \ D
<1>1. LaterOnes(rest, e) # {} /\ p.keepLast <= Cardinality(LaterOnes(rest, e))
  BY LaterOnesStay
<1>2. p.maxAge = 0 \/ e.at < t - p.maxAge
  BY DEF Dispensable
<1>3. Bucket(e) \in Int
  BY BucketIsNumber
<1>4. CASE p.gfs <= Cardinality(LaterBuckets(list, Bucket(e)))
  <2>1. p.gfs <= Cardinality(LaterBuckets(rest, Bucket(e)))
    BY <1>3, <1>4, LaterBucketsStay
  <2> QED BY <1>1, <1>2, <2>1 DEF Dispensable
<1>5. CASE \E f \in list : Bucket(f) = Bucket(e) /\ Later(f, e)
  <2> DEFINE same == {f \in list : Bucket(f) = Bucket(e) /\ Later(f, e)}
  <2>1. same \in SUBSET Entries /\ same \in SUBSET list /\ same # {}
    BY <1>5
  <2>2. IsFiniteSet(same)
    BY <2>1, FS_Subset
  <2>3. PICK d \in same : \A y \in same : ~Later(y, d)
    <3> HIDE DEF same
    <3> QED BY <2>1, <2>2, LastEntry
  <2>4. d \in list /\ d \in Entries /\ Bucket(d) = Bucket(e) /\ Later(d, e)
    BY <2>3
  <2>5. CASE d \notin D
    <3>1. d \in rest
      BY <2>4, <2>5
    <3> QED BY <1>1, <1>2, <2>4, <3>1 DEF Dispensable
  <2>6. CASE d \in D
    <3>1. Dispensable(p, list, t, d)
      BY <2>4, <2>6
    <3>2. ASSUME NEW f \in list, Bucket(f) = Bucket(d), Later(f, d) PROVE FALSE
      <4>1. f \in Entries /\ Bucket(f) = Bucket(e)
        BY <2>4, <3>2
      <4>2. Later(f, e)
        BY <4>1, <2>4, <3>2, LaterIsTransitive
      <4> QED BY <4>1, <4>2, <2>3, <3>2
    <3>3. p.gfs <= Cardinality(LaterBuckets(list, Bucket(d)))
      BY <3>1, <3>2 DEF Dispensable
    <3>4. p.gfs <= Cardinality(LaterBuckets(list, Bucket(e)))
      BY <3>3, <2>4
    <3> QED BY <1>4, <3>4
  <2> QED BY <2>5, <2>6
<1> QED BY <1>4, <1>5 DEF Dispensable

----------------------------------------------------------------------------
(* The inductive invariant, whatever the clocks and the primary do.        *)

(* Two indexes of one etag are one: a put that finds the etag it has read  *)
(* finds the list it has read.                                             *)
ReadsAreVersions ==
    /\ \A a \in Archiver : run[a].at = "cas" =>
          run[a].idx.etag <= index.etag /\ (run[a].idx.etag = index.etag => run[a].idx = index)
    /\ \A s \in Sweeper : sweep[s].at = "delete" =>
          sweep[s].idx.etag <= index.etag /\ (sweep[s].idx.etag = index.etag => sweep[s].idx = index)

(* What a backup is about to record has its object, or had it.             *)
RunsArePut ==
    \A a \in Archiver :
        run[a].at \in {"get", "cas"} => Key(run[a].m) \in DOMAIN cold \/ Key(run[a].m) \in condemned

(* A sweep is to take out of the index what it has deleted.                *)
SweepsDelete ==
    \A s \in Sweeper :
        \A e \in sweep[s].doomed : e \in sweep[s].todo \/ Key(e) \in condemned

(* What a sweep has condemned, the policy can do without as the index is   *)
(* by now, and it is old enough.                                           *)
SweepsAreTimely ==
    \A s \in Sweeper :
        \A e \in sweep[s].doomed \cup sweep[s].todo :
            Dispensable(policy, index.list, today, e) /\ ~Blocked(e)

ListIsFinite == IsFiniteSet(index.list)

Recorded ==
    TypeOK /\ ListIsFinite /\ ReadsAreVersions /\ RunsArePut /\ SweepsDelete
    /\ ToldIsKept /\ DanglingIsCondemned

(* The record types of TypeOK, by name.                                    *)
Runs == [at : {"idle", "put", "adopt", "head", "get", "cas"}, m : Commits,
         made : Nat, idx : Indexes, attempt : Nat]
Sweeps == [at : {"idle", "delete"}, idx : Indexes, todo : SUBSET Entries, doomed : SUBSET Entries]

LEMMA Constants == NoCommit \in Commits /\ NoIndex \in Indexes /\ NoRun \in Runs /\ NoSweep \in Sweeps
<1>1. NoCommit \in Commits /\ NoIndex \in Indexes
  BY DEF NoCommit, NoIndex, Commits, Indexes
<1>2. NoRun \in Runs
  BY <1>1 DEF NoRun, Runs
<1>3. NoSweep \in Sweeps
  BY <1>1 DEF NoSweep, Sweeps
<1> QED BY <1>1, <1>2, <1>3

LEMMA KeyIsKey ==
  /\ \A m \in Commits : Key(m) \in Keys
  /\ \A e \in Entries : Key(e) \in Keys
  BY DEF Commits, Entries, Keys, Key

LEMMA EntryIsEntry ==
  ASSUME NEW r \in Runs
  PROVE  Entry(r) \in Entries /\ Key(Entry(r)) = Key(r.m)
<1>1. r.m \in Commits /\ r.made \in Nat
  BY DEF Runs
<1> QED BY <1>1 DEF Entry, Entries, Key, Commits

LEMMA TypeAtInit ==
  ASSUME Init PROVE TypeOK
<1>1. run \in [Archiver -> Runs] /\ sweep \in [Sweeper -> Sweeps]
  BY Constants DEF Init
<1>2. index \in Indexes /\ primary \in Commits
  BY Constants DEF Init
<1> QED BY <1>1, <1>2 DEF Init, TypeOK, Runs, Sweeps

LEMMA TypeStep ==
  ASSUME TypeOK, [Next]_vars
  PROVE  TypeOK'
<1> USE Constants
<1>1. /\ policy \in Policy /\ today \in Nat /\ primary \in Commits
      /\ DOMAIN cold \subseteq Keys /\ \A k \in DOMAIN cold : cold[k] \in Nat
      /\ index \in Indexes
      /\ run \in [Archiver -> Runs] /\ sweep \in [Sweeper -> Sweeps]
      /\ told \subseteq Keys /\ condemned \subseteq Keys
  BY DEF TypeOK, Runs, Sweeps
<1> SUFFICES /\ policy' \in Policy /\ today' \in Nat /\ primary' \in Commits
             /\ DOMAIN cold' \subseteq Keys /\ \A k \in DOMAIN cold' : cold'[k] \in Nat
             /\ index' \in Indexes
             /\ run' \in [Archiver -> Runs] /\ sweep' \in [Sweeper -> Sweeps]
             /\ told' \subseteq Keys /\ condemned' \subseteq Keys
  BY DEF TypeOK, Runs, Sweeps
<1>2. CASE UNCHANGED vars
  BY <1>1, <1>2 DEF vars
<1>3. CASE Commit
  <2>1. PICK at \in Nat, seq \in Nat : primary' = [seq |-> seq, at |-> at, n |-> primary.n + 1]
    <3>1. primary.seq + 1 \in Nat /\ 1..MaxDay \subseteq Nat
      BY <1>1, ArchiveAssumption DEF Commits
    <3>2. (IF Skewed THEN 1..MaxDay ELSE {today}) \subseteq Nat
      BY <1>1, <3>1
    <3>3. {primary.seq + 1} \cup (IF Reseeded THEN {0} ELSE {}) \subseteq Nat
      BY <3>1
    <3> QED BY <1>3, <3>2, <3>3 DEF Commit
  <2>2. primary' \in Commits
    BY <1>1, <2>1 DEF Commits
  <2> QED BY <1>1, <1>3, <2>2 DEF Commit
<1>4. CASE DayPasses
  BY <1>1, <1>4 DEF DayPasses
<1>6. ASSUME NEW a \in Archiver PROVE run[a] \in Runs /\ Key(run[a].m) \in Keys
                                       /\ run[a].m \in Commits /\ run[a].m.n \in Nat
                                       /\ run[a].idx \in Indexes /\ run[a].attempt \in Nat
  BY <1>1, KeyIsKey DEF Runs, Commits
<1>7. ASSUME NEW a \in Archiver, BackupStart(a) PROVE TypeOK'
  <2>1. [NoRun EXCEPT !.at = "put", !.m = primary] \in Runs
    BY <1>1 DEF Runs
  <2> QED BY <1>1, <1>7, <2>1 DEF BackupStart, Run, TypeOK, Runs, Sweeps
<1>8. ASSUME NEW a \in Archiver, BackupPut(a) PROVE TypeOK'
  <2>1. [run[a] EXCEPT !.at = "get", !.made = today] \in Runs /\ [run[a] EXCEPT !.at = "adopt"] \in Runs
    BY <1>1, <1>6 DEF Runs
  <2>2. run' \in [Archiver -> Runs]
    BY <1>1, <1>8, <2>1 DEF BackupPut, Run
  <2>3. DOMAIN cold' \subseteq Keys /\ \A k \in DOMAIN cold' : cold'[k] \in Nat
    BY <1>1, <1>6, <1>8 DEF BackupPut
  <2> QED BY <1>1, <1>8, <2>2, <2>3 DEF BackupPut, TypeOK, Runs, Sweeps
<1>9. ASSUME NEW a \in Archiver, Adopt(a) PROVE TypeOK'
  <2>1. [run[a] EXCEPT !.at = "head"] \in Runs
    BY <1>1, <1>6 DEF Runs
  <2>2. run' \in [Archiver -> Runs] /\ told' \subseteq Keys
    BY <1>1, <1>6, <1>9, <2>1 DEF Adopt, Run, Done
  <2> QED BY <1>1, <1>9, <2>2 DEF Adopt, TypeOK, Runs, Sweeps
<1>10. ASSUME NEW a \in Archiver, AdoptHead(a) PROVE TypeOK'
  <2>1. [run[a] EXCEPT !.at = "get", !.made = today] \in Runs
    BY <1>1, <1>6 DEF Runs
  <2>2. run' \in [Archiver -> Runs]
    BY <1>1, <1>10, <2>1 DEF AdoptHead, Run
  <2> QED BY <1>1, <1>10, <2>2 DEF AdoptHead, TypeOK, Runs, Sweeps
<1>11. ASSUME NEW a \in Archiver, AppendGet(a) PROVE TypeOK'
  <2>1. [run[a] EXCEPT !.at = "cas", !.idx = index] \in Runs
    BY <1>1, <1>6 DEF Runs
  <2>2. run' \in [Archiver -> Runs] /\ told' \subseteq Keys
    BY <1>1, <1>6, <1>11, <2>1 DEF AppendGet, Run, Done
  <2> QED BY <1>1, <1>11, <2>2 DEF AppendGet, TypeOK, Runs, Sweeps
<1>12. ASSUME NEW a \in Archiver, AppendCas(a) PROVE TypeOK'
  <2>1. [run[a] EXCEPT !.at = "get", !.attempt = @ + 1, !.idx = NoIndex] \in Runs
    <3>1. run[a].attempt + 1 \in Nat
      BY <1>6
    <3>2. \A n \in Nat : [run[a] EXCEPT !.at = "get", !.attempt = n, !.idx = NoIndex] \in Runs
      BY <1>6 DEF Runs
    <3> QED BY <3>1, <3>2
  <2>2. run' \in [Archiver -> Runs] /\ told' \subseteq Keys
    BY <1>1, <1>6, <1>12, <2>1 DEF AppendCas, Run, Done
  <2>3. [etag |-> index.etag + 1, list |-> run[a].idx.list \cup {Entry(run[a])}] \in Indexes
    BY <1>1, <1>6, EntryIsEntry DEF Indexes
  <2> QED BY <1>1, <1>12, <2>2, <2>3 DEF AppendCas, TypeOK, Runs, Sweeps
<1>13. ASSUME NEW a \in Archiver, BackupDies(a) PROVE TypeOK'
  BY <1>1, <1>13 DEF BackupDies, Run, TypeOK, Runs, Sweeps
<1>14. ASSUME NEW s \in Sweeper PROVE sweep[s] \in Sweeps /\ sweep[s].todo \in SUBSET Entries
                                       /\ sweep[s].idx \in Indexes /\ sweep[s].doomed \in SUBSET Entries
  BY <1>1 DEF Sweeps
<1>15. ASSUME NEW s \in Sweeper, SweepRead(s) PROVE TypeOK'
  <2>1. Doomed(index.list) \in SUBSET Entries
    BY <1>1 DEF Doomed, Indexes
  <2>2. [at |-> "delete", idx |-> index, todo |-> Doomed(index.list), doomed |-> Doomed(index.list)]
           \in Sweeps
    BY <1>1, <2>1 DEF Sweeps
  <2> QED BY <1>1, <1>15, <2>2 DEF SweepRead, Sweep, TypeOK, Runs, Sweeps
<1>16. ASSUME NEW s \in Sweeper, SweepDelete(s) PROVE TypeOK'
  <2>1. PICK e \in sweep[s].todo :
           /\ cold' = [k \in DOMAIN cold \ {Key(e)} |-> cold[k]]
           /\ condemned' = condemned \cup {Key(e)}
           /\ Sweep(s, [sweep[s] EXCEPT !.todo = @ \ {e}])
    BY <1>16 DEF SweepDelete
  <2>2. [sweep[s] EXCEPT !.todo = @ \ {e}] \in Sweeps
    BY <1>14 DEF Sweeps
  <2>3. sweep' \in [Sweeper -> Sweeps]
    BY <1>1, <2>1, <2>2 DEF Sweep
  <2>4. Key(e) \in Keys
    BY <1>14, KeyIsKey
  <2>5. DOMAIN cold' \subseteq Keys /\ \A k \in DOMAIN cold' : cold'[k] \in Nat
    BY <1>1, <2>1
  <2> QED BY <1>1, <1>16, <2>1, <2>3, <2>4, <2>5 DEF SweepDelete, TypeOK, Runs, Sweeps
<1>17. ASSUME NEW s \in Sweeper, SweepCas(s) PROVE TypeOK'
  <2>1. [etag |-> index.etag + 1, list |-> sweep[s].idx.list \ sweep[s].doomed] \in Indexes
    BY <1>1, <1>14 DEF Indexes
  <2> QED BY <1>1, <1>17, <2>1 DEF SweepCas, Sweep, TypeOK, Runs, Sweeps
<1>18. ASSUME NEW s \in Sweeper, SweepDies(s) PROVE TypeOK'
  BY <1>1, <1>18 DEF SweepDies, Sweep, TypeOK, Runs, Sweeps
<1> QED BY <1>2, <1>3, <1>4, <1>7, <1>8, <1>9, <1>10, <1>11, <1>12, <1>13, <1>15, <1>16, <1>17, <1>18
        DEF Next, Backup, Retention, TypeOK, Runs, Sweeps

----------------------------------------------------------------------------
LEMMA RecordedAtInit ==
  ASSUME Init PROVE Recorded
<1>1. ListIsFinite
  BY FS_EmptySet DEF Init, NoIndex, ListIsFinite
<1>2. ReadsAreVersions /\ RunsArePut /\ SweepsDelete
  BY DEF Init, NoRun, NoSweep, ReadsAreVersions, RunsArePut, SweepsDelete
<1>3. ToldIsKept /\ DanglingIsCondemned
  BY DEF Init, NoIndex, KeysOf, ToldIsKept, DanglingIsCondemned
<1> QED BY <1>1, <1>2, <1>3, TypeAtInit DEF Recorded

(* The steps that touch neither the index nor the objects nor the sweeps:  *)
(* they may only report what is recorded.                                  *)
LEMMA BackupsRecord ==
  ASSUME Recorded, NEW a \in Archiver, Backup(a)
  PROVE  ListIsFinite' /\ ReadsAreVersions' /\ RunsArePut' /\ SweepsDelete'
         /\ ToldIsKept' /\ DanglingIsCondemned'
<1>1. /\ run \in [Archiver -> Runs] /\ sweep \in [Sweeper -> Sweeps] /\ index \in Indexes
      /\ index.etag \in Nat
  BY DEF Recorded, TypeOK, Runs, Sweeps, Indexes
<1>2. run[a] \in Runs
  BY <1>1
<1> USE DEF Recorded
<1>3. SweepsDelete'
  BY DEF Backup, BackupStart, BackupPut, Adopt, AdoptHead, AppendGet, AppendCas, BackupDies, SweepsDelete
<1>4. ASSUME UNCHANGED index PROVE ListIsFinite'
  BY <1>4 DEF ListIsFinite
<1>5. CASE BackupStart(a)
  <2>1. run' = [run EXCEPT ![a] = [NoRun EXCEPT !.at = "put", !.m = primary]]
        /\ UNCHANGED <<cold, index, sweep, told, condemned>>
    BY <1>5 DEF BackupStart, Run
  <2>2. run'[a].at = "put" /\ \A b \in Archiver : b # a => run'[b] = run[b]
    BY <1>1, <2>1 DEF NoRun
  <2> QED BY <1>3, <1>4, <2>1, <2>2
          DEF ReadsAreVersions, RunsArePut, ToldIsKept, DanglingIsCondemned
<1>6. CASE BackupPut(a)
  <2>1. UNCHANGED <<index, sweep, told, condemned>>
    BY <1>6 DEF BackupPut
  <2>2. /\ \A b \in Archiver : b # a => run'[b] = run[b]
        /\ run'[a].at = "adopt" \/ (run'[a].at = "get" /\ Key(run'[a].m) \in DOMAIN cold')
    <3>1. /\ [run[a] EXCEPT !.at = "get", !.made = today].at = "get"
          /\ [run[a] EXCEPT !.at = "get", !.made = today].m = run[a].m
          /\ [run[a] EXCEPT !.at = "adopt"].at = "adopt"
      BY <1>2 DEF Runs
    <3>2. PICK r : run' = [run EXCEPT ![a] = r] /\ (r.at = "adopt" \/ (r.at = "get" /\ Key(r.m) \in DOMAIN cold'))
      BY <1>6, <3>1 DEF BackupPut, Run
    <3>3. run'[a] = r /\ \A b \in Archiver : b # a => run'[b] = run[b]
      BY <1>1, <3>2
    <3> QED BY <3>2, <3>3
  <2>3. DOMAIN cold \subseteq DOMAIN cold'
    BY <1>6 DEF BackupPut
  <2> QED BY <1>3, <1>4, <2>1, <2>2, <2>3
          DEF ReadsAreVersions, RunsArePut, ToldIsKept, DanglingIsCondemned
<1>7. CASE Adopt(a)
  <2>1. UNCHANGED <<cold, index, sweep, condemned>>
    BY <1>7 DEF Adopt
  <2>2. /\ \A b \in Archiver : b # a => run'[b] = run[b]
        /\ run'[a].at \in {"idle", "head"}
    BY <1>1, <1>2, <1>7 DEF Adopt, Done, Run, Runs, NoRun
  <2>3. told' \subseteq told \cup KeysOf(index.list)
    BY <1>7 DEF Adopt, Done
  <2> QED BY <1>3, <1>4, <2>1, <2>2, <2>3
          DEF ReadsAreVersions, RunsArePut, ToldIsKept, DanglingIsCondemned
<1>8. CASE AdoptHead(a)
  <2>1. UNCHANGED <<cold, index, sweep, told, condemned>>
    BY <1>8 DEF AdoptHead
  <2>2. /\ \A b \in Archiver : b # a => run'[b] = run[b]
        /\ run'[a].at = "idle" \/ (run'[a].at = "get" /\ Key(run'[a].m) \in DOMAIN cold)
    <3>1. CASE Key(run[a].m) \in DOMAIN cold
      <4>1. run' = [run EXCEPT ![a] = [run[a] EXCEPT !.at = "get", !.made = today]]
        BY <1>8, <3>1 DEF AdoptHead, Run
      <4> QED BY <1>1, <1>2, <3>1, <4>1 DEF Runs
    <3>2. CASE Key(run[a].m) \notin DOMAIN cold
      <4>1. run' = [run EXCEPT ![a] = NoRun]
        BY <1>8, <3>2 DEF AdoptHead, Run
      <4> QED BY <1>1, <4>1 DEF NoRun
    <3> QED BY <3>1, <3>2
  <2> QED BY <1>3, <1>4, <2>1, <2>2
          DEF ReadsAreVersions, RunsArePut, ToldIsKept, DanglingIsCondemned
<1>9. CASE AppendGet(a)
  <2>1. UNCHANGED <<cold, index, sweep, condemned>>
    BY <1>9 DEF AppendGet
  <2>2. /\ \A b \in Archiver : b # a => run'[b] = run[b]
        /\ \/ run'[a].at = "idle"
           \/ run'[a].at = "cas" /\ run'[a].idx = index /\ run'[a].m = run[a].m
    <3>1. CASE Key(run[a].m) \in KeysOf(index.list)
      <4>1. run' = [run EXCEPT ![a] = NoRun]
        BY <1>9, <3>1 DEF AppendGet, Done, Run
      <4> QED BY <1>1, <4>1 DEF NoRun
    <3>2. CASE Key(run[a].m) \notin KeysOf(index.list)
      <4>1. run' = [run EXCEPT ![a] = [run[a] EXCEPT !.at = "cas", !.idx = index]]
        BY <1>9, <3>2 DEF AppendGet, Run
      <4> QED BY <1>1, <1>2, <4>1 DEF Runs
    <3> QED BY <3>1, <3>2
  <2>3. told' \subseteq told \cup KeysOf(index.list)
    BY <1>9 DEF AppendGet, Done
  <2>4. run[a].at = "get"
    BY <1>9 DEF AppendGet
  <2> QED BY <1>1, <1>3, <1>4, <2>1, <2>2, <2>3, <2>4
          DEF ReadsAreVersions, RunsArePut, ToldIsKept, DanglingIsCondemned
<1>10. CASE AppendCas(a) /\ ~IndexUnmoved(run[a].idx)
  <2>1. UNCHANGED <<cold, index, sweep, told, condemned>>
    BY <1>10 DEF AppendCas
  <2>2. /\ \A b \in Archiver : b # a => run'[b] = run[b]
        /\ run'[a].at = "idle" \/ (run'[a].at = "get" /\ run'[a].m = run[a].m)
    <3>1. CASE run[a].attempt + 1 < MaxAttempts
      <4>1. run' = [run EXCEPT ![a] = [run[a] EXCEPT !.at = "get", !.attempt = @ + 1, !.idx = NoIndex]]
        BY <1>10, <3>1 DEF AppendCas, Run
      <4>2. run'[a] = [run[a] EXCEPT !.at = "get", !.attempt = @ + 1, !.idx = NoIndex]
        BY <1>1, <4>1
      <4> QED BY <1>1, <1>2, <4>1, <4>2 DEF Runs
    <3>2. CASE ~(run[a].attempt + 1 < MaxAttempts)
      <4>1. run' = [run EXCEPT ![a] = NoRun]
        BY <1>10, <3>2 DEF AppendCas, Run
      <4> QED BY <1>1, <4>1 DEF NoRun
    <3> QED BY <3>1, <3>2
  <2>3. run[a].at = "cas"
    BY <1>10 DEF AppendCas
  <2> QED BY <1>3, <1>4, <2>1, <2>2, <2>3
          DEF ReadsAreVersions, RunsArePut, ToldIsKept, DanglingIsCondemned
<1>11. CASE AppendCas(a) /\ IndexUnmoved(run[a].idx)
  <2>1. UNCHANGED <<cold, sweep, condemned>> /\ run[a].at = "cas"
    BY <1>11 DEF AppendCas
  <2>2. index.list = run[a].idx.list
    BY <1>11, <2>1 DEF ReadsAreVersions, IndexUnmoved
  <2>3. /\ index' = [etag |-> index.etag + 1, list |-> index.list \cup {Entry(run[a])}]
        /\ told' = told \cup {Key(run[a].m)} /\ run' = [run EXCEPT ![a] = NoRun]
    BY <1>11, <2>2 DEF AppendCas, Done, Run
  <2>4. KeysOf(index'.list) = KeysOf(index.list) \cup {Key(run[a].m)}
    BY <1>2, <2>3, EntryIsEntry DEF KeysOf
  <2>5. /\ \A b \in Archiver : b # a => run'[b] = run[b]
        /\ run'[a].at = "idle" /\ index'.etag = index.etag + 1
    BY <1>1, <2>3 DEF NoRun
  <2>6. ListIsFinite'
    BY <2>3, FS_AddElement DEF ListIsFinite
  <2>7. ReadsAreVersions'
    <3>1. ASSUME NEW b \in Archiver, run'[b].at = "cas"
          PROVE  run'[b].idx.etag <= index'.etag /\ run'[b].idx.etag # index'.etag
      <4>1. run'[b] = run[b] /\ run[b].idx.etag \in Nat /\ run[b].idx.etag <= index.etag
        BY <1>1, <2>5, <3>1 DEF ReadsAreVersions, Runs, Indexes
      <4> QED BY <4>1, <2>5, <1>1
    <3>2. ASSUME NEW s \in Sweeper, sweep[s].at = "delete"
          PROVE  sweep[s].idx.etag <= index'.etag /\ sweep[s].idx.etag # index'.etag
      <4>1. sweep[s].idx.etag \in Nat /\ sweep[s].idx.etag <= index.etag
        BY <1>1, <3>2 DEF ReadsAreVersions, Sweeps, Indexes
      <4> QED BY <4>1, <2>5, <1>1
    <3> QED BY <2>1, <3>1, <3>2 DEF ReadsAreVersions
  <2>8. RunsArePut'
    BY <2>1, <2>5 DEF RunsArePut
  <2>9. ToldIsKept'
    BY <2>1, <2>3, <2>4 DEF ToldIsKept
  <2>10. Key(run[a].m) \in DOMAIN cold \/ Key(run[a].m) \in condemned
    BY <2>1 DEF RunsArePut
  <2>11. DanglingIsCondemned'
    BY <2>1, <2>4, <2>10 DEF DanglingIsCondemned
  <2> QED BY <1>3, <2>6, <2>7, <2>8, <2>9, <2>11
<1>12. CASE BackupDies(a)
  <2>1. UNCHANGED <<cold, index, sweep, told, condemned>> /\ run' = [run EXCEPT ![a] = NoRun]
    BY <1>12 DEF BackupDies, Run
  <2>2. run'[a].at = "idle" /\ \A b \in Archiver : b # a => run'[b] = run[b]
    BY <1>1, <2>1 DEF NoRun
  <2> QED BY <1>3, <1>4, <2>1, <2>2
          DEF ReadsAreVersions, RunsArePut, ToldIsKept, DanglingIsCondemned
<1> QED BY <1>5, <1>6, <1>7, <1>8, <1>9, <1>10, <1>11, <1>12 DEF Backup

LEMMA SweepsRecord ==
  ASSUME Recorded, NEW s \in Sweeper, Retention(s)
  PROVE  ListIsFinite' /\ ReadsAreVersions' /\ RunsArePut' /\ SweepsDelete'
         /\ ToldIsKept' /\ DanglingIsCondemned'
<1>1. /\ run \in [Archiver -> Runs] /\ sweep \in [Sweeper -> Sweeps] /\ index \in Indexes
      /\ index.etag \in Nat
  BY DEF Recorded, TypeOK, Runs, Sweeps, Indexes
<1>2. sweep[s] \in Sweeps
  BY <1>1
<1> USE DEF Recorded
<1>3. UNCHANGED <<run, told>>
  BY DEF Retention, SweepRead, SweepDelete, SweepCas, SweepDies
<1>4. CASE SweepRead(s)
  <2>1. UNCHANGED <<cold, index, condemned>>
    BY <1>4 DEF SweepRead
  <2>2. /\ \A z \in Sweeper : z # s => sweep'[z] = sweep[z]
        /\ sweep'[s].idx = index /\ sweep'[s].todo = sweep'[s].doomed
    BY <1>1, <1>4 DEF SweepRead, Sweep
  <2> QED BY <1>1, <1>3, <2>1, <2>2
          DEF ListIsFinite, ReadsAreVersions, RunsArePut, SweepsDelete, ToldIsKept, DanglingIsCondemned
<1>5. CASE SweepDelete(s)
  <2>1. PICK e \in sweep[s].todo :
           /\ cold' = [k \in DOMAIN cold \ {Key(e)} |-> cold[k]]
           /\ condemned' = condemned \cup {Key(e)}
           /\ Sweep(s, [sweep[s] EXCEPT !.todo = @ \ {e}])
    BY <1>5 DEF SweepDelete
  <2>2. UNCHANGED index /\ sweep[s].at = "delete"
    BY <1>5 DEF SweepDelete
  <2>3. /\ \A z \in Sweeper : z # s => sweep'[z] = sweep[z]
        /\ sweep'[s].idx = sweep[s].idx /\ sweep'[s].doomed = sweep[s].doomed
        /\ sweep'[s].todo = sweep[s].todo \ {e}
    BY <1>1, <1>2, <2>1 DEF Sweep, Sweeps
  <2>4. DOMAIN cold \subseteq DOMAIN cold' \cup condemned'
    BY <2>1
  <2>5. SweepsDelete'
    <3> SUFFICES ASSUME NEW z \in Sweeper, NEW d \in sweep'[z].doomed
                 PROVE  d \in sweep'[z].todo \/ Key(d) \in condemned'
      BY DEF SweepsDelete
    <3>1. d \in sweep[z].doomed
      BY <2>3
    <3>2. d \in sweep[z].todo \/ Key(d) \in condemned
      BY <3>1 DEF SweepsDelete
    <3>3. d \in sweep[z].todo => d \in sweep'[z].todo \/ d = e
      BY <2>3
    <3> QED BY <2>1, <3>2, <3>3
  <2> QED BY <1>3, <2>1, <2>2, <2>3, <2>4, <2>5
          DEF ListIsFinite, ReadsAreVersions, RunsArePut, ToldIsKept, DanglingIsCondemned
<1>6. CASE SweepCas(s) /\ ~IndexUnmoved(sweep[s].idx)
  <2>1. UNCHANGED <<cold, index, condemned>>
    BY <1>6 DEF SweepCas
  <2>2. sweep'[s] = NoSweep /\ \A z \in Sweeper : z # s => sweep'[z] = sweep[z]
    BY <1>1, <1>6 DEF SweepCas, Sweep
  <2> QED BY <1>3, <2>1, <2>2
          DEF NoSweep, ListIsFinite, ReadsAreVersions, RunsArePut, SweepsDelete, ToldIsKept, DanglingIsCondemned
<1>7. CASE SweepCas(s) /\ IndexUnmoved(sweep[s].idx)
  <2>1. UNCHANGED <<cold, condemned>> /\ sweep[s].at = "delete" /\ sweep[s].todo = {}
    BY <1>7 DEF SweepCas
  <2>2. index.list = sweep[s].idx.list
    BY <1>7, <2>1 DEF ReadsAreVersions, IndexUnmoved
  <2>3. index' = [etag |-> index.etag + 1, list |-> index.list \ sweep[s].doomed]
    BY <1>7, <2>2 DEF SweepCas
  <2>4. sweep'[s] = NoSweep /\ \A z \in Sweeper : z # s => sweep'[z] = sweep[z]
    BY <1>1, <1>7 DEF SweepCas, Sweep
  <2>5. index'.list \subseteq index.list /\ index'.etag = index.etag + 1
    BY <2>3
  <2>6. KeysOf(index'.list) \subseteq KeysOf(index.list)
        /\ KeysOf(index.list) \subseteq KeysOf(index'.list) \cup condemned
    BY <2>1, <2>3 DEF KeysOf, SweepsDelete
  <2>7. ListIsFinite'
    BY <2>5, FS_Subset DEF ListIsFinite
  <2>8. ReadsAreVersions'
    <3>1. ASSUME NEW b \in Archiver, run[b].at = "cas"
          PROVE  run[b].idx.etag <= index'.etag /\ run[b].idx.etag # index'.etag
      <4>1. run[b].idx.etag \in Nat /\ run[b].idx.etag <= index.etag
        BY <1>1, <3>1 DEF ReadsAreVersions, Runs, Indexes
      <4> QED BY <4>1, <2>5, <1>1
    <3>2. ASSUME NEW z \in Sweeper, sweep'[z].at = "delete"
          PROVE  sweep'[z].idx.etag <= index'.etag /\ sweep'[z].idx.etag # index'.etag
      <4>1. sweep'[z] = sweep[z] /\ sweep[z].idx.etag \in Nat /\ sweep[z].idx.etag <= index.etag
        BY <1>1, <2>4, <3>2 DEF ReadsAreVersions, Sweeps, Indexes, NoSweep
      <4> QED BY <4>1, <2>5, <1>1
    <3> QED BY <1>3, <3>1, <3>2 DEF ReadsAreVersions
  <2>9. SweepsDelete'
    BY <2>1, <2>4 DEF SweepsDelete, NoSweep
  <2> QED BY <1>3, <2>1, <2>6, <2>7, <2>8, <2>9 DEF RunsArePut, ToldIsKept, DanglingIsCondemned
<1>8. CASE SweepDies(s)
  <2>1. UNCHANGED <<cold, index, condemned>>
    BY <1>8 DEF SweepDies
  <2>2. sweep'[s] = NoSweep /\ \A z \in Sweeper : z # s => sweep'[z] = sweep[z]
    BY <1>1, <1>8 DEF SweepDies, Sweep
  <2> QED BY <1>3, <2>1, <2>2
          DEF NoSweep, ListIsFinite, ReadsAreVersions, RunsArePut, SweepsDelete, ToldIsKept, DanglingIsCondemned
<1> QED BY <1>4, <1>5, <1>6, <1>7, <1>8 DEF Retention

(* The invariant is inductive.                                             *)
LEMMA RecordedStep ==
  ASSUME Recorded, [Next]_vars
  PROVE  Recorded'
<1>1. TypeOK'
  BY TypeStep DEF Recorded
<1>2. CASE Commit \/ DayPasses \/ UNCHANGED vars
  <2>1. UNCHANGED <<cold, index, run, sweep, told, condemned>>
    BY <1>2 DEF Commit, DayPasses, vars
  <2> QED BY <1>1, <2>1 DEF Recorded, ListIsFinite, ReadsAreVersions, RunsArePut, SweepsDelete,
                            ToldIsKept, DanglingIsCondemned
<1>3. CASE \E a \in Archiver : Backup(a)
  BY <1>1, <1>3, BackupsRecord DEF Recorded
<1>4. CASE \E s \in Sweeper : Retention(s)
  BY <1>1, <1>4, SweepsRecord DEF Recorded
<1> QED BY <1>2, <1>3, <1>4 DEF Next

(* A backup that has been reported is in the index, or a retention has     *)
(* deleted it, whatever overlaps and dies, clocks and primary included.    *)
THEOREM NoBackupIsLost == Spec => []ToldIsKept
<1>1. Init => Recorded
  BY RecordedAtInit
<1>2. Recorded /\ [Next]_vars => Recorded'
  BY RecordedStep
<1>3. Recorded => ToldIsKept
  BY DEF Recorded
<1> QED BY <1>1, <1>2, <1>3, PTL DEF Spec

(* An entry of the index has its object, unless a retention deleted it.    *)
THEOREM DanglingWereSwept == Spec => []DanglingIsCondemned
<1>1. Init => Recorded
  BY RecordedAtInit
<1>2. Recorded /\ [Next]_vars => Recorded'
  BY RecordedStep
<1>3. Recorded => DanglingIsCondemned
  BY DEF Recorded
<1> QED BY <1>1, <1>2, <1>3, PTL DEF Spec

----------------------------------------------------------------------------
(* The index, when a step rewrites it.                                     *)
LEMMA IndexGrows ==
  ASSUME Recorded, NEW a \in Archiver, AppendCas(a)
  PROVE  \/ UNCHANGED index
         \/ index'.list = index.list \cup {Entry(run[a])}
  BY DEF Recorded, ReadsAreVersions, AppendCas, IndexUnmoved

LEMMA IndexShrinks ==
  ASSUME Recorded, NEW s \in Sweeper, SweepCas(s)
  PROVE  \/ UNCHANGED index
         \/ index'.list = index.list \ sweep[s].doomed
  BY DEF Recorded, ReadsAreVersions, SweepCas, IndexUnmoved

Timely == Recorded /\ SweepsAreTimely

(* Whatever is rewritten, and however much later, what the policy can do   *)
(* without it still can.                                                   *)
LEMMA DispensableRemains ==
  ASSUME Timely, [Next]_vars, NEW e \in Entries,
         Dispensable(policy, index.list, today, e), ~Blocked(e)
  PROVE  Dispensable(policy', index'.list, today', e) /\ ~Blocked(e)'
<1>1. /\ policy \in Rules /\ today \in Nat /\ index.list \in SUBSET Entries /\ IsFiniteSet(index.list)
      /\ run \in [Archiver -> Runs] /\ sweep \in [Sweeper -> Sweeps]
  BY ArchiveAssumption DEF Timely, Recorded, TypeOK, ListIsFinite, Runs, Sweeps, Indexes, Rules
<1>2. UNCHANGED policy
  BY DEF Next, vars, Commit, DayPasses, Backup, BackupStart, BackupPut, Adopt, AdoptHead, AppendGet,
         AppendCas, BackupDies, Retention, SweepRead, SweepDelete, SweepCas, SweepDies
<1>3. CASE DayPasses
  <2>1. today' = today + 1 /\ UNCHANGED index
    BY <1>3 DEF DayPasses
  <2>2. ~Blocked(e)'
    BY <1>1, <2>1, ArchiveAssumption DEF Blocked, Entries
  <2>3. Dispensable(policy, index.list, today', e)
    BY <1>1, <2>1 DEF Dispensable, Entries, Rules
  <2> QED BY <1>2, <2>1, <2>2, <2>3
<1>4. CASE UNCHANGED <<today, index>>
  BY <1>2, <1>4 DEF Blocked
<1>5. ASSUME NEW a \in Archiver, AppendCas(a), index'.list = index.list \cup {Entry(run[a])}
      PROVE  Dispensable(policy', index'.list, today', e) /\ ~Blocked(e)'
  <2>1. UNCHANGED today
    BY <1>5 DEF AppendCas
  <2>2. Entry(run[a]) \in Entries
    BY <1>1, EntryIsEntry
  <2>3. Dispensable(policy, index.list \cup {Entry(run[a])}, today, e)
    BY <1>1, <2>2, StillDispensable
  <2> QED BY <1>2, <1>5, <2>1, <2>3 DEF Blocked
<1>6. ASSUME NEW s \in Sweeper, SweepCas(s), index'.list = index.list \ sweep[s].doomed
      PROVE  Dispensable(policy', index'.list, today', e) /\ ~Blocked(e)'
  <2>1. UNCHANGED today
    BY <1>6 DEF SweepCas
  <2>2. \A d \in sweep[s].doomed \cap index.list : Dispensable(policy, index.list, today, d)
    BY DEF Timely, SweepsAreTimely
  <2>3. Dispensable(policy, index.list \ sweep[s].doomed, today, e)
    <3> DEFINE D == sweep[s].doomed
    <3>1. today \in Int /\ \A d \in D \cap index.list : Dispensable(policy, index.list, today, d)
      BY <1>1, <2>2
    <3> HIDE DEF D
    <3>2. Dispensable(policy, index.list \ D, today, e)
      BY <1>1, <3>1, DispensableStays
    <3> QED BY <3>2 DEF D
  <2> QED BY <1>2, <1>6, <2>1, <2>3 DEF Blocked
<1>7. CASE Commit \/ UNCHANGED vars
  BY <1>4, <1>7 DEF Commit, vars
<1>8. ASSUME NEW a \in Archiver, Backup(a)
      PROVE  Dispensable(policy', index'.list, today', e) /\ ~Blocked(e)'
  <2>1. CASE AppendCas(a)
    <3>1. UNCHANGED today
      BY <2>1 DEF AppendCas
    <3> QED BY <1>4, <1>5, <2>1, <3>1, IndexGrows DEF Timely
  <2>2. CASE ~AppendCas(a)
    BY <1>4, <1>8, <2>2 DEF Backup, BackupStart, BackupPut, Adopt, AdoptHead, AppendGet, BackupDies
  <2> QED BY <2>1, <2>2
<1>9. ASSUME NEW s \in Sweeper, Retention(s)
      PROVE  Dispensable(policy', index'.list, today', e) /\ ~Blocked(e)'
  <2>1. CASE SweepCas(s)
    <3>1. UNCHANGED today
      BY <2>1 DEF SweepCas
    <3> QED BY <1>4, <1>6, <2>1, <3>1, IndexShrinks DEF Timely
  <2>2. CASE ~SweepCas(s)
    BY <1>4, <1>9, <2>2 DEF Retention, SweepRead, SweepDelete, SweepDies
  <2> QED BY <2>1, <2>2
<1> QED BY <1>3, <1>7, <1>8, <1>9 DEF Next

(* A sweep condemns nothing on the way that it had not when it read the    *)
(* index.                                                                  *)
LEMMA SweepsCondemnOnce ==
  ASSUME Timely, [Next]_vars, NEW s \in Sweeper, NEW e \in sweep'[s].doomed \cup sweep'[s].todo
  PROVE  /\ e \in Entries
         /\ \/ e \in sweep[s].doomed \cup sweep[s].todo
            \/ e \in Doomed(index.list)
<1>1. sweep \in [Sweeper -> Sweeps] /\ index.list \in SUBSET Entries
  BY DEF Timely, Recorded, TypeOK, Sweeps, Indexes
<1>2. sweep[s] \in Sweeps /\ sweep[s].doomed \in SUBSET Entries /\ sweep[s].todo \in SUBSET Entries
  BY <1>1 DEF Sweeps
<1>3. Doomed(index.list) \in SUBSET Entries
  BY <1>1 DEF Doomed
<1>4. CASE UNCHANGED sweep
  BY <1>2, <1>4
<1>5. ASSUME NEW z \in Sweeper, Retention(z)
      PROVE  \/ sweep'[s] = sweep[s]
             \/ sweep'[s].doomed \cup sweep'[s].todo = {}
             \/ sweep'[s].doomed \cup sweep'[s].todo \subseteq sweep[s].doomed \cup sweep[s].todo
             \/ sweep'[s].doomed \cup sweep'[s].todo \subseteq Doomed(index.list)
  <2>1. CASE z # s
    <3>1. \E r : sweep' = [sweep EXCEPT ![z] = r]
      BY <1>5 DEF Retention, SweepRead, SweepDelete, SweepCas, SweepDies, Sweep
    <3> QED BY <1>1, <2>1, <3>1
  <2>2. CASE z = s /\ SweepRead(s)
    <3>1. sweep'[s] = [at |-> "delete", idx |-> index, todo |-> Doomed(index.list),
                       doomed |-> Doomed(index.list)]
      BY <1>1, <2>2 DEF SweepRead, Sweep
    <3> QED BY <3>1
  <2>3. CASE z = s /\ SweepDelete(s)
    <3>1. PICK d \in sweep[s].todo : sweep'[s] = [sweep[s] EXCEPT !.todo = @ \ {d}]
      BY <1>1, <2>3 DEF SweepDelete, Sweep
    <3>2. sweep'[s].doomed = sweep[s].doomed /\ sweep'[s].todo = sweep[s].todo \ {d}
      BY <1>2, <3>1 DEF Sweeps
    <3> QED BY <3>2
  <2>4. CASE z = s /\ (SweepCas(s) \/ SweepDies(s))
    <3>1. sweep'[s] = NoSweep
      BY <1>1, <2>4 DEF SweepCas, SweepDies, Sweep
    <3> QED BY <3>1 DEF NoSweep
  <2> QED BY <1>5, <2>1, <2>2, <2>3, <2>4 DEF Retention
<1>6. CASE UNCHANGED vars \/ Commit \/ DayPasses \/ \E a \in Archiver : Backup(a)
  BY <1>4, <1>6 DEF vars, Commit, DayPasses, Backup, BackupStart, BackupPut, Adopt, AdoptHead, AppendGet,
         AppendCas, BackupDies
<1>7. CASE \E z \in Sweeper : Retention(z)
  BY <1>2, <1>3, <1>5, <1>7
<1> QED BY <1>6, <1>7 DEF Next

LEMMA TimelyStep ==
  ASSUME Timely, [Next]_vars
  PROVE  Timely'
<1>1. Recorded'
  BY RecordedStep DEF Timely
<1>2. /\ policy \in Rules /\ today \in Nat /\ index.list \in SUBSET Entries /\ IsFiniteSet(index.list)
  BY ArchiveAssumption DEF Timely, Recorded, TypeOK, ListIsFinite, Indexes, Rules
<1>3. ASSUME NEW s \in Sweeper, NEW e \in sweep'[s].doomed \cup sweep'[s].todo
      PROVE  Dispensable(policy', index'.list, today', e) /\ ~Blocked(e)'
  <2>1. e \in Entries
    BY SweepsCondemnOnce
  <2>2. CASE e \in sweep[s].doomed \cup sweep[s].todo
    <3>1. Dispensable(policy, index.list, today, e) /\ ~Blocked(e)
      BY <2>2 DEF Timely, SweepsAreTimely
    <3> QED BY <2>1, <3>1, DispensableRemains
  <2>3. CASE e \in Doomed(index.list)
    <3>1. e \in index.list \ Retain(index.list, today) /\ ~Blocked(e)
      BY <2>3 DEF Doomed
    <3>2. Dispensable(policy, index.list, today, e)
      BY <1>2, <2>1, <3>1, RetainMeans
    <3> QED BY <2>1, <3>1, <3>2, DispensableRemains
  <2> QED BY <2>2, <2>3, SweepsCondemnOnce
<1>4. SweepsAreTimely'
  BY <1>3 DEF SweepsAreTimely
<1> QED BY <1>1, <1>4 DEF Timely

LEMMA TimelyAtInit ==
  ASSUME Init PROVE Timely
  BY RecordedAtInit DEF Init, NoSweep, Timely, SweepsAreTimely

(* A sweep deletes nothing that its policy would keep of the index as it   *)
(* is by now, nor anything too young, although it read the index before    *)
(* other sweeps and backups rewrote it and days passed.                    *)
THEOREM SweepsSpare == Spec => SweepSpares
<1>1. Init => Timely
  BY TimelyAtInit
<1>2. Timely /\ [Next]_vars => Timely'
  BY TimelyStep
<1>3. ASSUME Timely, NEW s \in Sweeper, SweepDelete(s), NEW e \in sweep[s].todo \ sweep'[s].todo
      PROVE  e \notin Retain(index.list, today) /\ ~Blocked(e)
  <2>1. /\ policy \in Rules /\ today \in Nat /\ index.list \in SUBSET Entries /\ IsFiniteSet(index.list)
        /\ sweep[s].todo \in SUBSET Entries
    BY <1>3, ArchiveAssumption DEF Timely, Recorded, TypeOK, ListIsFinite, Indexes, Rules
  <2>2. Dispensable(policy, index.list, today, e) /\ ~Blocked(e)
    BY <1>3 DEF Timely, SweepsAreTimely
  <2> QED BY <2>1, <2>2, RetainMeans
<1>4. Timely /\ [Next]_vars => [DeletesWhatIsDue]_vars
  BY <1>3 DEF DeletesWhatIsDue
<1> QED BY <1>1, <1>2, <1>4, PTL DEF Spec, SweepSpares

----------------------------------------------------------------------------
(* While the clock and the commitSeq of the primary go forward.            *)

GoesForward == ~Skewed /\ ~Reseeded

(* A commitSeq is then the number of its commit, wherever it is noted.     *)
Numbered ==
    /\ primary.seq = primary.n
    /\ \A a \in Archiver : run[a].m.seq = run[a].m.n
    /\ \A e \in index.list : e.seq = e.n
    /\ \A k \in DOMAIN cold : cold[k] = k.seq

(* The commits that are or will be in the index.                           *)
Points ==
    {Key(primary)} \cup {Key(run[a].m) : a \in {b \in Archiver : run[b].at # "idle"}}
        \cup KeysOf(index.list)

(* Commits follow one another by commitSeq as by time.                     *)
InOrder ==
    /\ primary.at <= today
    /\ \A k \in Points : k.seq <= primary.seq
    /\ \A k, l \in Points : k.seq <= l.seq => k.at <= l.at

Superseded(k) == \E f \in index.list : f.seq > k.seq

(* What a sweep condemns, has deleted, or is to record although it has     *)
(* been deleted, is not the latest of the index.                           *)
LatestIsThere ==
    /\ \A s \in Sweeper : \A e \in sweep[s].doomed \cup sweep[s].todo : Superseded(e)
    /\ \A e \in index.list : Key(e) \in DOMAIN cold \/ Superseded(e)
    /\ \A a \in Archiver :
          run[a].at \in {"get", "cas"} => Key(run[a].m) \in DOMAIN cold \/ Superseded(run[a].m)

Forward == Timely /\ Numbered /\ InOrder /\ LatestIsThere

LEMMA ForwardAtInit ==
  ASSUME Init PROVE Forward
<1>1. Numbered
  BY DEF Init, Numbered, NoCommit, NoRun, NoIndex
<1>2. Points = {[seq |-> 0, at |-> 0]}
  BY DEF Init, Points, NoRun, NoIndex, NoCommit, Key, KeysOf
<1>3. InOrder
  BY <1>2 DEF Init, InOrder, NoCommit
<1>4. LatestIsThere
  BY DEF Init, LatestIsThere, NoSweep, NoIndex, NoRun
<1> QED BY <1>1, <1>3, <1>4, TimelyAtInit DEF Forward

LEMMA PointsAreKeys ==
  ASSUME TypeOK PROVE Points \in SUBSET Keys
<1>1. /\ run \in [Archiver -> Runs] /\ primary \in Commits /\ index.list \in SUBSET Entries
  BY DEF TypeOK, Runs, Indexes
<1>2. Key(primary) \in Keys /\ KeysOf(index.list) \in SUBSET Keys
  BY <1>1, KeyIsKey DEF KeysOf
<1>3. ASSUME NEW a \in Archiver PROVE Key(run[a].m) \in Keys
  BY <1>1, KeyIsKey DEF Runs
<1> QED BY <1>2, <1>3 DEF Points

(* Entries of the index by time are entries by commitSeq.                  *)
LEMMA LaterMeansHigher ==
  ASSUME Forward, NEW f \in index.list, NEW e \in index.list
  PROVE  Later(f, e) <=> f.seq > e.seq
<1>1. f \in Entries /\ e \in Entries
  BY DEF Forward, Timely, Recorded, TypeOK, Indexes
<1>2. Key(f) \in Points /\ Key(e) \in Points
  BY DEF Points, KeysOf
<1>3. /\ Key(f).seq = f.seq /\ Key(f).at = f.at /\ Key(e).seq = e.seq /\ Key(e).at = e.at
  BY DEF Key
<1>4. (f.seq <= e.seq => f.at <= e.at) /\ (e.seq <= f.seq => e.at <= f.at)
  BY <1>2, <1>3 DEF Forward, InOrder
<1>5. f.seq \in Nat /\ f.at \in Nat /\ e.seq \in Nat /\ e.at \in Nat
  BY <1>1 DEF Entries
<1> QED BY <1>4, <1>5 DEF Later

(* What is superseded stays superseded: a sweep leaves the latest of what  *)
(* has superseded it.                                                      *)
LEMMA SupersededStays ==
  ASSUME Forward, [Next]_vars, NEW n \in Nat, \E f \in index.list : f.seq > n
  PROVE  \E f \in index'.list : f.seq > n
<1>1. /\ index.list \in SUBSET Entries /\ IsFiniteSet(index.list) /\ Recorded
  BY DEF Forward, Timely, Recorded, TypeOK, ListIsFinite, Indexes
<1>2. CASE index.list \subseteq index'.list
  BY <1>2
<1>3. ASSUME NEW s \in Sweeper, index'.list = index.list \ sweep[s].doomed
      PROVE  \E f \in index'.list : f.seq > n
  <2> DEFINE S == {f \in index.list : f.seq > n}
  <2>1. S \in SUBSET Entries /\ S \in SUBSET index.list /\ S # {}
    BY <1>1
  <2>2. IsFiniteSet(S)
    BY <1>1, <2>1, FS_Subset
  <2>3. PICK x \in S : \A y \in S : ~Later(y, x)
    <3> HIDE DEF S
    <3> QED BY <2>1, <2>2, LastEntry
  <2>4. x \in index.list /\ x.seq > n /\ x.seq \in Nat
    BY <2>1, <2>3 DEF Entries
  <2>5. ASSUME x \in sweep[s].doomed PROVE FALSE
    <3>1. PICK f \in index.list : f.seq > x.seq
      BY <2>5 DEF Forward, LatestIsThere, Superseded
    <3>2. f.seq \in Nat
      BY <1>1 DEF Entries
    <3>3. f \in S
      BY <2>4, <3>1, <3>2
    <3> QED BY <2>3, <2>4, <3>1, <3>3, LaterMeansHigher
  <2> QED BY <1>3, <2>4, <2>5
<1>4. CASE Commit \/ DayPasses \/ UNCHANGED vars
  BY <1>2, <1>4 DEF Commit, DayPasses, vars
<1>5. ASSUME NEW a \in Archiver, Backup(a) PROVE index.list \subseteq index'.list
  <2>1. CASE AppendCas(a)
    BY <1>1, <2>1, IndexGrows
  <2>2. CASE ~AppendCas(a)
    BY <1>5, <2>2 DEF Backup, BackupStart, BackupPut, Adopt, AdoptHead, AppendGet, BackupDies
  <2> QED BY <2>1, <2>2
<1>6. ASSUME NEW s \in Sweeper, Retention(s)
      PROVE  index' = index \/ index'.list = index.list \ sweep[s].doomed
  <2>1. CASE SweepCas(s)
    BY <1>1, <2>1, IndexShrinks
  <2>2. CASE ~SweepCas(s)
    BY <1>6, <2>2 DEF Retention, SweepRead, SweepDelete, SweepDies
  <2> QED BY <2>1, <2>2
<1> QED BY <1>2, <1>3, <1>4, <1>5, <1>6 DEF Next

(* Only the writer makes a commit.                                         *)
LEMMA NoNewPoints ==
  ASSUME Recorded, [Next]_vars
  PROVE  Points' \subseteq Points \cup {Key(primary')}
<1>1. run \in [Archiver -> Runs]
  BY DEF Recorded, TypeOK, Runs
<1>2. CASE UNCHANGED <<run, index>>
  BY <1>2 DEF Points
<1>3. ASSUME NEW a \in Archiver, Backup(a) PROVE Points' \subseteq Points \cup {Key(primary')}
  <2>1. run[a] \in Runs
    BY <1>1
  <2>2. UNCHANGED primary
    BY <1>3 DEF Backup, BackupStart, BackupPut, Adopt, AdoptHead, AppendGet, AppendCas, BackupDies
  <2>3. PICK r : run' = [run EXCEPT ![a] = r]
                 /\ (r.at = "idle" \/ r.m = primary \/ (r.m = run[a].m /\ run[a].at # "idle"))
    <3>1. CASE BackupStart(a)
      <4>1. [NoRun EXCEPT !.at = "put", !.m = primary].m = primary
        BY DEF NoRun
      <4> QED BY <3>1, <4>1 DEF BackupStart, Run
    <3>2. CASE BackupPut(a)
      BY <2>1, <3>2 DEF BackupPut, Run, Runs
    <3>3. NoRun.at = "idle"
      BY DEF NoRun
    <3>4. CASE Adopt(a)
      BY <2>1, <3>3, <3>4 DEF Adopt, Done, Run, Runs
    <3>5. CASE AdoptHead(a)
      <4>1. CASE Key(run[a].m) \in DOMAIN cold
        <5>1. run' = [run EXCEPT ![a] = [run[a] EXCEPT !.at = "get", !.made = today]]
          BY <3>5, <4>1 DEF AdoptHead, Run
        <5>2. [run[a] EXCEPT !.at = "get", !.made = today].m = run[a].m /\ run[a].at # "idle"
          BY <2>1, <3>5 DEF AdoptHead, Runs
        <5> QED BY <5>1, <5>2
      <4>2. CASE Key(run[a].m) \notin DOMAIN cold
        BY <3>3, <3>5, <4>2 DEF AdoptHead, Run
      <4> QED BY <4>1, <4>2
    <3>6. CASE AppendGet(a)
      BY <2>1, <3>3, <3>6 DEF AppendGet, Done, Run, Runs
    <3>7. CASE AppendCas(a)
      <4>1. CASE run' = [run EXCEPT ![a] = NoRun]
        BY <3>3, <4>1
      <4>2. CASE run' = [run EXCEPT ![a] = [run[a] EXCEPT !.at = "get", !.attempt = @ + 1, !.idx = NoIndex]]
        <5>1. [run[a] EXCEPT !.at = "get", !.attempt = @ + 1, !.idx = NoIndex].m = run[a].m
          BY <2>1 DEF Runs
        <5> QED BY <3>7, <4>2, <5>1 DEF AppendCas
      <4> QED BY <3>7, <4>1, <4>2 DEF AppendCas, Done, Run
    <3>8. CASE BackupDies(a)
      BY <3>3, <3>8 DEF BackupDies, Run
    <3> QED BY <1>3, <3>1, <3>2, <3>4, <3>5, <3>6, <3>7, <3>8 DEF Backup
  <2>4. ASSUME NEW b \in Archiver, run'[b].at # "idle" PROVE Key(run'[b].m) \in Points
    <3>1. CASE b # a
      BY <1>1, <2>3, <2>4, <3>1 DEF Points
    <3>2. CASE b = a
      <4>1. run'[a] = r
        BY <1>1, <2>3
      <4> QED BY <2>3, <2>4, <3>2, <4>1 DEF Points
    <3> QED BY <3>1, <3>2
  <2>5. KeysOf(index'.list) \subseteq Points
    <3>1. CASE AppendCas(a)
      <4>1. run[a].at = "cas"
        BY <3>1 DEF AppendCas
      <4>2. Key(run[a].m) \in Points
        BY <4>1 DEF Points
      <4>3. KeysOf(index'.list) \subseteq KeysOf(index.list) \cup {Key(run[a].m)}
        BY <2>1, <3>1, IndexGrows, EntryIsEntry DEF KeysOf
      <4> QED BY <4>2, <4>3 DEF Points
    <3>2. CASE ~AppendCas(a)
      BY <1>3, <3>2 DEF Backup, BackupStart, BackupPut, Adopt, AdoptHead, AppendGet, BackupDies, Points
    <3> QED BY <3>1, <3>2
  <2> QED BY <2>4, <2>5 DEF Points
<1>4. ASSUME NEW s \in Sweeper, Retention(s) PROVE Points' \subseteq Points \cup {Key(primary')}
  <2>1. UNCHANGED run
    BY <1>4 DEF Retention, SweepRead, SweepDelete, SweepCas, SweepDies
  <2>2. index'.list \subseteq index.list
    <3>1. CASE SweepCas(s)
      BY <3>1, IndexShrinks
    <3>2. CASE ~SweepCas(s)
      BY <1>4, <3>2 DEF Retention, SweepRead, SweepDelete, SweepDies
    <3> QED BY <3>1, <3>2
  <2> QED BY <2>1, <2>2 DEF Points, KeysOf
<1> QED BY <1>2, <1>3, <1>4 DEF Next, Commit, DayPasses, vars

LEMMA NumberedStep ==
  ASSUME Forward, [Next]_vars, GoesForward
  PROVE  Numbered'
<1>1. /\ run \in [Archiver -> Runs] /\ primary \in Commits /\ index.list \in SUBSET Entries
      /\ Recorded /\ Numbered
  BY DEF Forward, Timely, Recorded, TypeOK, Runs, Indexes
<1>2. CASE Commit
  <2>1. primary'.seq = primary.seq + 1 /\ primary'.n = primary.n + 1
    BY <1>2 DEF Commit, GoesForward
  <2> QED BY <1>1, <1>2, <2>1 DEF Commit, Numbered
<1>3. CASE DayPasses \/ UNCHANGED vars
  BY <1>1, <1>3 DEF DayPasses, vars, Numbered
<1>4. ASSUME NEW a \in Archiver, Backup(a) PROVE Numbered'
  <2>1. run[a] \in Runs
    BY <1>1
  <2>2. UNCHANGED primary
    BY <1>4 DEF Backup, BackupStart, BackupPut, Adopt, AdoptHead, AppendGet, AppendCas, BackupDies
  <2>3. NoRun.m.seq = NoRun.m.n
    BY DEF NoRun, NoCommit
  <2>4. \E r : run' = [run EXCEPT ![a] = r] /\ r.m.seq = r.m.n
    <3>1. run[a].m.seq = run[a].m.n /\ primary.seq = primary.n
      BY <1>1 DEF Numbered
    <3>2. CASE BackupStart(a)
      <4>1. [NoRun EXCEPT !.at = "put", !.m = primary].m = primary
        BY DEF NoRun
      <4> QED BY <3>1, <3>2, <4>1 DEF BackupStart, Run
    <3>3. CASE BackupPut(a)
      <4>1. /\ [run[a] EXCEPT !.at = "get", !.made = today].m = run[a].m
            /\ [run[a] EXCEPT !.at = "adopt"].m = run[a].m
        BY <2>1 DEF Runs
      <4> QED BY <3>1, <3>3, <4>1 DEF BackupPut, Run
    <3>4. CASE Adopt(a)
      BY <2>1, <2>3, <3>1, <3>4 DEF Adopt, Done, Run, Runs
    <3>5. CASE AdoptHead(a)
      <4>1. [run[a] EXCEPT !.at = "get", !.made = today].m = run[a].m
        BY <2>1 DEF Runs
      <4> QED BY <2>3, <3>1, <3>5, <4>1 DEF AdoptHead, Run
    <3>6. CASE AppendGet(a)
      <4>1. [run[a] EXCEPT !.at = "cas", !.idx = index].m = run[a].m
        BY <2>1 DEF Runs
      <4> QED BY <2>3, <3>1, <3>6, <4>1 DEF AppendGet, Done, Run
    <3>7. CASE AppendCas(a)
      <4>1. [run[a] EXCEPT !.at = "get", !.attempt = @ + 1, !.idx = NoIndex].m = run[a].m
        BY <2>1 DEF Runs
      <4> QED BY <2>3, <3>1, <3>7, <4>1 DEF AppendCas, Done, Run
    <3>8. CASE BackupDies(a)
      BY <2>3, <3>8 DEF BackupDies, Run
    <3> QED BY <1>4, <3>2, <3>3, <3>4, <3>5, <3>6, <3>7, <3>8 DEF Backup
  <2>5. \A b \in Archiver : run'[b].m.seq = run'[b].m.n
    BY <1>1, <2>4 DEF Numbered
  <2>6. \A e \in index'.list : e.seq = e.n
    <3>1. CASE AppendCas(a)
      <4>1. Entry(run[a]).seq = Entry(run[a]).n
        BY <1>1 DEF Entry, Numbered
      <4> QED BY <1>1, <3>1, <4>1, IndexGrows DEF Numbered
    <3>2. CASE ~AppendCas(a)
      <4>1. UNCHANGED index
        BY <1>4, <3>2 DEF Backup, BackupStart, BackupPut, Adopt, AdoptHead, AppendGet, BackupDies
      <4> QED BY <1>1, <4>1 DEF Numbered
    <3> QED BY <3>1, <3>2
  <2>7. \A k \in DOMAIN cold' : cold'[k] = k.seq
    <3>1. CASE BackupPut(a)
      <4>1. Key(run[a].m).seq = run[a].m.n
        BY <1>1 DEF Key, Numbered
      <4> QED BY <1>1, <3>1, <4>1 DEF BackupPut, Numbered
    <3>2. CASE ~BackupPut(a)
      <4>1. UNCHANGED cold
        BY <1>4, <3>2 DEF Backup, BackupStart, Adopt, AdoptHead, AppendGet, AppendCas, BackupDies
      <4> QED BY <1>1, <4>1 DEF Numbered
    <3> QED BY <3>1, <3>2
  <2> QED BY <1>1, <2>2, <2>5, <2>6, <2>7 DEF Numbered
<1>5. ASSUME NEW s \in Sweeper, Retention(s) PROVE Numbered'
  <2>1. UNCHANGED <<primary, run>>
    BY <1>5 DEF Retention, SweepRead, SweepDelete, SweepCas, SweepDies
  <2>2. \A e \in index'.list : e.seq = e.n
    <3>1. CASE SweepCas(s)
      BY <1>1, <3>1, IndexShrinks DEF Numbered
    <3>2. CASE ~SweepCas(s)
      <4>1. UNCHANGED index
        BY <1>5, <3>2 DEF Retention, SweepRead, SweepDelete, SweepDies
      <4> QED BY <1>1, <4>1 DEF Numbered
    <3> QED BY <3>1, <3>2
  <2>3. \A k \in DOMAIN cold' : cold'[k] = k.seq
    BY <1>1, <1>5 DEF Numbered, Retention, SweepRead, SweepDelete, SweepCas, SweepDies
  <2> QED BY <1>1, <2>1, <2>2, <2>3 DEF Numbered
<1> QED BY <1>2, <1>3, <1>4, <1>5 DEF Next

LEMMA InOrderStep ==
  ASSUME Forward, [Next]_vars, GoesForward
  PROVE  InOrder'
<1>1. /\ today \in Nat /\ primary.seq \in Nat /\ primary.at \in Nat /\ Points \in SUBSET Keys
      /\ Recorded /\ InOrder
  BY PointsAreKeys DEF Forward, Timely, Recorded, TypeOK, Commits
<1>2. \A k \in Points : k.seq \in Nat /\ k.at \in Nat
  BY <1>1 DEF Keys
<1>3. Points' \subseteq Points \cup {Key(primary')}
  BY <1>1, NoNewPoints
<1>4. CASE Commit
  <2>1. primary'.seq = primary.seq + 1 /\ primary'.at = today /\ today' = today
    BY <1>4 DEF Commit, GoesForward
  <2>2. Key(primary').seq = primary.seq + 1 /\ Key(primary').at = today
    BY <2>1 DEF Key
  <2>3. \A k \in Points : k.seq <= primary.seq /\ k.at <= today
    <3>1. Key(primary) \in Points /\ Key(primary).seq = primary.seq /\ Key(primary).at = primary.at
      BY DEF Points, Key
    <3>2. ASSUME NEW k \in Points PROVE k.seq <= primary.seq /\ k.at <= primary.at
      BY <1>1, <3>1 DEF InOrder
    <3>3. primary.at <= today
      BY <1>1 DEF InOrder
    <3> QED BY <1>1, <1>2, <3>2, <3>3
  <2>4. \A k \in Points' : k.seq <= primary'.seq
    BY <1>1, <1>2, <1>3, <2>1, <2>2, <2>3
  <2>5. ASSUME NEW k \in Points', NEW l \in Points', k.seq <= l.seq PROVE k.at <= l.at
    <3>1. CASE k \in Points /\ l \in Points
      BY <1>1, <2>5, <3>1 DEF InOrder
    <3>2. CASE k \in Points /\ l = Key(primary')
      BY <2>2, <2>3, <3>2
    <3>3. CASE k = Key(primary') /\ l \in Points
      BY <1>1, <1>2, <2>2, <2>3, <2>5, <3>3
    <3>4. CASE k = Key(primary') /\ l = Key(primary')
      BY <1>1, <2>2, <3>4
    <3> QED BY <1>3, <3>1, <3>2, <3>3, <3>4
  <2> QED BY <1>1, <2>1, <2>4, <2>5 DEF InOrder
<1>5. CASE ~Commit
  <2>1. UNCHANGED primary
    BY <1>5 DEF Next, vars, DayPasses, Backup, BackupStart, BackupPut, Adopt, AdoptHead, AppendGet,
         AppendCas, BackupDies, Retention, SweepRead, SweepDelete, SweepCas, SweepDies
  <2>2. today' = today \/ today' = today + 1
    BY <1>5 DEF Next, vars, DayPasses, Backup, BackupStart, BackupPut, Adopt, AdoptHead, AppendGet,
         AppendCas, BackupDies, Retention, SweepRead, SweepDelete, SweepCas, SweepDies
  <2>3. Points' \subseteq Points
    BY <1>3, <2>1 DEF Points
  <2>4. primary'.at <= today'
    BY <1>1, <2>1, <2>2 DEF InOrder
  <2> QED BY <1>1, <2>1, <2>3, <2>4 DEF InOrder
<1> QED BY <1>4, <1>5

LEMMA LatestStep ==
  ASSUME Forward, [Next]_vars
  PROVE  LatestIsThere'
<1>1. /\ run \in [Archiver -> Runs] /\ sweep \in [Sweeper -> Sweeps] /\ index.list \in SUBSET Entries
      /\ Recorded /\ Timely /\ LatestIsThere
  BY DEF Forward, Timely, Recorded, TypeOK, Runs, Sweeps, Indexes
<1>2. ASSUME NEW e, e.seq \in Nat, Superseded(e) PROVE Superseded(e)'
  BY <1>2, SupersededStays DEF Superseded
<1>3. \A e \in Entries : e.seq \in Nat
  BY DEF Entries
<1>4. ASSUME NEW a \in Archiver PROVE run[a] \in Runs /\ run[a].m.seq \in Nat
  BY <1>1 DEF Runs, Commits
<1>5. ASSUME NEW s \in Sweeper, NEW e \in sweep'[s].doomed \cup sweep'[s].todo
      PROVE  Superseded(e)'
  <2>1. CASE e \in sweep[s].doomed \cup sweep[s].todo
    BY <1>1, <1>2, <1>3, <1>5, <2>1, SweepsCondemnOnce DEF LatestIsThere
  <2>2. CASE e \in Doomed(index.list)
    <3>1. e \in index.list /\ e \notin Retain(index.list, today)
      BY <2>2 DEF Doomed
    <3>2. PICK f \in index.list : Later(f, e)
      BY <3>1 DEF Retain, LaterOnes
    <3>3. f.seq > e.seq
      BY <3>1, <3>2, LaterMeansHigher
    <3> QED BY <1>1, <1>2, <1>3, <3>1, <3>3 DEF Superseded
  <2> QED BY <1>1, <1>5, <2>1, <2>2, SweepsCondemnOnce
<1>6. CASE Commit \/ DayPasses \/ UNCHANGED vars
  <2>1. UNCHANGED <<index, cold, run, sweep>>
    BY <1>6 DEF Commit, DayPasses, vars
  <2> QED BY <1>1, <2>1 DEF LatestIsThere, Superseded
<1>7. ASSUME NEW a \in Archiver, Backup(a) PROVE LatestIsThere'
  <2>1. DOMAIN cold \subseteq DOMAIN cold'
    BY <1>7 DEF Backup, BackupStart, BackupPut, Adopt, AdoptHead, AppendGet, AppendCas, BackupDies
  <2>2. ASSUME NEW b \in Archiver, run'[b].at \in {"get", "cas"}
        PROVE  Key(run'[b].m) \in DOMAIN cold' \/ \E f \in index'.list : f.seq > run'[b].m.seq
    <3>1. \/ run'[b].m = run[b].m /\ run[b].at \in {"get", "cas"}
          \/ Key(run'[b].m) \in DOMAIN cold'
      <4>1. CASE b # a
        BY <1>1, <1>7, <2>2, <4>1
           DEF Backup, BackupStart, BackupPut, Adopt, AdoptHead, AppendGet, AppendCas, BackupDies, Run, Done
      <4>2. CASE b = a
        <5>1. NoRun.at = "idle"
          BY DEF NoRun
        <5>2. CASE BackupStart(a)
          <6>1. [NoRun EXCEPT !.at = "put", !.m = primary].at = "put"
            BY DEF NoRun
          <6> QED BY <1>1, <2>2, <4>2, <5>2, <6>1 DEF BackupStart, Run
        <5>3. CASE BackupPut(a)
          <6>1. CASE Key(run[a].m) \notin DOMAIN cold
            <7>1. run'[a] = [run[a] EXCEPT !.at = "get", !.made = today]
              BY <1>1, <5>3, <6>1 DEF BackupPut, Run
            <7>2. Key(run[a].m) \in DOMAIN cold'
              BY <5>3, <6>1 DEF BackupPut
            <7>3. run'[a].m = run[a].m
              BY <1>4, <7>1 DEF Runs
            <7> QED BY <4>2, <7>2, <7>3
          <6>2. CASE Key(run[a].m) \in DOMAIN cold
            <7>1. run'[a] = [run[a] EXCEPT !.at = "adopt"]
              BY <1>1, <5>3, <6>2 DEF BackupPut, Run
            <7>2. run'[a].at = "adopt"
              BY <1>4, <7>1 DEF Runs
            <7> QED BY <2>2, <4>2, <7>2
          <6> QED BY <6>1, <6>2
        <5>4. CASE Adopt(a)
          BY <1>1, <1>4, <2>2, <4>2, <5>1, <5>4 DEF Adopt, Done, Run, Runs
        <5>5. CASE AdoptHead(a)
          <6>1. CASE Key(run[a].m) \in DOMAIN cold
            <7>1. run'[a] = [run[a] EXCEPT !.at = "get", !.made = today]
              BY <1>1, <5>5, <6>1 DEF AdoptHead, Run
            <7>2. run'[a].m = run[a].m
              BY <1>4, <7>1 DEF Runs
            <7> QED BY <2>1, <4>2, <6>1, <7>2
          <6>2. CASE Key(run[a].m) \notin DOMAIN cold
            <7>1. run'[a] = NoRun
              BY <1>1, <5>5, <6>2 DEF AdoptHead, Run
            <7> QED BY <2>2, <4>2, <5>1, <7>1
          <6> QED BY <6>1, <6>2
        <5>6. CASE AppendGet(a)
          BY <1>1, <1>4, <2>2, <4>2, <5>1, <5>6 DEF AppendGet, Done, Run, Runs
        <5>7. CASE AppendCas(a)
          <6>1. run'[a] = NoRun \/ run'[a] = [run[a] EXCEPT !.at = "get", !.attempt = @ + 1, !.idx = NoIndex]
            BY <1>1, <5>7 DEF AppendCas, Done, Run
          <6>2. [run[a] EXCEPT !.at = "get", !.attempt = @ + 1, !.idx = NoIndex].m = run[a].m
            BY <1>4 DEF Runs
          <6>3. run[a].at = "cas"
            BY <5>7 DEF AppendCas
          <6> QED BY <2>2, <4>2, <5>1, <6>1, <6>2, <6>3
        <5>8. CASE BackupDies(a)
          BY <1>1, <2>2, <4>2, <5>1, <5>8 DEF BackupDies, Run
        <5> QED BY <1>7, <5>2, <5>3, <5>4, <5>5, <5>6, <5>7, <5>8 DEF Backup
      <4> QED BY <4>1, <4>2
    <3>2. CASE run'[b].m = run[b].m /\ run[b].at \in {"get", "cas"}
      <4>1. Key(run[b].m) \in DOMAIN cold \/ Superseded(run[b].m)
        BY <1>1, <3>2 DEF LatestIsThere
      <4>2. Superseded(run[b].m) => \E f \in index'.list : f.seq > run[b].m.seq
        BY <1>4, SupersededStays DEF Superseded
      <4> QED BY <2>1, <3>2, <4>1, <4>2
    <3> QED BY <3>1, <3>2
  <2>3. ASSUME NEW e \in index'.list PROVE Key(e) \in DOMAIN cold' \/ Superseded(e)'
    <3>1. CASE e \in index.list
      BY <1>1, <1>2, <1>3, <2>1, <3>1 DEF LatestIsThere
    <3>2. CASE e \notin index.list
      <4>1. AppendCas(a) /\ e = Entry(run[a])
        <5>1. AppendCas(a)
          BY <1>7, <3>2 DEF Backup, BackupStart, BackupPut, Adopt, AdoptHead, AppendGet, BackupDies
        <5> QED BY <1>1, <3>2, <5>1, IndexGrows
      <4>2. run[a].at = "cas" /\ UNCHANGED cold
        BY <4>1 DEF AppendCas
      <4>3. Key(e) = Key(run[a].m) /\ e.seq = run[a].m.seq
        BY <1>4, <4>1, EntryIsEntry DEF Entry
      <4>4. Key(run[a].m) \in DOMAIN cold \/ Superseded(run[a].m)
        BY <1>1, <4>2 DEF LatestIsThere
      <4>5. Superseded(run[a].m) => Superseded(e)
        BY <4>3 DEF Superseded
      <4> QED BY <1>2, <1>4, <4>2, <4>3, <4>4, <4>5
    <3> QED BY <3>1, <3>2
  <2>4. \A z \in Sweeper : \A e \in sweep'[z].doomed \cup sweep'[z].todo : Superseded(e)'
    BY <1>5
  <2> QED BY <2>2, <2>3, <2>4 DEF LatestIsThere, Superseded
<1>8. ASSUME NEW s \in Sweeper, Retention(s) PROVE LatestIsThere'
  <2>1. UNCHANGED run /\ index'.list \subseteq index.list
    <3>1. UNCHANGED run
      BY <1>8 DEF Retention, SweepRead, SweepDelete, SweepCas, SweepDies
    <3>2. CASE SweepCas(s)
      BY <1>1, <3>1, <3>2, IndexShrinks
    <3>3. CASE ~SweepCas(s)
      BY <1>8, <3>1, <3>3 DEF Retention, SweepRead, SweepDelete, SweepDies
    <3> QED BY <3>2, <3>3
  <2>2. ASSUME NEW k, k \in DOMAIN cold, k \notin DOMAIN cold'
        PROVE  \E f \in index'.list : f.seq > k.seq
    <3>1. SweepDelete(s)
      BY <1>8, <2>2 DEF Retention, SweepRead, SweepCas, SweepDies
    <3>2. PICK e \in sweep[s].todo : k = Key(e)
      BY <2>2, <3>1 DEF SweepDelete
    <3>3. Superseded(e) /\ UNCHANGED index
      BY <1>1, <3>1 DEF LatestIsThere, SweepDelete
    <3>4. k.seq = e.seq
      BY <3>2 DEF Key
    <3> QED BY <3>3, <3>4 DEF Superseded
  <2>3. ASSUME NEW e \in index'.list PROVE Key(e) \in DOMAIN cold' \/ Superseded(e)'
    <3>1. Key(e).seq = e.seq /\ e \in index.list
      BY <2>1 DEF Key
    <3>2. Key(e) \in DOMAIN cold \/ Superseded(e)
      BY <1>1, <3>1 DEF LatestIsThere
    <3>3. CASE Superseded(e)
      BY <1>1, <1>2, <1>3, <3>1, <3>3
    <3>4. CASE Key(e) \in DOMAIN cold
      BY <2>2, <3>1, <3>4 DEF Superseded
    <3> QED BY <3>2, <3>3, <3>4
  <2>4. ASSUME NEW b \in Archiver, run'[b].at \in {"get", "cas"}
        PROVE  Key(run'[b].m) \in DOMAIN cold' \/ \E f \in index'.list : f.seq > run'[b].m.seq
    <3>1. Key(run[b].m).seq = run[b].m.seq /\ run'[b] = run[b]
      BY <2>1 DEF Key
    <3>2. Key(run[b].m) \in DOMAIN cold \/ Superseded(run[b].m)
      BY <1>1, <2>4, <3>1 DEF LatestIsThere
    <3>3. Superseded(run[b].m) => \E f \in index'.list : f.seq > run[b].m.seq
      BY <1>4, SupersededStays DEF Superseded
    <3> QED BY <2>2, <3>1, <3>2, <3>3
  <2>5. \A z \in Sweeper : \A e \in sweep'[z].doomed \cup sweep'[z].todo : Superseded(e)'
    BY <1>5
  <2> QED BY <2>3, <2>4, <2>5 DEF LatestIsThere, Superseded
<1> QED BY <1>6, <1>7, <1>8 DEF Next

(* The archive never goes empty, and a restore gets the latest commit it   *)
(* holds, as long as the clocks of the writers go forward and the primary  *)
(* is not created anew; without either TLC finds the contrary.             *)
THEOREM LatestIsRestored ==
  ASSUME GoesForward
  PROVE  Spec => []RestoreGetsLatest
<1>1. Init => Forward
  BY ForwardAtInit
<1>2. Forward /\ [Next]_vars => Forward'
  BY TimelyStep, NumberedStep, InOrderStep, LatestStep DEF Forward
<1>3. Forward => RestoreGetsLatest
  <2> SUFFICES ASSUME Forward, NEW e \in Newest(index.list)
               PROVE  /\ Key(e) \in DOMAIN cold
                      /\ cold[Key(e)] = e.n
                      /\ \A f \in index.list : f.n <= e.n
    BY DEF RestoreGetsLatest
  <2>1. e \in index.list /\ \A f \in index.list : f.seq <= e.seq
    BY DEF Newest
  <2>2. index.list \in SUBSET Entries
    BY DEF Forward, Timely, Recorded, TypeOK, Indexes
  <2>3. ~Superseded(e)
    BY <2>1, <2>2 DEF Superseded, Entries
  <2>4. Key(e) \in DOMAIN cold
    BY <2>1, <2>3 DEF Forward, LatestIsThere
  <2>5. Key(e).seq = e.seq
    BY DEF Key
  <2> QED BY <2>1, <2>4, <2>5 DEF Forward, Numbered
<1> QED BY <1>1, <1>2, <1>3, PTL DEF Spec
=============================================================================
