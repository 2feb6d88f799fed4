------------------------- MODULE TreeHashTableProofs ------------------------
(***************************************************************************)
(* TLAPS proofs about TreeHashTable, for every set of elements, every hash *)
(* function and tables of every size.                                      *)
(***************************************************************************)
EXTENDS TreeHashTable, FiniteSetTheorems, NaturalsInduction, WellFoundedInduction, TLAPS

-----------------------------------------------------------------------------
(* Walks: a function F applied M times, from a state s on                  *)

\* A set with 0 that is closed under successor has every natural number.
LEMMA SetInduction ==
  ASSUME NEW S, 0 \in S, \A n \in S : n + 1 \in S
  PROVE  Nat \subseteq S
<1> DEFINE R == {ss \in Nat \X Nat : ss[1] < ss[2]}
<1>1. IsWellFoundedOn(R, Nat)
  BY NatLessThanWellFounded, Zenon DEF OpToRel
<1> SUFFICES ASSUME NEW b \in Nat, b \notin S PROVE FALSE
  OBVIOUS
<1>2. PICK x \in Nat \ S : \A y \in Nat \ S : ~(<<y, x>> \in R)
  <2>1. Nat \ S \subseteq Nat /\ Nat \ S # {}
    OBVIOUS
  <2> HIDE DEF R
  <2>2. QED BY <1>1, <2>1, WFMin, Zenon
<1>3. x # 0
  OBVIOUS
<1>4. x - 1 \in Nat /\ x = (x - 1) + 1 /\ <<x - 1, x>> \in R
  BY <1>3
<1>5. x - 1 \in S
  BY <1>2, <1>4
<1>6. QED BY <1>4, <1>5

\* F maps I into itself.
Closed(F, I) == \A x \in I : F[x] \in I

\* g is the sequence of states of M passes of F from s on, all in I.
IsRun(g, F, s, M, I) == /\ g \in [0 .. M -> I] /\ g[0] = s
                        /\ \A n \in 1 .. M : g[n] = F[g[n - 1]]

\* There is a sequence of states that the passes run through.
LEMMA RunExists ==
  ASSUME NEW I, NEW F, NEW s \in I, Closed(F, I), NEW M \in Nat
  PROVE  \E g : IsRun(g, F, s, M, I)
<1> USE DEF IsRun
<1> DEFINE A == {m \in Nat : \E g \in [0 .. m -> I] : g[0] = s /\ \A n \in 1 .. m : g[n] = F[g[n - 1]]}
<1>1. 0 \in A
  <2>1. [n \in 0 .. 0 |-> s] \in [0 .. 0 -> I]
    OBVIOUS
  <2>2. [n \in 0 .. 0 |-> s][0] = s
    OBVIOUS
  <2>3. 1 .. 0 = {}
    OBVIOUS
  <2>4. QED BY <2>1, <2>2, <2>3
<1>2. ASSUME NEW m \in A PROVE m + 1 \in A
  <2>1. m \in Nat
    BY <1>2
  <2>2. PICK g \in [0 .. m -> I] : g[0] = s /\ \A n \in 1 .. m : g[n] = F[g[n - 1]]
    BY <1>2
  <2> DEFINE h == [n \in 0 .. m + 1 |-> IF n <= m THEN g[n] ELSE F[g[m]]]
  <2>3. g[m] \in I /\ F[g[m]] \in I
    BY <2>1, <2>2 DEF Closed
  <2>4. h \in [0 .. m + 1 -> I]
    BY <2>1, <2>2, <2>3
  <2>5. h[0] = s
    BY <2>1, <2>2
  <2>6. \A n \in 1 .. m + 1 : h[n] = F[h[n - 1]]
    BY <2>1, <2>2
  <2> HIDE DEF h
  <2>7. QED BY <2>1, <2>4, <2>5, <2>6
<1> HIDE DEF A
<1>3. Nat \subseteq A
  BY <1>1, <1>2, SetInduction
<1>4. QED BY <1>3 DEF A

\* g is such a sequence if each of its states that is in I is followed by F's.
LEMMA RunIs ==
  ASSUME NEW I, NEW F, NEW s \in I, Closed(F, I), NEW M \in Nat,
         NEW g, g = [n \in 0 .. M |-> g[n]], g[0] = s,
         \A n \in 1 .. M : g[n - 1] \in I => g[n] = F[g[n - 1]]
  PROVE  IsRun(g, F, s, M, I)
<1> DEFINE A == {n \in Nat : n \in 0 .. M => g[n] \in I}
<1>1. 0 \in A
  OBVIOUS
<1>2. ASSUME NEW n \in A PROVE n + 1 \in A
  <2> SUFFICES ASSUME n + 1 \in 0 .. M PROVE g[n + 1] \in I
    OBVIOUS
  <2>1. n \in 0 .. M /\ n + 1 \in 1 .. M /\ (n + 1) - 1 = n
    OBVIOUS
  <2>2. g[n] \in I
    BY <2>1
  <2>3. g[n + 1] = F[g[n]]
    BY <2>1, <2>2
  <2>4. QED BY <2>2, <2>3 DEF Closed
<1> HIDE DEF A
<1>3. Nat \subseteq A
  BY <1>1, <1>2, SetInduction
<1>4. \A n \in 0 .. M : g[n] \in I
  BY <1>3 DEF A
<1>5. \A n \in 1 .. M : g[n - 1] \in I
  <2>1. \A n \in 1 .. M : n - 1 \in 0 .. M
    OBVIOUS
  <2>2. QED BY <1>4, <2>1
<1>6. g \in [0 .. M -> I]
  BY <1>4
<1>7. QED BY <1>5, <1>6 DEF IsRun

-----------------------------------------------------------------------------

\* What every table, also one in the middle of an operation, satisfies.
HInv(h) == Shape(h) /\ Placed(h) /\ Frontier(h) /\ Unique(h)

\* A bucket index is an index of its array.
LEMMA IndexRange ==
  ASSUME NEW size \in Nat, size > 0, NEW k \in Key
  PROVE  bucket_index(size, k) \in 0 .. size - 1
BY HashAssumption DEF bucket_index

\* Membership in the table, bucket by bucket.
LEMMA StoredMember ==
  ASSUME NEW h, NEW x
  PROVE  x \in Stored(h) <=> \/ \E j \in 0 .. h.n1 - 1 : x \in h.t1[j]
                             \/ \E j \in 0 .. h.n2 - 1 : x \in h.t2[j]
BY DEF Stored

\* Fields of the record built by Table.
LEMMA TableFields ==
  ASSUME NEW t1, NEW n1, NEW t2, NEW n2, NEW used, NEW idx
  PROVE  /\ Table(t1, n1, t2, n2, used, idx).t1 = t1
         /\ Table(t1, n1, t2, n2, used, idx).n1 = n1
         /\ Table(t1, n1, t2, n2, used, idx).t2 = t2
         /\ Table(t1, n1, t2, n2, used, idx).n2 = n2
         /\ Table(t1, n1, t2, n2, used, idx).used = used
         /\ Table(t1, n1, t2, n2, used, idx).idx = idx
BY DEF Table

\* Starting a rehash keeps the invariant and the contents.
LEMMA RehashLemma ==
  ASSUME NEW h, HInv(h)
  PROVE  /\ HInv(Rehash(h))
         /\ Stored(Rehash(h)) = Stored(h)
         /\ Rehash(h).used = h.used
<1>1. CASE ~(~InRehashing(h) /\ h.used >= h.n1)
  BY <1>1 DEF Rehash
<1>2. CASE ~InRehashing(h) /\ h.used >= h.n1
  <2> DEFINE r == Rehash(h)
  <2>1. /\ r.t1 = h.t1 /\ r.n1 = h.n1 /\ r.t2 = Buckets(2 * h.n1)
        /\ r.n2 = 2 * h.n1 /\ r.used = h.used /\ r.idx = 0
    BY <1>2, TableFields DEF Rehash
  <2>2. h.n2 = 0 /\ h.n1 \in Nat /\ h.n1 >= 4
    BY <1>2 DEF HInv, Shape, InRehashing, NoIndex
  <2>3. \A j \in 0 .. r.n2 - 1 : r.t2[j] = {}
    BY <2>1, <2>2 DEF Buckets
  <2>4. Shape(r)
    BY <2>1, <2>2 DEF HInv, Shape, Buckets
  <2>5. Placed(r)
    BY <2>1, <2>3 DEF HInv, Placed
  <2>6. Frontier(r)
    BY <2>1, <2>3 DEF Frontier
  <2>7. Unique(r)
    BY <2>1, <2>3 DEF HInv, Unique, Distinct
  <2>8. ASSUME NEW x PROVE x \in Stored(r) <=> x \in Stored(h)
    <3>1. \A j \in 0 .. h.n2 - 1 : FALSE
      BY <2>2
    <3>2. QED BY <2>1, <2>3, <3>1, StoredMember
  <2>9. QED BY <2>1, <2>4, <2>5, <2>6, <2>7, <2>8 DEF HInv
<1>3. QED BY <1>1, <1>2

\* One bucket moved: like HInv, but the frontier may have reached the end.
MovedInv(m) ==
  /\ m.n1 \in Nat /\ m.n1 >= 4 /\ m.n2 = 2 * m.n1 /\ m.used \in Nat
  /\ m.t1 \in [0 .. m.n1 - 1 -> SUBSET Elem]
  /\ m.t2 \in [0 .. m.n2 - 1 -> SUBSET Elem]
  /\ m.idx \in 1 .. m.n1
  /\ Placed(m) /\ Frontier(m) /\ Unique(m)

\* Moving a bucket loses nothing: by the frontier, table2 holds none of the
\* keys of a bucket that has not been moved yet, so no Push is refused.
LEMMA MoveBucketLemma ==
  ASSUME NEW h, HInv(h), InRehashing(h)
  PROVE  /\ MovedInv(MoveBucket(h))
         /\ Stored(MoveBucket(h)) = Stored(h)
         /\ MoveBucket(h).used = h.used
         /\ MoveBucket(h).n1 = h.n1
         /\ MoveBucket(h).idx = h.idx + 1
<1> DEFINE m == MoveBucket(h)
           bi(size, e) == bucket_index(size, GetKey[e])
<1>1. /\ h.n1 \in Nat /\ h.n1 >= 4 /\ h.n2 = 2 * h.n1 /\ h.used \in Nat
      /\ h.t1 \in [0 .. h.n1 - 1 -> SUBSET Elem]
      /\ h.t2 \in [0 .. h.n2 - 1 -> SUBSET Elem]
      /\ h.idx \in 0 .. h.n1 - 1
  BY DEF HInv, Shape, InRehashing
<1>2. /\ \A j \in 0 .. h.n1 - 1 : \A e \in h.t1[j] : bi(h.n1, e) = j
      /\ \A j \in 0 .. h.n2 - 1 : \A e \in h.t2[j] : bi(h.n2, e) = j
      /\ \A j \in 0 .. h.idx - 1 : h.t1[j] = {}
      /\ \A j \in 0 .. h.n2 - 1 : \A e \in h.t2[j] : bi(h.n1, e) < h.idx
  BY DEF HInv, Placed, Frontier
<1>3. \A j \in 0 .. h.n2 - 1 : \A e \in h.t1[h.idx] :
          WithKey(h.t2[j], GetKey[e]) = {}
  BY <1>1, <1>2 DEF WithKey
<1>4. /\ m.t1 = [h.t1 EXCEPT ![h.idx] = {}]
      /\ m.n1 = h.n1 /\ m.n2 = h.n2 /\ m.used = h.used /\ m.idx = h.idx + 1
      /\ m.t2 = [j \in 0 .. h.n2 - 1 |->
                   h.t2[j] \cup {e \in h.t1[h.idx] :
                                   /\ bucket_index(h.n2, GetKey[e]) = j
                                   /\ WithKey(h.t2[j], GetKey[e]) = {}}]
  BY TableFields DEF MoveBucket
<1>5. /\ m.t1[h.idx] = {}
      /\ \A j \in 0 .. h.n1 - 1 : j # h.idx => m.t1[j] = h.t1[j]
  BY <1>1, <1>4
<1>6. \A j \in 0 .. h.n2 - 1 :
         m.t2[j] = h.t2[j] \cup {e \in h.t1[h.idx] : bi(h.n2, e) = j}
  <2> TAKE j \in 0 .. h.n2 - 1
  <2>1. m.t2[j] = h.t2[j] \cup {e \in h.t1[h.idx] :
                                  /\ bucket_index(h.n2, GetKey[e]) = j
                                  /\ WithKey(h.t2[j], GetKey[e]) = {}}
    BY <1>4
  <2>2. {e \in h.t1[h.idx] : /\ bucket_index(h.n2, GetKey[e]) = j
                             /\ WithKey(h.t2[j], GetKey[e]) = {}}
          = {e \in h.t1[h.idx] : bi(h.n2, e) = j}
    BY <1>3
  <2>3. QED BY <2>1, <2>2
<1>7. \A e \in Elem : /\ bi(h.n1, e) \in 0 .. h.n1 - 1
                      /\ bi(h.n2, e) \in 0 .. h.n2 - 1
  <2> TAKE e \in Elem
  <2>1. GetKey[e] \in Key
    BY GetKeyAssumption
  <2>2. h.n1 \in Nat /\ h.n1 > 0
    BY <1>1
  <2>3. h.n2 \in Nat /\ h.n2 > 0
    BY <1>1
  <2>4. bi(h.n1, e) \in 0 .. h.n1 - 1
    BY <2>1, <2>2, IndexRange
  <2>5. bi(h.n2, e) \in 0 .. h.n2 - 1
    BY <2>1, <2>3, IndexRange
  <2>6. QED BY <2>4, <2>5
<1> HIDE DEF m, bi
<1>8. /\ m.t1 \in [0 .. m.n1 - 1 -> SUBSET Elem]
      /\ m.t2 \in [0 .. m.n2 - 1 -> SUBSET Elem]
  <2>1. m.t1 \in [0 .. m.n1 - 1 -> SUBSET Elem]
    BY <1>1, <1>4
  <2>2. h.t1[h.idx] \subseteq Elem
    BY <1>1
  <2>3. m.t2 = [j \in 0 .. h.n2 - 1 |-> m.t2[j]]
    BY <1>4
  <2>4. \A j \in 0 .. h.n2 - 1 : m.t2[j] \in SUBSET Elem
    BY <1>1, <1>6, <2>2
  <2>5. QED BY <1>4, <2>1, <2>3, <2>4
<1>9. Placed(m)
  <2>1. \A j \in 0 .. m.n1 - 1 : \A e \in m.t1[j] : bi(m.n1, e) = j
    BY <1>2, <1>4, <1>5
  <2>2. \A j \in 0 .. m.n2 - 1 : \A e \in m.t2[j] : bi(m.n2, e) = j
    <3> SUFFICES ASSUME NEW j \in 0 .. h.n2 - 1, NEW e \in m.t2[j]
                 PROVE  bi(h.n2, e) = j
      BY <1>4
    <3>1. e \in h.t2[j] \/ e \in {d \in h.t1[h.idx] : bi(h.n2, d) = j}
      BY <1>6
    <3>2. QED BY <1>2, <3>1
  <2>3. QED BY <2>1, <2>2 DEF Placed, bi
<1>10. Frontier(m)
  <2>1. \A j \in 0 .. m.idx - 1 : m.t1[j] = {}
    <3> SUFFICES ASSUME NEW j \in 0 .. m.idx - 1 PROVE m.t1[j] = {}
      OBVIOUS
    <3>1. j = h.idx \/ (j \in 0 .. h.idx - 1 /\ j \in 0 .. h.n1 - 1 /\ j # h.idx)
      BY <1>1, <1>4
    <3>2. QED BY <1>2, <1>5, <3>1
  <2>2. \A e \in h.t1[h.idx] : bi(m.n1, e) < m.idx
    BY <1>1, <1>2, <1>4
  <2>3. \A j \in 0 .. m.n2 - 1 : \A e \in h.t2[j] : bi(m.n1, e) < m.idx
    <3> SUFFICES ASSUME NEW j \in 0 .. m.n2 - 1, NEW e \in h.t2[j]
                 PROVE  bi(m.n1, e) < m.idx
      OBVIOUS
    <3>1. e \in Elem /\ j \in 0 .. h.n2 - 1
      BY <1>1, <1>4
    <3>2. bi(h.n1, e) \in 0 .. h.n1 - 1 /\ bi(h.n1, e) < h.idx
      BY <1>2, <1>7, <3>1
    <3>3. h.idx \in Int /\ m.idx = h.idx + 1 /\ m.n1 = h.n1
      BY <1>1, <1>4
    <3>4. QED BY <3>2, <3>3
  <2>4. QED BY <1>4, <1>6, <2>1, <2>2, <2>3 DEF Frontier, bi
<1>11. Unique(m)
  <2>1. \A j \in 0 .. m.n1 - 1 : Distinct(m.t1[j])
    BY <1>4, <1>5 DEF HInv, Unique, Distinct
  <2>2. Distinct(h.t1[h.idx])
    BY <1>1 DEF HInv, Unique
  <2>3. \A j \in 0 .. m.n2 - 1 : Distinct(m.t2[j])
    <3> SUFFICES ASSUME NEW j \in 0 .. h.n2 - 1,
                        NEW e \in m.t2[j], NEW f \in m.t2[j],
                        GetKey[e] = GetKey[f]
                 PROVE  e = f
      BY <1>4 DEF Distinct
    <3>1. CASE e \in h.t2[j] /\ f \in h.t2[j]
      BY <3>1 DEF HInv, Unique, Distinct
    <3>2. CASE e \in h.t1[h.idx] /\ f \in h.t1[h.idx]
      BY <3>2, <2>2 DEF Distinct
    <3>3. CASE e \in h.t1[h.idx] /\ f \in h.t2[j]
      BY <3>3, <1>3 DEF WithKey
    <3>4. CASE e \in h.t2[j] /\ f \in h.t1[h.idx]
      BY <3>4, <1>3 DEF WithKey
    <3>5. QED BY <1>6, <3>1, <3>2, <3>3, <3>4
  <2>4. QED BY <2>1, <2>3 DEF Unique
<1>12. ASSUME NEW x PROVE x \in Stored(m) <=> x \in Stored(h)
  <2>1. ASSUME x \in Stored(m) PROVE x \in Stored(h)
    <3>1. CASE \E j \in 0 .. m.n1 - 1 : x \in m.t1[j]
      <4>1. PICK j \in 0 .. h.n1 - 1 : x \in m.t1[j]
        BY <3>1, <1>4
      <4>2. QED BY <4>1, <1>5, StoredMember
    <3>2. CASE \E j \in 0 .. m.n2 - 1 : x \in m.t2[j]
      <4>1. PICK j \in 0 .. h.n2 - 1 : x \in m.t2[j]
        BY <3>2, <1>4
      <4>2. x \in h.t2[j] \/ x \in h.t1[h.idx]
        BY <4>1, <1>6
      <4>3. QED BY <4>1, <4>2, <1>1, StoredMember
    <3>3. QED BY <2>1, <3>1, <3>2, StoredMember
  <2>2. ASSUME x \in Stored(h) PROVE x \in Stored(m)
    <3>1. CASE \E j \in 0 .. h.n2 - 1 : x \in h.t2[j]
      <4>1. PICK j \in 0 .. h.n2 - 1 : x \in h.t2[j]
        BY <3>1
      <4>2. x \in m.t2[j] /\ j \in 0 .. m.n2 - 1
        BY <4>1, <1>4, <1>6
      <4>3. QED BY <1>5, <4>2, StoredMember
    <3>2. CASE x \in h.t1[h.idx]
      <4>1. x \in Elem
        BY <3>2, <1>1
      <4>2. x \in m.t2[bi(h.n2, x)]
        BY <3>2, <4>1, <1>6, <1>7
      <4>3. QED BY <4>1, <4>2, <1>4, <1>7, StoredMember
    <3>3. CASE \E j \in 0 .. h.n1 - 1 : j # h.idx /\ x \in h.t1[j]
      BY <3>3, <1>4, <1>5, StoredMember
    <3>4. QED BY <2>2, <3>1, <3>2, <3>3, StoredMember
  <2>3. QED BY <2>1, <2>2
<1>13. QED BY <1>1, <1>4, <1>8, <1>9, <1>10, <1>11, <1>12 DEF MovedInv, m

\* The two arrays swap once every bucket has moved.
LEMMA EndRehashLemma ==
  ASSUME NEW m, MovedInv(m), m.idx = m.n1
  PROVE  /\ HInv(EndRehash(m))
         /\ Stored(EndRehash(m)) = Stored(m)
         /\ EndRehash(m).used = m.used
         /\ EndRehash(m).n1 = 2 * m.n1
         /\ EndRehash(m).idx = NoIndex
<1> DEFINE r == EndRehash(m)
<1>1. /\ m.n1 \in Nat /\ m.n1 >= 4 /\ m.n2 = 2 * m.n1 /\ m.used \in Nat
      /\ m.t1 \in [0 .. m.n1 - 1 -> SUBSET Elem]
      /\ m.t2 \in [0 .. m.n2 - 1 -> SUBSET Elem]
  BY DEF MovedInv
<1>2. /\ r.t1 = m.t2 /\ r.n1 = m.n2 /\ r.t2 = Buckets(0) /\ r.n2 = 0
      /\ r.used = m.used /\ r.idx = NoIndex
  BY <1>1, TableFields DEF EndRehash
<1> HIDE DEF r
<1>3. \A j \in 0 .. m.n1 - 1 : m.t1[j] = {}
  BY <1>1 DEF MovedInv, Frontier, InRehashing, NoIndex
<1>4. \A j \in 0 .. r.n2 - 1 : FALSE
  BY <1>2
<1>5. Shape(r)
  BY <1>1, <1>2 DEF Shape, Buckets
<1>6. Placed(r)
  BY <1>2, <1>4 DEF MovedInv, Placed
<1>7. Frontier(r)
  BY <1>2 DEF Frontier, InRehashing
<1>8. Unique(r)
  BY <1>2, <1>4 DEF MovedInv, Unique
<1>9. ASSUME NEW x PROVE x \in Stored(r) <=> x \in Stored(m)
  BY <1>2, <1>3, <1>4, StoredMember
<1>10. QED BY <1>1, <1>2, <1>5, <1>6, <1>7, <1>8, <1>9 DEF HInv, r

\* IncrementalRehash keeps the invariant and the contents.
LEMMA IncrementalRehashLemma ==
  ASSUME NEW h, HInv(h)
  PROVE  /\ HInv(IncrementalRehash(h))
         /\ Stored(IncrementalRehash(h)) = Stored(h)
         /\ IncrementalRehash(h).used = h.used
<1>1. CASE ~InRehashing(h)
  BY <1>1 DEF IncrementalRehash
<1>2. CASE InRehashing(h)
  <2> DEFINE m == MoveBucket(h)
  <2>1. MovedInv(m) /\ Stored(m) = Stored(h) /\ m.used = h.used
    BY <1>2, MoveBucketLemma
  <2>2. IncrementalRehash(h) = IF m.idx = m.n1 THEN EndRehash(m) ELSE m
    BY <1>2 DEF IncrementalRehash
  <2> HIDE DEF m
  <2>3. CASE m.idx = m.n1
    BY <2>1, <2>2, <2>3, EndRehashLemma
  <2>4. CASE m.idx # m.n1
    <3>1. Shape(m)
      BY <2>1, <2>4 DEF MovedInv, Shape
    <3>2. QED BY <2>1, <2>2, <2>4, <3>1 DEF MovedInv, HInv
  <2>5. QED BY <2>3, <2>4
<1>3. QED BY <1>1, <1>2

\* The table can take one more element within its load bound.
Room(h) ==
    IF InRehashing(h) THEN h.used < h.n1 + h.idx ELSE h.used < h.n1

\* A move does not break the load bound, and during a rehash makes room.
LEMMA MoveLoad ==
  ASSUME NEW h, HInv(h), Load(h)
  PROVE  /\ Load(IncrementalRehash(h))
         /\ InRehashing(h) => Room(IncrementalRehash(h))
<1>1. CASE ~InRehashing(h)
  BY <1>1 DEF IncrementalRehash
<1>2. CASE InRehashing(h)
  <2> DEFINE m == MoveBucket(h)
  <2>1. /\ MovedInv(m) /\ m.used = h.used /\ m.n1 = h.n1 /\ m.idx = h.idx + 1
    BY <1>2, MoveBucketLemma
  <2>2. IncrementalRehash(h) = IF m.idx = m.n1 THEN EndRehash(m) ELSE m
    BY <1>2 DEF IncrementalRehash
  <2>3. h.n1 \in Nat /\ h.idx \in 0 .. h.n1 - 1 /\ h.used \in Nat
    BY <1>2 DEF HInv, Shape, InRehashing
  <2>4. h.used <= h.n1 + h.idx
    BY <1>2 DEF Load
  <2> HIDE DEF m
  <2>5. CASE m.idx = m.n1
    <3> DEFINE r == EndRehash(m)
    <3>1. r.used = m.used /\ r.n1 = 2 * m.n1 /\ r.idx = NoIndex
      BY <2>1, <2>5, EndRehashLemma
    <3> HIDE DEF r
    <3>2. Load(r) /\ Room(r)
      BY <2>1, <2>3, <2>4, <2>5, <3>1 DEF Load, Room, InRehashing
    <3>3. QED BY <2>2, <2>5, <3>2 DEF r
  <2>6. CASE m.idx # m.n1
    <3>1. Load(m) /\ Room(m)
      BY <2>1, <2>3, <2>4 DEF Load, Room, InRehashing, NoIndex
    <3>2. QED BY <2>2, <2>6, <3>1
  <2>7. QED BY <2>5, <2>6
<1>3. QED BY <1>1, <1>2

\* After the rehash work of an insertion there is room for the element: either
\* table1 was not full, or a rehash is under way and has just moved a bucket.
LEMMA InsertRoom ==
  ASSUME NEW h, HInv(h), Load(h)
  PROVE  Room(IncrementalRehash(Rehash(h)))
<1> DEFINE g == Rehash(h)
<1>1. HInv(g)
  BY RehashLemma
<1>2. CASE InRehashing(h) \/ ~(h.used >= h.n1)
  <2>1. g = h
    BY <1>2 DEF Rehash
  <2>2. CASE InRehashing(h)
    BY <2>1, <2>2, MoveLoad
  <2>3. CASE ~InRehashing(h)
    BY <1>2, <2>1, <2>3 DEF IncrementalRehash, Room, HInv, Shape
  <2>4. QED BY <2>2, <2>3
<1>3. CASE ~InRehashing(h) /\ h.used >= h.n1
  <2>1. g.n1 = h.n1 /\ g.used = h.used /\ g.idx = 0
    BY <1>3, TableFields DEF Rehash
  <2>2. Load(g) /\ InRehashing(g)
    BY <1>3, <2>1 DEF Load, InRehashing, NoIndex, HInv, Shape
  <2>3. QED BY <1>1, <2>2, MoveLoad
<1>4. QED BY <1>2, <1>3

\* An element with key k is in one of the two buckets k selects, and by the
\* frontier the key is never in both.
LEMMA Homes ==
  ASSUME NEW h, HInv(h), NEW k \in Key
  PROVE  /\ \A x : x \in WithKey(Stored(h), k)
                     <=> \/ x \in WithKey(Bucket1(h, k), k)
                         \/ x \in WithKey(Bucket2(h, k), k)
         /\ \/ WithKey(Bucket1(h, k), k) = {}
            \/ WithKey(Bucket2(h, k), k) = {}
         /\ Moved(h, k) => WithKey(Bucket1(h, k), k) = {}
         /\ ~Moved(h, k) => WithKey(Bucket2(h, k), k) = {}
<1> DEFINE b1 == bucket_index(h.n1, k)
           b2 == bucket_index(h.n2, k)
<1>1. /\ h.n1 \in Nat /\ h.n1 >= 4 /\ h.n2 \in Nat
      /\ ~InRehashing(h) => h.n2 = 0
      /\ InRehashing(h) => h.idx \in 0 .. h.n1 - 1 /\ h.n2 = 2 * h.n1
  BY DEF HInv, Shape, InRehashing, NoIndex
<1>2. b1 \in 0 .. h.n1 - 1
  BY <1>1, IndexRange
<1>3. InRehashing(h) => b2 \in 0 .. h.n2 - 1
  BY <1>1, IndexRange
<1>4. /\ \A j \in 0 .. h.n1 - 1 : \A e \in h.t1[j] :
              bucket_index(h.n1, GetKey[e]) = j
      /\ \A j \in 0 .. h.n2 - 1 : \A e \in h.t2[j] :
              bucket_index(h.n2, GetKey[e]) = j
  BY DEF HInv, Placed
<1>5. Bucket1(h, k) = h.t1[b1]
  BY DEF Bucket1
<1>6. Bucket2(h, k) = IF InRehashing(h) THEN h.t2[b2] ELSE {}
  BY DEF Bucket2
<1>7. InRehashing(h) => /\ \A j \in 0 .. h.idx - 1 : h.t1[j] = {}
                        /\ \A j \in 0 .. h.n2 - 1 : \A e \in h.t2[j] :
                               bucket_index(h.n1, GetKey[e]) < h.idx
  BY DEF HInv, Frontier
<1>8. Moved(h, k) <=> InRehashing(h) /\ h.idx > b1
  BY DEF Moved
<1> HIDE DEF b1, b2
<1>9. ASSUME NEW x
      PROVE  x \in WithKey(Stored(h), k)
                <=> \/ x \in WithKey(Bucket1(h, k), k)
                    \/ x \in WithKey(Bucket2(h, k), k)
  <2>1. ASSUME NEW j \in 0 .. h.n1 - 1, x \in h.t1[j], GetKey[x] = k
        PROVE  x \in WithKey(Bucket1(h, k), k)
    BY <2>1, <1>4, <1>5 DEF WithKey, b1
  <2>2. ASSUME NEW j \in 0 .. h.n2 - 1, x \in h.t2[j], GetKey[x] = k
        PROVE  x \in WithKey(Bucket2(h, k), k)
    <3>1. InRehashing(h)
      BY <2>2, <1>1
    <3>2. b2 = j
      BY <2>2, <1>4 DEF b2
    <3>3. QED BY <2>2, <3>1, <3>2, <1>6 DEF WithKey
  <2>3. ASSUME x \in WithKey(Bucket1(h, k), k)
        PROVE  x \in WithKey(Stored(h), k)
    BY <2>3, <1>2, <1>5, StoredMember DEF WithKey
  <2>4. ASSUME x \in WithKey(Bucket2(h, k), k)
        PROVE  x \in WithKey(Stored(h), k)
    BY <2>4, <1>3, <1>6, StoredMember DEF WithKey
  <2>5. ASSUME x \in WithKey(Stored(h), k)
        PROVE  \/ x \in WithKey(Bucket1(h, k), k)
               \/ x \in WithKey(Bucket2(h, k), k)
    <3>1. x \in Stored(h) /\ GetKey[x] = k
      BY <2>5 DEF WithKey
    <3>2. QED BY <3>1, <2>1, <2>2, StoredMember
  <2>6. QED BY <2>3, <2>4, <2>5
<1>10. Moved(h, k) => WithKey(Bucket1(h, k), k) = {}
  <2>1. ASSUME InRehashing(h), h.idx > b1 PROVE h.t1[b1] = {}
    BY <2>1, <1>1, <1>2, <1>7
  <2>2. QED BY <1>5, <1>8, <2>1 DEF WithKey
<1>11. ~Moved(h, k) => WithKey(Bucket2(h, k), k) = {}
  <2> SUFFICES ASSUME NEW x \in Bucket2(h, k), GetKey[x] = k
               PROVE  Moved(h, k)
    BY DEF WithKey
  <2>1. InRehashing(h) /\ x \in h.t2[b2]
    BY <1>6
  <2>2. b1 < h.idx
    BY <2>1, <1>3, <1>7 DEF b1
  <2>3. QED BY <2>1, <2>2, <1>1, <1>2, <1>8
<1>12. QED BY <1>9, <1>10, <1>11

\* Lookup, removal and the duplicate check of an insertion all see exactly the
\* stored element with the key, wherever the rehash has put it.
LEMMA Lookup ==
  ASSUME NEW h, HInv(h), NEW k \in Key
  PROVE  /\ FoundBy(h, k) = WithKey(Stored(h), k)
         /\ DuplicateOfInsert(h, k) = WithKey(Stored(h), k)
<1> DEFINE W1 == WithKey(Bucket1(h, k), k)
           W2 == WithKey(Bucket2(h, k), k)
<1>1. /\ \A x : x \in WithKey(Stored(h), k) <=> x \in W1 \/ x \in W2
      /\ W1 = {} \/ W2 = {}
      /\ Moved(h, k) => W1 = {}
      /\ ~Moved(h, k) => W2 = {}
  BY Homes
<1>2. FoundBy(h, k) = IF W1 # {} THEN W1 ELSE W2
  BY DEF FoundBy
<1>3. DuplicateOfInsert(h, k) = IF Moved(h, k) THEN W2
                                ELSE IF W2 # {} THEN W2 ELSE W1
  BY DEF DuplicateOfInsert
<1> HIDE DEF W1, W2
<1>4. FoundBy(h, k) = WithKey(Stored(h), k)
  BY <1>1, <1>2
<1>5. DuplicateOfInsert(h, k) = WithKey(Stored(h), k)
  BY <1>1, <1>3
<1>6. QED BY <1>4, <1>5

\* At most one element has a given key.
LEMMA OnePerKey ==
  ASSUME NEW h, HInv(h), NEW k \in Key,
         NEW x \in WithKey(Stored(h), k)
  PROVE  WithKey(Stored(h), k) = {x}
<1> SUFFICES ASSUME NEW y \in WithKey(Stored(h), k) PROVE y = x
  OBVIOUS
<1>1. GetKey[x] = k /\ GetKey[y] = k
  BY DEF WithKey
<1>2. \/ x \in Bucket1(h, k) /\ y \in Bucket1(h, k)
      \/ x \in Bucket2(h, k) /\ y \in Bucket2(h, k)
  BY Homes DEF WithKey
<1>3. Distinct(Bucket1(h, k))
  <2>1. bucket_index(h.n1, k) \in 0 .. h.n1 - 1
    <3>1. h.n1 \in Nat /\ h.n1 > 0
      BY DEF HInv, Shape
    <3>2. QED BY <3>1, IndexRange
  <2>2. QED BY <2>1 DEF HInv, Unique, Bucket1
<1>4. Distinct(Bucket2(h, k))
  <2>1. CASE ~InRehashing(h)
    BY <2>1 DEF Bucket2, Distinct
  <2>2. CASE InRehashing(h)
    <3>1. h.n2 \in Nat /\ h.n2 > 0
      BY <2>2 DEF HInv, Shape, InRehashing
    <3>2. bucket_index(h.n2, k) \in 0 .. h.n2 - 1
      BY <3>1, IndexRange
    <3>3. QED BY <2>2, <3>2 DEF HInv, Unique, Bucket2
  <2>3. QED BY <2>1, <2>2
<1>5. QED BY <1>1, <1>2, <1>3, <1>4 DEF Distinct

\* Linking an element whose key is new, in the table whose turn it is.
LEMMA PutLemma ==
  ASSUME NEW h, HInv(h), NEW e \in Elem, WithKey(Stored(h), GetKey[e]) = {}
  PROVE  /\ HInv(PutInTurn(h, e))
         /\ \A x : x \in Stored(PutInTurn(h, e)) <=> x \in Stored(h) \/ x = e
         /\ PutInTurn(h, e).used = h.used
         /\ PutInTurn(h, e).n1 = h.n1
         /\ PutInTurn(h, e).idx = h.idx
<1> DEFINE k == GetKey[e]
           p == PutInTurn(h, e)
           b1 == bucket_index(h.n1, k)
           b2 == bucket_index(h.n2, k)
<1>1. k \in Key
  BY GetKeyAssumption
<1>2. /\ h.n1 \in Nat /\ h.n1 >= 4 /\ h.n2 \in Nat /\ h.used \in Nat
      /\ h.t1 \in [0 .. h.n1 - 1 -> SUBSET Elem]
      /\ h.t2 \in [0 .. h.n2 - 1 -> SUBSET Elem]
      /\ InRehashing(h) => h.idx \in 0 .. h.n1 - 1 /\ h.n2 = 2 * h.n1
      /\ \/ h.idx = NoIndex /\ h.n2 = 0
         \/ h.idx \in 0 .. h.n1 - 1 /\ h.n2 = 2 * h.n1
  BY DEF HInv, Shape, InRehashing
<1>3. b1 \in 0 .. h.n1 - 1
  BY <1>1, <1>2, IndexRange
<1>4. \A x \in Stored(h) : GetKey[x] # k
  BY DEF WithKey
<1>5. CASE ~Moved(h, k)
  <2>1. /\ p.t1 = [h.t1 EXCEPT ![b1] = @ \cup {e}]
        /\ p.n1 = h.n1 /\ p.t2 = h.t2 /\ p.n2 = h.n2
        /\ p.used = h.used /\ p.idx = h.idx
    BY <1>5, TableFields DEF PutInTurn, Put1
  <2>2. InRehashing(h) => h.idx <= b1
    BY <1>2, <1>3, <1>5 DEF Moved
  <2> HIDE DEF p
  <2>3. /\ p.t1[b1] = h.t1[b1] \cup {e}
        /\ \A j \in 0 .. h.n1 - 1 : j # b1 => p.t1[j] = h.t1[j]
    BY <1>2, <1>3, <2>1
  <2>4. Shape(p)
    BY <1>2, <1>3, <2>1 DEF Shape
  <2>5. Placed(p)
    <3>1. \A j \in 0 .. p.n1 - 1 : \A x \in p.t1[j] :
              bucket_index(p.n1, GetKey[x]) = j
      BY <2>1, <2>3 DEF HInv, Placed
    <3>2. QED BY <2>1, <3>1 DEF HInv, Placed
  <2>6. Frontier(p)
    <3>1. ASSUME InRehashing(h), NEW j \in 0 .. h.idx - 1 PROVE p.t1[j] = {}
      <4>1. j # b1 /\ j \in 0 .. h.n1 - 1
        BY <3>1, <1>2, <1>3, <2>2
      <4>2. QED BY <3>1, <4>1, <2>3 DEF HInv, Frontier
    <3>2. QED BY <2>1, <3>1 DEF HInv, Frontier, InRehashing
  <2>7. Unique(p)
    <3>1. \A x \in h.t1[b1] : GetKey[x] # k
      BY <1>3, <1>4, StoredMember
    <3>2. Distinct(h.t1[b1])
      BY <1>3 DEF HInv, Unique
    <3>3. Distinct(p.t1[b1])
      BY <2>3, <3>1, <3>2 DEF Distinct
    <3>4. QED BY <2>1, <2>3, <3>3 DEF HInv, Unique
  <2>8. \A x : x \in Stored(p) <=> x \in Stored(h) \/ x = e
    <3>1. ASSUME NEW x
          PROVE  (\E j \in 0 .. p.n1 - 1 : x \in p.t1[j])
                   <=> (\E j \in 0 .. h.n1 - 1 : x \in h.t1[j]) \/ x = e
      BY <1>3, <2>1, <2>3
    <3>2. QED BY <2>1, <3>1, StoredMember
  <2>9. QED BY <2>1, <2>4, <2>5, <2>6, <2>7, <2>8 DEF HInv, p
<1>6. CASE Moved(h, k)
  <2>1. /\ p.t2 = [h.t2 EXCEPT ![b2] = @ \cup {e}]
        /\ p.n1 = h.n1 /\ p.t1 = h.t1 /\ p.n2 = h.n2
        /\ p.used = h.used /\ p.idx = h.idx
    BY <1>6, TableFields DEF PutInTurn, Put2
  <2>2. InRehashing(h) /\ b1 < h.idx
    BY <1>2, <1>3, <1>6 DEF Moved
  <2>3. b2 \in 0 .. h.n2 - 1
    <3>1. h.n2 \in Nat /\ h.n2 > 0
      BY <1>2, <2>2
    <3>2. QED BY <1>1, <3>1, IndexRange
  <2> HIDE DEF p
  <2>4. /\ p.t2[b2] = h.t2[b2] \cup {e}
        /\ \A j \in 0 .. h.n2 - 1 : j # b2 => p.t2[j] = h.t2[j]
    BY <1>2, <2>1, <2>3
  <2>5. Shape(p)
    BY <1>2, <2>1, <2>3 DEF Shape
  <2>6. Placed(p)
    <3>1. \A j \in 0 .. p.n2 - 1 : \A x \in p.t2[j] :
              bucket_index(p.n2, GetKey[x]) = j
      BY <2>1, <2>4 DEF HInv, Placed
    <3>2. QED BY <2>1, <3>1 DEF HInv, Placed
  <2>7. Frontier(p)
    <3>1. \A j \in 0 .. p.n2 - 1 : \A x \in p.t2[j] :
              bucket_index(h.n1, GetKey[x]) < h.idx
      BY <2>1, <2>2, <2>4 DEF HInv, Frontier
    <3>2. QED BY <2>1, <2>2, <3>1 DEF HInv, Frontier
  <2>8. Unique(p)
    <3>1. \A x \in h.t2[b2] : GetKey[x] # k
      BY <2>3, <1>4, StoredMember
    <3>2. Distinct(h.t2[b2])
      BY <2>3 DEF HInv, Unique
    <3>3. Distinct(p.t2[b2])
      BY <2>4, <3>1, <3>2 DEF Distinct
    <3>4. QED BY <2>1, <2>4, <3>3 DEF HInv, Unique
  <2>9. \A x : x \in Stored(p) <=> x \in Stored(h) \/ x = e
    <3>1. ASSUME NEW x
          PROVE  (\E j \in 0 .. p.n2 - 1 : x \in p.t2[j])
                   <=> (\E j \in 0 .. h.n2 - 1 : x \in h.t2[j]) \/ x = e
      BY <2>1, <2>3, <2>4
    <3>2. QED BY <2>1, <3>1, StoredMember
  <2>10. QED BY <2>1, <2>5, <2>6, <2>7, <2>8, <2>9 DEF HInv, p
<1>7. QED BY <1>5, <1>6

\* Unlinking the element a lookup found takes out that element and no other.
LEMMA CutLemma ==
  ASSUME NEW h, HInv(h), NEW k \in Key, WithKey(Stored(h), k) # {}
  PROVE  /\ HInv(CutFound(h, k))
         /\ \A x : x \in Stored(CutFound(h, k))
                     <=> x \in Stored(h) /\ x \notin WithKey(Stored(h), k)
         /\ CutFound(h, k).used = h.used
         /\ CutFound(h, k).n1 = h.n1
         /\ CutFound(h, k).idx = h.idx
<1> DEFINE p == CutFound(h, k)
           b1 == bucket_index(h.n1, k)
           b2 == bucket_index(h.n2, k)
           W1 == WithKey(Bucket1(h, k), k)
           W2 == WithKey(Bucket2(h, k), k)
<1>1. /\ h.n1 \in Nat /\ h.n1 >= 4 /\ h.n2 \in Nat /\ h.used \in Nat
      /\ h.t1 \in [0 .. h.n1 - 1 -> SUBSET Elem]
      /\ h.t2 \in [0 .. h.n2 - 1 -> SUBSET Elem]
      /\ \/ h.idx = NoIndex /\ h.n2 = 0
         \/ h.idx \in 0 .. h.n1 - 1 /\ h.n2 = 2 * h.n1
  BY DEF HInv, Shape
<1>2. /\ \A x : x \in WithKey(Stored(h), k) <=> x \in W1 \/ x \in W2
      /\ W1 = {} \/ W2 = {}
  BY Homes
<1>3. /\ \A j \in 0 .. h.n1 - 1 : \A e \in h.t1[j] :
              bucket_index(h.n1, GetKey[e]) = j
      /\ \A j \in 0 .. h.n2 - 1 : \A e \in h.t2[j] :
              bucket_index(h.n2, GetKey[e]) = j
  BY DEF HInv, Placed
<1>4. ASSUME NEW x, x \in Stored(h)
      PROVE  x \in WithKey(Stored(h), k) <=> GetKey[x] = k
  BY <1>4 DEF WithKey
<1>5. CASE W1 # {}
  <2>1. /\ p.t1 = [h.t1 EXCEPT ![b1] = @ \ WithKey(@, k)]
        /\ p.n1 = h.n1 /\ p.t2 = h.t2 /\ p.n2 = h.n2
        /\ p.used = h.used /\ p.idx = h.idx
    BY <1>5, TableFields DEF CutFound, Cut1
  <2>2. b1 \in 0 .. h.n1 - 1
    <3>1. h.n1 \in Nat /\ h.n1 > 0
      BY <1>1
    <3>2. QED BY <3>1, IndexRange
  <2>3. W2 = {}
    BY <1>2, <1>5
  <2> HIDE DEF p
  <2>4. /\ p.t1[b1] = h.t1[b1] \ WithKey(h.t1[b1], k)
        /\ \A j \in 0 .. h.n1 - 1 : j # b1 => p.t1[j] = h.t1[j]
        /\ \A j \in 0 .. h.n1 - 1 : p.t1[j] \subseteq h.t1[j]
    BY <1>1, <2>1, <2>2
  <2>5. Shape(p)
    <3>1. h.t1[b1] \ WithKey(h.t1[b1], k) \in SUBSET Elem
      BY <1>1, <2>2
    <3>2. p.t1 \in [0 .. h.n1 - 1 -> SUBSET Elem]
      BY <1>1, <2>1, <2>2, <3>1
    <3>3. QED BY <1>1, <2>1, <3>2 DEF Shape
  <2>6. Placed(p)
    BY <1>3, <2>1, <2>4 DEF Placed
  <2>7. Frontier(p)
    <3>1. ASSUME InRehashing(h), NEW j \in 0 .. h.idx - 1 PROVE p.t1[j] = {}
      <4>1. j \in 0 .. h.n1 - 1 /\ h.t1[j] = {}
        BY <3>1, <1>1 DEF HInv, Frontier, InRehashing
      <4>2. QED BY <4>1, <2>4
    <3>2. QED BY <2>1, <3>1 DEF HInv, Frontier, InRehashing
  <2>8. Unique(p)
    <3>1. ASSUME NEW j \in 0 .. h.n1 - 1 PROVE Distinct(p.t1[j])
      BY <2>4 DEF HInv, Unique, Distinct
    <3>2. QED BY <2>1, <3>1 DEF HInv, Unique
  <2>9. ASSUME NEW x
        PROVE  x \in Stored(p) <=> x \in Stored(h) /\ x \notin WithKey(Stored(h), k)
    <3>1. ASSUME NEW j \in 0 .. h.n1 - 1
          PROVE  x \in p.t1[j] <=> x \in h.t1[j] /\ GetKey[x] # k
      <4>1. CASE j = b1
        BY <4>1, <2>4 DEF WithKey
      <4>2. CASE j # b1
        BY <4>2, <2>4, <1>3 DEF b1
      <4>3. QED BY <4>1, <4>2
    <3>2. ASSUME NEW j \in 0 .. h.n2 - 1, x \in h.t2[j]
          PROVE  GetKey[x] # k
      <4>1. x \in Stored(h)
        BY <3>2, StoredMember
      <4>2. InRehashing(h)
        BY <3>2, <1>1 DEF InRehashing, NoIndex
      <4>3. ASSUME GetKey[x] = k PROVE x \in W2
        <5>1. j = bucket_index(h.n2, k)
          BY <1>3, <3>2, <4>3
        <5>2. QED BY <3>2, <4>2, <4>3, <5>1 DEF WithKey, Bucket2
      <4>4. QED BY <2>3, <4>3
    <3>3. x \in Stored(p) <=> x \in Stored(h) /\ GetKey[x] # k
      <4>1. x \in Stored(p) <=> \/ \E j \in 0 .. h.n1 - 1 : x \in p.t1[j]
                               \/ \E j \in 0 .. h.n2 - 1 : x \in p.t2[j]
        BY <2>1, StoredMember
      <4>2. x \in Stored(h) <=> \/ \E j \in 0 .. h.n1 - 1 : x \in h.t1[j]
                               \/ \E j \in 0 .. h.n2 - 1 : x \in h.t2[j]
        BY StoredMember
      <4>3. p.t2 = h.t2
        BY <2>1
      <4>4. QED BY <3>1, <3>2, <4>1, <4>2, <4>3
    <3>4. QED BY <1>4, <3>3
  <2>10. QED BY <2>1, <2>5, <2>6, <2>7, <2>8, <2>9 DEF HInv, p
<1>6. CASE W1 = {}
  <2>1. /\ p.t2 = [h.t2 EXCEPT ![b2] = @ \ WithKey(@, k)]
        /\ p.n1 = h.n1 /\ p.t1 = h.t1 /\ p.n2 = h.n2
        /\ p.used = h.used /\ p.idx = h.idx
    BY <1>6, TableFields DEF CutFound, Cut2
  <2>2. W2 # {}
    BY <1>2, <1>6
  <2>3. InRehashing(h)
    BY <2>2 DEF Bucket2, WithKey
  <2>4. b2 \in 0 .. h.n2 - 1
    <3>1. h.n2 \in Nat /\ h.n2 > 0
      BY <1>1, <2>3 DEF InRehashing
    <3>2. QED BY <3>1, IndexRange
  <2> HIDE DEF p
  <2>5. /\ p.t2[b2] = h.t2[b2] \ WithKey(h.t2[b2], k)
        /\ \A j \in 0 .. h.n2 - 1 : j # b2 => p.t2[j] = h.t2[j]
        /\ \A j \in 0 .. h.n2 - 1 : p.t2[j] \subseteq h.t2[j]
    BY <1>1, <2>1, <2>4
  <2>6. Shape(p)
    <3>1. h.t2[b2] \ WithKey(h.t2[b2], k) \in SUBSET Elem
      BY <1>1, <2>4
    <3>2. p.t2 \in [0 .. h.n2 - 1 -> SUBSET Elem]
      BY <1>1, <2>1, <2>4, <3>1
    <3>3. QED BY <1>1, <2>1, <3>2 DEF Shape
  <2>7. Placed(p)
    BY <1>3, <2>1, <2>5 DEF Placed
  <2>8. Frontier(p)
    BY <2>1, <2>5 DEF HInv, Frontier, InRehashing
  <2>9. Unique(p)
    BY <2>1, <2>5 DEF HInv, Unique, Distinct
  <2>10. ASSUME NEW x
         PROVE  x \in Stored(p) <=> x \in Stored(h) /\ x \notin WithKey(Stored(h), k)
    <3>1. ASSUME NEW j \in 0 .. h.n2 - 1
          PROVE  x \in p.t2[j] <=> x \in h.t2[j] /\ GetKey[x] # k
      <4>1. CASE j = b2
        BY <4>1, <2>5 DEF WithKey
      <4>2. CASE j # b2
        BY <4>2, <2>5, <1>3 DEF b2
      <4>3. QED BY <4>1, <4>2
    <3>2. ASSUME NEW j \in 0 .. h.n1 - 1, x \in h.t1[j]
          PROVE  GetKey[x] # k
      <4>1. SUFFICES ASSUME GetKey[x] = k PROVE x \in W1
        BY <1>6
      <4>2. QED BY <3>2, <4>1, <1>3 DEF WithKey, Bucket1
    <3>3. x \in Stored(p) <=> x \in Stored(h) /\ GetKey[x] # k
      <4>1. x \in Stored(p) <=> \/ \E j \in 0 .. h.n1 - 1 : x \in p.t1[j]
                               \/ \E j \in 0 .. h.n2 - 1 : x \in p.t2[j]
        BY <2>1, StoredMember
      <4>2. x \in Stored(h) <=> \/ \E j \in 0 .. h.n1 - 1 : x \in h.t1[j]
                               \/ \E j \in 0 .. h.n2 - 1 : x \in h.t2[j]
        BY StoredMember
      <4>3. p.t1 = h.t1
        BY <2>1
      <4>4. QED BY <3>1, <3>2, <4>1, <4>2, <4>3
    <3>4. QED BY <1>4, <3>3
  <2>11. QED BY <2>1, <2>6, <2>7, <2>8, <2>9, <2>10 DEF HInv, p
<1>7. QED BY <1>5, <1>6

\* Adjusting used.
LEMMA CountedLemma ==
  ASSUME NEW h, HInv(h), NEW d \in Int, h.used + d \in Nat
  PROVE  /\ HInv(Counted(h, d))
         /\ Stored(Counted(h, d)) = Stored(h)
         /\ Counted(h, d).used = h.used + d
         /\ Counted(h, d).n1 = h.n1
         /\ Counted(h, d).idx = h.idx
<1> DEFINE c == Counted(h, d)
<1>1. /\ c.t1 = h.t1 /\ c.n1 = h.n1 /\ c.t2 = h.t2 /\ c.n2 = h.n2
      /\ c.used = h.used + d /\ c.idx = h.idx
  BY TableFields DEF Counted
<1> HIDE DEF c
<1>2. Shape(c)
  BY <1>1 DEF HInv, Shape
<1>3. Placed(c) /\ Frontier(c) /\ Unique(c)
  BY <1>1 DEF HInv, Placed, Frontier, Unique, InRehashing
<1>4. Stored(c) = Stored(h)
  BY <1>1 DEF Stored
<1>5. QED BY <1>1, <1>2, <1>3, <1>4 DEF HInv, c

\* Clear leaves an empty table of four buckets, and ClearApply's callback has
\* then seen everything that was stored.
LEMMA ClearLemma ==
  ASSUME NEW h, HInv(h)
  PROVE  /\ HInv(Cleared(h)) /\ Load(Cleared(h))
         /\ Stored(Cleared(h)) = {}
         /\ Cleared(h).used = 0
         /\ AppliedTo(h) = Stored(h)
<1> DEFINE c == Cleared(h)
<1>1. /\ h.n1 \in Nat /\ h.n1 >= 4 /\ h.n2 \in Nat
      /\ h.t2 \in [0 .. h.n2 - 1 -> SUBSET Elem]
      /\ ~InRehashing(h) => h.n2 = 0
  BY DEF HInv, Shape, InRehashing, NoIndex
<1>2. /\ c.t1 = Buckets(4) /\ c.n1 = 4 /\ c.n2 = 0 /\ c.used = 0
      /\ c.idx = NoIndex /\ c.t2 \in [0 .. 0 - 1 -> SUBSET Elem]
  <2>1. /\ c.t1 = Buckets(4) /\ c.n1 = 4 /\ c.used = 0 /\ c.idx = NoIndex
        /\ c.t2 = (IF InRehashing(h) THEN Buckets(0) ELSE h.t2)
        /\ c.n2 = (IF InRehashing(h) THEN 0 ELSE h.n2)
    BY TableFields DEF Cleared
  <2>2. Buckets(0) \in [0 .. 0 - 1 -> SUBSET Elem]
    BY DEF Buckets
  <2> HIDE DEF c
  <2>3. QED BY <1>1, <2>1, <2>2
<1> HIDE DEF c
<1>3. /\ \A j \in 0 .. c.n1 - 1 : c.t1[j] = {}
      /\ \A j \in 0 .. c.n2 - 1 : FALSE
  BY <1>2 DEF Buckets
<1>4. Shape(c)
  BY <1>2 DEF Shape, Buckets
<1>5. Placed(c) /\ Frontier(c) /\ Unique(c) /\ Load(c)
  BY <1>2, <1>3 DEF Placed, Frontier, Unique, Distinct, Load, InRehashing
<1>6. Stored(c) = {}
  BY <1>3, StoredMember
<1>7. \A x : x \in AppliedTo(h) <=> x \in Stored(h)
  <2> SUFFICES ASSUME NEW x PROVE x \in AppliedTo(h) <=> x \in Stored(h)
    OBVIOUS
  <2>1. x \in AppliedTo(h) <=>
           \/ \E j \in 4 .. h.n1 - 1 : x \in h.t1[j]
           \/ \E j \in 0 .. 3 : x \in h.t1[j]
           \/ InRehashing(h) /\ \E j \in 0 .. h.n2 - 1 : x \in h.t2[j]
    BY DEF AppliedTo
  <2>2. (\E j \in 0 .. h.n1 - 1 : x \in h.t1[j]) <=>
           \/ \E j \in 4 .. h.n1 - 1 : x \in h.t1[j]
           \/ \E j \in 0 .. 3 : x \in h.t1[j]
    BY <1>1
  <2>3. (\E j \in 0 .. h.n2 - 1 : x \in h.t2[j]) => InRehashing(h)
    BY <1>1
  <2>4. QED BY <2>1, <2>2, <2>3, StoredMember
<1>8. QED BY <1>2, <1>4, <1>5, <1>6, <1>7 DEF HInv, c

-----------------------------------------------------------------------------
\* The answer of a Find still describes the table when EraseNode uses it.
FindCurrent == ret.op = "Find" =>
    /\ ret.out \subseteq Elem
    /\ \A e \in ret.out : ret.out = WithKey(Stored(ht), GetKey[e])

\* The inductive invariant.  TypeOK alone is not inductive (used could go below
\* zero at an Extract), nor is OneHome (a Push could meet its key in table2).
Inv ==
    /\ HInv(ht) /\ Load(ht)
    /\ ret \in Answers /\ lost \in Nat
    /\ IsFiniteSet(Stored(ht)) /\ SizeCounts
    /\ FindCurrent

\* No element is in both tables.
LEMMA TablesApart ==
  ASSUME NEW h, HInv(h), NEW i \in 0 .. h.n1 - 1, NEW j \in 0 .. h.n2 - 1
  PROVE  h.t1[i] \cap h.t2[j] = {}
<1> SUFFICES ASSUME NEW x, x \in h.t1[i], x \in h.t2[j] PROVE FALSE
  OBVIOUS
<1>1. InRehashing(h)
  BY DEF HInv, Shape, InRehashing, NoIndex
<1>2. bucket_index(h.n1, GetKey[x]) = i
  BY DEF HInv, Placed
<1>3. i < h.idx
  BY <1>1, <1>2 DEF HInv, Frontier
<1>4. h.t1[i] = {}
  <2>1. h.idx \in 0 .. h.n1 - 1 /\ h.n1 \in Nat
    BY <1>1 DEF HInv, Shape, InRehashing
  <2>2. i \in 0 .. h.idx - 1
    BY <1>3, <2>1
  <2>3. QED BY <1>1, <2>2 DEF HInv, Frontier, InRehashing
<1>5. QED BY <1>4

\* The stored elements are values of the table's type.
LEMMA StoredElem == ASSUME NEW h, HInv(h) PROVE Stored(h) \subseteq Elem
<1> SUFFICES ASSUME NEW x \in Stored(h) PROVE x \in Elem
  OBVIOUS
<1>1. \/ \E j \in 0 .. h.n1 - 1 : x \in h.t1[j]
      \/ \E j \in 0 .. h.n2 - 1 : x \in h.t2[j]
  BY StoredMember
<1>2. QED BY <1>1 DEF HInv, Shape

\* The new table is empty.
LEMMA InitInv == Init => Inv /\ KS!Init
<1> SUFFICES ASSUME Init PROVE Inv /\ KS!Init
  OBVIOUS
<1>1. /\ ht.t1 = Buckets(4) /\ ht.n1 = 4 /\ ht.t2 = Buckets(0) /\ ht.n2 = 0
      /\ ht.used = 0 /\ ht.idx = NoIndex
  BY TableFields DEF Init
<1>2. /\ \A j \in 0 .. ht.n1 - 1 : ht.t1[j] = {}
      /\ \A j \in 0 .. ht.n2 - 1 : FALSE
  BY <1>1 DEF Buckets
<1>3. Shape(ht)
  BY <1>1 DEF Shape, Buckets
<1>4. Placed(ht) /\ Frontier(ht) /\ Unique(ht) /\ Load(ht)
  BY <1>1, <1>2 DEF Placed, Frontier, Unique, Distinct, Load, InRehashing
<1>5. Stored(ht) = {}
  BY <1>2, StoredMember
<1>6. IsFiniteSet(Stored(ht)) /\ Cardinality(Stored(ht)) = 0
  BY <1>5, FS_EmptySet
<1>7. ret = [op |-> "none", ok |-> FALSE, out |-> {}] /\ lost = 0
  BY DEF Init, Answer
<1>8. ret \in Answers /\ FindCurrent
  BY <1>7 DEF Answers, FindCurrent
<1>9. QED BY <1>1, <1>3, <1>4, <1>5, <1>6, <1>7, <1>8
          DEF Inv, HInv, SizeCounts, KS!Init, KS!Answer

\* An insertion of a new key: the load bound and the count survive it.
LEMMA Growing ==
  ASSUME Inv, NEW e \in Elem, WithKey(Stored(ht), GetKey[e]) = {},
         ht' = Counted(PutInTurn(AfterRehash, e), 1), lost' = lost,
         ret' \in Answers, ret'.op # "Find"
  PROVE  Inv' /\ Stored(ht') = Stored(ht) \cup {e}
<1> DEFINE h == AfterRehash
           S == Stored(ht)
           p == PutInTurn(h, e)
<1>1. HInv(h) /\ Stored(h) = S /\ h.used = ht.used /\ Room(h)
  BY RehashLemma, IncrementalRehashLemma, InsertRoom DEF Inv, AfterRehash
<1>2. h.used \in Nat /\ h.n1 \in Nat /\ h.idx \in Int
  BY <1>1 DEF HInv, Shape, NoIndex
<1>3. lost \in Nat /\ IsFiniteSet(S) /\ ht.used = Cardinality(S) + lost
  BY DEF Inv, SizeCounts
<1> HIDE DEF h
<1>4. /\ HInv(p) /\ p.used = h.used /\ p.n1 = h.n1 /\ p.idx = h.idx
      /\ \A x : x \in Stored(p) <=> x \in Stored(h) \/ x = e
  BY <1>1, PutLemma
<1>5. ht' = Counted(p, 1)
  BY DEF h
<1> HIDE DEF p, S
<1>6. /\ HInv(ht') /\ Stored(ht') = Stored(p) /\ ht'.used = h.used + 1
      /\ ht'.n1 = h.n1 /\ ht'.idx = h.idx
  BY <1>2, <1>4, <1>5, CountedLemma
<1>7. Stored(ht') = S \cup {e}
  BY <1>1, <1>4, <1>6
<1>8. e \notin S
  BY DEF S, WithKey
<1>9. /\ IsFiniteSet(Stored(ht'))
      /\ Cardinality(Stored(ht')) = Cardinality(S) + 1
  BY <1>3, <1>7, <1>8, FS_AddElement
<1>10. Cardinality(S) \in Nat
  BY <1>3, FS_CardinalityType
<1>11. Load(ht')
  BY <1>1, <1>2, <1>6 DEF Room, Load, InRehashing
<1>12. SizeCounts'
  BY <1>1, <1>3, <1>6, <1>9, <1>10 DEF SizeCounts
<1>13. FindCurrent'
  BY DEF FindCurrent
<1>14. QED BY <1>3, <1>6, <1>7, <1>9, <1>11, <1>12, <1>13 DEF Inv, S

\* A refused insertion and a lookup only do rehash work.
LEMMA Keeping ==
  ASSUME Inv, lost' = lost, ret' \in Answers,
         ht' = AfterRehash \/ ht' = AfterMove
  PROVE  /\ Stored(ht') = Stored(ht)
         /\ FindCurrent' => Inv'
<1>1. HInv(ht') /\ Stored(ht') = Stored(ht) /\ ht'.used = ht.used
  BY RehashLemma, IncrementalRehashLemma DEF Inv, AfterRehash, AfterMove
<1>2. Load(ht')
  <2>1. CASE ht' = AfterMove
    BY <2>1, MoveLoad DEF Inv, AfterMove
  <2>2. CASE ht' = AfterRehash
    <3>1. Room(ht')
      BY <2>2, InsertRoom DEF Inv, AfterRehash
    <3>2. ht'.used \in Nat /\ ht'.n1 \in Nat /\ ht'.idx \in Int
      BY <1>1 DEF HInv, Shape, NoIndex
    <3>3. QED BY <3>1, <3>2 DEF Room, Load
  <2>3. QED BY <2>1, <2>2
<1>3. SizeCounts'
  BY <1>1 DEF Inv, SizeCounts
<1>4. QED BY <1>1, <1>2, <1>3 DEF Inv

\* Taking out the element with key k, on a table that has done its rehash work.
LEMMA Shrinking ==
  ASSUME Inv, NEW k \in Key, NEW h, HInv(h), Load(h),
         Stored(h) = Stored(ht), h.used = ht.used,
         WithKey(Stored(ht), k) # {}, ret' \in Answers, ret'.op # "Find",
         \/ ht' = CutFound(h, k) /\ lost' = lost + 1
         \/ ht' = Counted(CutFound(h, k), -1) /\ lost' = lost
  PROVE  Inv' /\ Stored(ht') = Stored(ht) \ WithKey(Stored(ht), k)
<1> DEFINE S == Stored(ht)
           c == CutFound(h, k)
<1>1. PICK x : x \in WithKey(S, k)
  OBVIOUS
<1>2. WithKey(S, k) = {x}
  BY <1>1, OnePerKey
<1>3. /\ HInv(c) /\ c.used = h.used /\ c.n1 = h.n1 /\ c.idx = h.idx
      /\ Stored(c) = S \ {x}
  BY <1>2, CutLemma
<1>4. /\ lost \in Nat /\ IsFiniteSet(S) /\ ht.used = Cardinality(S) + lost
      /\ h.used \in Nat /\ h.n1 \in Nat /\ h.idx \in Int
  BY DEF Inv, SizeCounts, HInv, Shape, NoIndex
<1>5. x \in S
  BY <1>1 DEF WithKey
<1>6. /\ IsFiniteSet(S \ {x}) /\ Cardinality(S \ {x}) = Cardinality(S) - 1
      /\ Cardinality(S) \in Nat /\ Cardinality(S \ {x}) \in Nat
  BY <1>4, <1>5, FS_RemoveElement, FS_CardinalityType
<1>7. FindCurrent'
  BY DEF FindCurrent
<1> HIDE DEF S, c
<1>8. CASE ht' = c /\ lost' = lost + 1
  <2>1. Load(ht')
    BY <1>3, <1>8 DEF Load, InRehashing
  <2>2. /\ HInv(ht') /\ IsFiniteSet(Stored(ht')) /\ lost' \in Nat
        /\ Stored(ht') = S \ WithKey(S, k)
    <3>1. HInv(ht') /\ Stored(ht') = S \ WithKey(S, k)
      BY <1>2, <1>3, <1>8, Zenon
    <3>2. IsFiniteSet(Stored(ht'))
      BY <1>2, <1>6, <3>1, Zenon
    <3>3. lost' \in Nat
      BY <1>4, <1>8
    <3>4. QED BY <3>1, <3>2, <3>3
  <2>3. SizeCounts'
    <3>1. ht'.used = Cardinality(S) + lost
      BY <1>3, <1>4, <1>8
    <3>2. Cardinality(Stored(ht')) = Cardinality(S) - 1
      BY <1>2, <1>6, <2>2
    <3>3. ht'.used = Cardinality(Stored(ht')) + lost'
      BY <1>4, <1>6, <1>8, <3>1, <3>2
    <3>4. QED BY <3>3 DEF SizeCounts
  <2>4. QED BY <1>7, <2>1, <2>2, <2>3 DEF Inv, S
<1>9. CASE ht' = Counted(c, -1) /\ lost' = lost
  <2>1. c.used + (-1) \in Nat
    BY <1>3, <1>4, <1>6
  <2>2. /\ HInv(ht') /\ Stored(ht') = S \ {x} /\ ht'.used = h.used - 1
        /\ ht'.n1 = h.n1 /\ ht'.idx = h.idx
    BY <1>3, <1>4, <1>9, <2>1, CountedLemma
  <2>3. Load(ht')
    BY <1>4, <2>2 DEF Load, InRehashing
  <2>4. SizeCounts'
    <3>1. ht'.used = Cardinality(S) + lost - 1
      BY <1>4, <1>6, <2>2
    <3>2. Cardinality(Stored(ht')) = Cardinality(S) - 1
      BY <1>6, <2>2
    <3>3. ht'.used = Cardinality(Stored(ht')) + lost'
      BY <1>4, <1>6, <1>9, <3>1, <3>2
    <3>4. QED BY <3>3 DEF SizeCounts
  <2>5. /\ IsFiniteSet(Stored(ht')) /\ lost' \in Nat
        /\ Stored(ht') = S \ WithKey(S, k)
    BY <1>2, <1>4, <1>6, <1>9, <2>2
  <2>6. QED BY <1>7, <2>2, <2>3, <2>4, <2>5 DEF Inv, S
<1>10. QED BY <1>8, <1>9 DEF c

\* Insertion: the duplicate check is complete.
LEMMA InsertStep ==
  ASSUME Inv, NEW e \in Elem, Insert(e)
  PROVE  Inv' /\ KS!Insert(e)
<1> DEFINE h == AfterRehash
           k == GetKey[e]
           W == WithKey(Stored(ht), k)
<1>1. HInv(h) /\ Stored(h) = Stored(ht)
  BY RehashLemma, IncrementalRehashLemma DEF Inv, AfterRehash
<1>2. DuplicateOfInsert(h, k) = W
  BY <1>1, Lookup, GetKeyAssumption
<1>3. /\ ht' = IF W = {} THEN Counted(PutInTurn(h, e), 1) ELSE h
      /\ ret' = IF W = {} THEN Answer("Insert", TRUE, {e})
                          ELSE Answer("Insert", FALSE, W)
      /\ lost' = lost
  BY <1>2 DEF Insert
<1>4. W \subseteq Elem /\ W = KS!WithKey(Stored(ht), k)
  BY StoredElem DEF Inv, WithKey, KS!WithKey
<1>5. ret' \in Answers /\ ret'.op # "Find" /\ FindCurrent'
  BY <1>3, <1>4 DEF Answers, Answer, FindCurrent
<1>6. CASE W = {}
  <2>1. Inv' /\ Stored(ht') = Stored(ht) \cup {e}
    BY <1>3, <1>5, <1>6, Growing
  <2>2. QED BY <1>3, <1>4, <1>6, <2>1 DEF KS!Insert, KS!Answer, Answer
<1>7. CASE W # {}
  <2>1. Inv' /\ Stored(ht') = Stored(ht)
    BY <1>3, <1>5, <1>7, Keeping
  <2>2. QED BY <1>3, <1>4, <1>7, <2>1 DEF KS!Insert, KS!Answer, Answer
<1>8. QED BY <1>6, <1>7

\* Push never meets its key in table2 after linking the node in table1.
LEMMA PushStep ==
  ASSUME Inv, NEW e \in Elem, Push(e)
  PROVE  Inv' /\ KS!Push(e)
<1> DEFINE h == AfterRehash
           k == GetKey[e]
           W == WithKey(Stored(ht), k)
           own == WithKey(IF Moved(h, k) THEN Bucket2(h, k) ELSE Bucket1(h, k), k)
           late == ~Moved(h, k) /\ WithKey(Bucket2(h, k), k) # {}
<1>1. HInv(h) /\ Stored(h) = Stored(ht)
  BY RehashLemma, IncrementalRehashLemma DEF Inv, AfterRehash
<1>2. k \in Key
  BY GetKeyAssumption
<1>3. ~late /\ own = W
  BY <1>1, <1>2, Homes
<1>4. /\ ht' = IF own # {} THEN h
               ELSE Counted(PutInTurn(h, e), IF late THEN 0 ELSE 1)
      /\ ret' = Answer("Push", own = {} /\ ~late, {})
      /\ lost' = lost
  BY DEF Push
<1> HIDE DEF own, late
<1>5. /\ ht' = IF W = {} THEN Counted(PutInTurn(h, e), 1) ELSE h
      /\ ret' = Answer("Push", W = {}, {})
      /\ lost' = lost
  BY <1>3, <1>4
<1>6. W = KS!WithKey(Stored(ht), k)
  BY DEF WithKey, KS!WithKey
<1>7. ret' \in Answers /\ ret'.op # "Find" /\ FindCurrent'
  BY <1>5 DEF Answers, Answer, FindCurrent
<1>8. CASE W = {}
  <2>1. Inv' /\ Stored(ht') = Stored(ht) \cup {e}
    BY <1>5, <1>7, <1>8, Growing
  <2>2. QED BY <1>5, <1>6, <1>8, <2>1 DEF KS!Push, KS!Answer, Answer
<1>9. CASE W # {}
  <2>1. Inv' /\ Stored(ht') = Stored(ht)
    BY <1>5, <1>7, <1>9, Keeping
  <2>2. QED BY <1>5, <1>6, <1>9, <2>1 DEF KS!Push, KS!Answer, Answer
<1>10. QED BY <1>8, <1>9

\* A lookup finds the key wherever it is.
LEMMA FindStep ==
  ASSUME Inv, NEW k \in Key, Find(k)
  PROVE  Inv' /\ KS!Find(k)
<1> DEFINE h == AfterMove
           W == WithKey(Stored(ht), k)
<1>1. HInv(h) /\ Stored(h) = Stored(ht)
  BY IncrementalRehashLemma DEF Inv, AfterMove
<1>2. FoundBy(h, k) = W
  BY <1>1, Lookup
<1>3. ht' = h /\ ret' = Answer("Find", W # {}, W) /\ lost' = lost
  BY <1>2 DEF Find
<1>4. W \subseteq Elem /\ W = KS!WithKey(Stored(ht), k)
  BY StoredElem DEF Inv, WithKey, KS!WithKey
<1>5. ret' \in Answers /\ ret'.out = W
  BY <1>3, <1>4 DEF Answers, Answer
<1>6. Stored(ht') = Stored(ht)
  BY <1>1, <1>3
<1>7. \A e \in W : GetKey[e] = k
  BY DEF WithKey
<1>8. FindCurrent'
  BY <1>4, <1>5, <1>6, <1>7 DEF FindCurrent
<1>9. Inv'
  BY <1>3, <1>5, <1>8, Keeping
<1>10. QED BY <1>3, <1>4, <1>6, <1>9 DEF KS!Find, KS!Answer, Answer

\* Extract takes out the element it returns and counts it off.
LEMMA ExtractStep ==
  ASSUME Inv, NEW k \in Key, Extract(k)
  PROVE  Inv' /\ KS!Extract(k)
<1> DEFINE h == AfterMove
           W == WithKey(Stored(ht), k)
<1>1. HInv(h) /\ Load(h) /\ Stored(h) = Stored(ht) /\ h.used = ht.used
  BY IncrementalRehashLemma, MoveLoad DEF Inv, AfterMove
<1>2. FoundBy(h, k) = W
  BY <1>1, Lookup
<1>3. /\ ht' = IF W = {} THEN h ELSE Counted(CutFound(h, k), -1)
      /\ ret' = Answer("Extract", W # {}, W) /\ lost' = lost
  BY <1>2 DEF Extract
<1>4. W \subseteq Elem /\ W = KS!WithKey(Stored(ht), k)
  BY StoredElem DEF Inv, WithKey, KS!WithKey
<1>5. ret' \in Answers /\ ret'.op # "Find" /\ FindCurrent'
  BY <1>3, <1>4 DEF Answers, Answer, FindCurrent
<1>6. CASE W = {}
  <2>1. Inv' /\ Stored(ht') = Stored(ht)
    BY <1>3, <1>5, <1>6, Keeping
  <2>2. QED BY <1>3, <1>4, <1>6, <2>1 DEF KS!Extract, KS!Answer, Answer
<1>7. CASE W # {}
  <2>1. Inv' /\ Stored(ht') = Stored(ht) \ W
    BY <1>1, <1>3, <1>5, <1>7, Shrinking
  <2>2. QED BY <1>3, <1>4, <1>7, <2>1 DEF KS!Extract, KS!Answer, Answer
<1>8. QED BY <1>6, <1>7

\* EraseNode takes out what the Find before it returned.
LEMMA EraseNodeStep ==
  ASSUME Inv, EraseNode
  PROVE  Inv' /\ KS!EraseNode
<1>1. PICK e \in ret.out : ht' = CutFound(ht, GetKey[e])
  BY DEF EraseNode
<1>2. /\ ret.op = "Find" /\ ret.ok /\ lost' = lost + 1
      /\ ret' = Answer("EraseNode", TRUE, {})
  BY DEF EraseNode
<1>3. e \in Elem /\ ret.out = WithKey(Stored(ht), GetKey[e])
  BY <1>1, <1>2 DEF Inv, FindCurrent
<1>4. ret' \in Answers /\ ret'.op # "Find"
  BY <1>2 DEF Answers, Answer
<1>5. Inv' /\ Stored(ht') = Stored(ht) \ ret.out
  <2>1. GetKey[e] \in Key /\ WithKey(Stored(ht), GetKey[e]) # {}
    BY <1>1, <1>3, GetKeyAssumption
  <2>2. HInv(ht) /\ Load(ht)
    BY DEF Inv
  <2>3. QED BY <1>1, <1>2, <1>3, <1>4, <2>1, <2>2, Shrinking
<1>6. QED BY <1>2, <1>5 DEF KS!EraseNode, KS!Answer, Answer

\* Clear and ClearApply empty the table.
LEMMA ClearStep ==
  ASSUME Inv, Clear \/ ClearApply
  PROVE  Inv' /\ (KS!Clear \/ KS!ClearApply)
<1>1. /\ ht' = Cleared(ht) /\ lost' = 0
      /\ \/ Clear /\ ret' = Answer("Clear", TRUE, {})
         \/ ClearApply /\ ret' = Answer("ClearApply", TRUE, AppliedTo(ht))
  BY DEF Clear, ClearApply
<1>2. /\ HInv(ht') /\ Load(ht') /\ Stored(ht') = {} /\ ht'.used = 0
      /\ AppliedTo(ht) = Stored(ht) /\ Stored(ht) \subseteq Elem
  BY <1>1, ClearLemma, StoredElem DEF Inv
<1>3. ret' \in Answers /\ FindCurrent'
  <2>1. CASE ret' = Answer("Clear", TRUE, {})
    BY <2>1 DEF Answers, Answer, FindCurrent
  <2>2. CASE ret' = Answer("ClearApply", TRUE, Stored(ht))
    BY <1>2, <2>2 DEF Answers, Answer, FindCurrent
  <2>3. QED BY <1>1, <1>2, <2>1, <2>2
<1>4. IsFiniteSet(Stored(ht')) /\ SizeCounts'
  BY <1>1, <1>2, FS_EmptySet DEF SizeCounts
<1>5. Inv'
  BY <1>1, <1>2, <1>3, <1>4 DEF Inv
<1>6. KS!Clear \/ KS!ClearApply
  BY <1>1, <1>2 DEF KS!Clear, KS!ClearApply, KS!Answer, Answer
<1>7. QED BY <1>5, <1>6

\* Every step keeps the invariant and is a step of the abstract set.
LEMMA NextInv == Inv /\ [Next]_vars => Inv' /\ [KS!Next]_KS!absVars
<1> SUFFICES ASSUME Inv, [Next]_vars PROVE Inv' /\ [KS!Next]_KS!absVars
  OBVIOUS
<1>1. CASE \E e \in Elem : Insert(e)
  BY <1>1, InsertStep DEF KS!Next
<1>2. CASE \E e \in Elem : Push(e)
  BY <1>2, PushStep DEF KS!Next
<1>3. CASE \E k \in Key : Find(k)
  BY <1>3, FindStep DEF KS!Next
<1>4. CASE \E k \in Key : Extract(k)
  BY <1>4, ExtractStep DEF KS!Next
<1>5. CASE EraseNode
  BY <1>5, EraseNodeStep DEF KS!Next
<1>6. CASE Clear \/ ClearApply
  BY <1>6, ClearStep DEF KS!Next
<1>7. CASE UNCHANGED vars
  BY <1>7 DEF vars, Inv, SizeCounts, FindCurrent, KS!absVars
<1>8. QED BY <1>1, <1>2, <1>3, <1>4, <1>5, <1>6, <1>7 DEF Next

\* The invariant holds in every reachable state.
THEOREM Invariance == Spec => []Inv
<1>1. Init => Inv
  BY InitInv
<1>2. Inv /\ [Next]_vars => Inv'
  BY NextInv
<1>3. QED BY <1>1, <1>2, PTL DEF Spec

\* Arrays, index and answers stay in range, and used never goes below zero.
THEOREM TypeCorrect == Spec => []TypeOK
<1>1. Inv => TypeOK
  BY DEF Inv, HInv, TypeOK
<1>2. QED BY <1>1, Invariance, PTL

\* A key has one home, on its side of the rehash frontier.
THEOREM OneHomeTheorem == Spec => []OneHome
<1>1. Inv => OneHome
  BY DEF Inv, HInv, OneHome
<1>2. QED BY <1>1, Invariance, PTL

\* No key is stored twice, in one bucket or across the two tables.
THEOREM UniqueTheorem == Spec => []KeysUnique
<1>1. Inv => KeysUnique
  <2> SUFFICES ASSUME Inv PROVE KeysUnique
    OBVIOUS
  <2>1. HInv(ht) /\ Stored(ht) \subseteq Elem
    BY StoredElem DEF Inv
  <2>2. ASSUME NEW e \in Stored(ht), NEW f \in Stored(ht), GetKey[e] = GetKey[f]
        PROVE  e = f
    <3>1. GetKey[e] \in Key
      BY <2>1, GetKeyAssumption
    <3>2. /\ e \in WithKey(Stored(ht), GetKey[e])
          /\ f \in WithKey(Stored(ht), GetKey[e])
      BY <2>2 DEF WithKey
    <3>3. WithKey(Stored(ht), GetKey[e]) = {e}
      BY <2>1, <3>1, <3>2, OnePerKey
    <3>4. QED BY <3>2, <3>3
  <2>3. \A i \in 0 .. ht.n1 - 1, j \in 0 .. ht.n2 - 1 : ht.t1[i] \cap ht.t2[j] = {}
    BY <2>1, TablesApart
  <2>4. QED BY <2>2, <2>3 DEF KeysUnique
<1>2. QED BY <1>1, Invariance, PTL

\* The rehash finishes before the table it fills is over its size.
THEOREM LoadTheorem == Spec => []LoadBound
<1>1. Inv => LoadBound
  BY DEF Inv, LoadBound
<1>2. QED BY <1>1, Invariance, PTL

\* size() is the number of elements plus the entries EraseNode left counted.
THEOREM SizeTheorem == Spec => []SizeCounts
<1>1. Inv => SizeCounts
  BY DEF Inv
<1>2. QED BY <1>1, Invariance, PTL

\* The rehashing table implements the abstract set of unique keys.
THEOREM Refinement == Spec => ImplementsKeyedSet
<1>1. Init => KS!Init
  BY InitInv
<1>2. Inv /\ [Next]_vars => [KS!Next]_KS!absVars
  BY NextInv
<1>3. QED BY <1>1, <1>2, Invariance, PTL DEF Spec, ImplementsKeyedSet, KS!Spec

-----------------------------------------------------------------------------
(* Iteration                                                               *)

\* The bucket an iterator is in, and what a scan from a bucket on has before it
BucketAt(h, tab, bkt) == IF tab = 1 THEN h.t1[bkt] ELSE h.t2[bkt]

From(h, tab, bkt) ==
    {e \in Elem : \/ tab = 1 /\ \E j \in 0 .. h.n1 - 1 : j >= bkt /\ e \in h.t1[j]
                  \/ tab = 1 /\ \E j \in 0 .. h.n2 - 1 : e \in h.t2[j]
                  \/ tab = 2 /\ \E j \in 0 .. h.n2 - 1 : j >= bkt /\ e \in h.t2[j]}

\* The iterators over a table, and what each has still to give
Within(h, it) ==
    /\ it.bkt \in 0 .. (IF it.tab = 1 THEN h.n1 ELSE h.n2) - 1
    /\ \E e \in Elem : it.slot = {e} /\ e \notin it.left
    /\ it.slot \cup it.left \subseteq BucketAt(h, it.tab, it.bkt)

Iterators(h) ==
    {it \in [tab : {1, 2}, bkt : Nat, slot : SUBSET Elem, left : SUBSET Elem] :
        it = AtEnd \/ Within(h, it)}

Rest(h, it) == IF it = AtEnd THEN {}
               ELSE it.slot \cup it.left \cup From(h, it.tab, it.bkt + 1)

LEMMA EnterLemma ==
  ASSUME NEW h, NEW tab \in {1, 2}, NEW bkt \in 0 .. (IF tab = 1 THEN h.n1 ELSE h.n2) - 1,
         bkt \in Nat, NEW B, B # {}, B \subseteq Elem, B \subseteq BucketAt(h, tab, bkt),
         NEW it, it = Enter(tab, bkt, B)
  PROVE  /\ it \in Iterators(h) /\ it # AtEnd /\ it.slot \cup it.left = B
         /\ it.tab = tab /\ it.bkt = bkt
<1> DEFINE first == CHOOSE e \in B : TRUE
<1>1. first \in B
  OBVIOUS
<1>2. it = [tab |-> tab, bkt |-> bkt, slot |-> {first}, left |-> B \ {first}]
  BY DEF Enter
<1> HIDE DEF first
<1>3. /\ it.tab = tab /\ it.bkt = bkt /\ it.slot = {first} /\ it.left = B \ {first}
      /\ it \in [tab : {1, 2}, bkt : Nat, slot : SUBSET Elem, left : SUBSET Elem]
  BY <1>1, <1>2
<1>4. it # AtEnd
  BY <1>3 DEF AtEnd
<1>5. Within(h, it)
  BY <1>1, <1>3 DEF Within
<1>6. QED BY <1>1, <1>3, <1>4, <1>5 DEF Iterators

\* A non-empty set of bucket indices has a lowest one.
LEMMA LowestLemma ==
  ASSUME NEW S, S \subseteq Nat, S # {}
  PROVE  Lowest(S) \in S /\ \A i \in S : Lowest(S) <= i
<1>1. \E j \in S : \A i \in S : j <= i
  <2> SUFFICES ASSUME \A j \in S : \E i \in S : i < j PROVE FALSE
    OBVIOUS
  <2> DEFINE A == {n \in Nat : \A i \in S : n <= i}
  <2>1. 0 \in A
    OBVIOUS
  <2>2. ASSUME NEW n \in A PROVE n + 1 \in A
    <3>1. ASSUME NEW i \in S PROVE n + 1 <= i
      <4>1. PICK k \in S : k < i
        OBVIOUS
      <4>2. n <= k /\ n \in Nat /\ k \in Nat /\ i \in Nat
        OBVIOUS
      <4>3. QED BY <4>1, <4>2
    <3>2. QED BY <3>1
  <2> HIDE DEF A
  <2>3. Nat \subseteq A
    BY <2>1, <2>2, SetInduction
  <2>4. PICK j \in S : TRUE
    OBVIOUS
  <2>5. j + 1 \in A
    BY <2>3, <2>4
  <2>6. j + 1 <= j /\ j \in Nat
    BY <2>4, <2>5 DEF A
  <2>7. QED BY <2>6
<1>2. QED BY <1>1 DEF Lowest

LEMMA ScanLemma ==
  ASSUME NEW h, HInv(h), NEW tab \in {1, 2}, NEW bkt \in Nat, NEW it, it = Scan(h, tab, bkt)
  PROVE  it \in Iterators(h) /\ Rest(h, it) = From(h, tab, bkt)
<1> DEFINE full1 == IF tab = 1 THEN InUse(h.t1, bkt) ELSE {}
           from2 == IF tab = 1 THEN 0 ELSE bkt
           full2 == InUse(h.t2, from2)
           l1 == Lowest(full1)
           l2 == Lowest(full2)
<1>1. /\ h.n1 \in Nat /\ h.n2 \in Nat
      /\ h.t1 \in [0 .. h.n1 - 1 -> SUBSET Elem]
      /\ h.t2 \in [0 .. h.n2 - 1 -> SUBSET Elem]
  BY DEF HInv, Shape
<1>2. \A j : j \in full1 <=> tab = 1 /\ j \in 0 .. h.n1 - 1 /\ j >= bkt /\ h.t1[j] # {}
  BY <1>1 DEF InUse
<1>3. \A j : j \in full2 <=> j \in 0 .. h.n2 - 1 /\ j >= from2 /\ h.t2[j] # {}
  BY <1>1 DEF InUse
<1>4. it = IF full1 # {} THEN Enter(1, l1, h.t1[l1])
           ELSE IF full2 # {} THEN Enter(2, l2, h.t2[l2]) ELSE AtEnd
  BY DEF Scan
<1>5. from2 \in Nat /\ (tab = 1 => from2 = 0) /\ (tab = 2 => from2 = bkt)
  OBVIOUS
<1> HIDE DEF full1, full2, l1, l2, from2
<1>6. CASE full1 # {}
  <2>1. full1 \subseteq Nat
    BY <1>1, <1>2
  <2>2. l1 \in full1 /\ \A i \in full1 : l1 <= i
    BY <1>6, <2>1, LowestLemma DEF l1
  <2>3. /\ tab = 1 /\ l1 \in 0 .. h.n1 - 1 /\ l1 \in Nat /\ l1 >= bkt
        /\ h.t1[l1] # {} /\ h.t1[l1] \subseteq Elem
    BY <1>1, <1>2, <2>1, <2>2
  <2>4. /\ it \in Iterators(h) /\ it # AtEnd /\ it.slot \cup it.left = h.t1[l1]
        /\ it.tab = 1 /\ it.bkt = l1
    <3> DEFINE B == h.t1[l1]
    <3>1. B # {} /\ B \subseteq Elem /\ B \subseteq BucketAt(h, 1, l1)
      BY <2>3 DEF BucketAt
    <3>2. it = Enter(1, l1, B)
      BY <1>4, <1>6
    <3> HIDE DEF B
    <3>3. /\ it \in Iterators(h) /\ it # AtEnd /\ it.slot \cup it.left = B
          /\ it.tab = 1 /\ it.bkt = l1
      BY <2>3, <3>1, <3>2, EnterLemma
    <3>4. QED BY <3>3 DEF B
  <2>5. \A j \in 0 .. h.n1 - 1 : j >= bkt /\ h.t1[j] # {} => j = l1 \/ j >= l1 + 1
    BY <1>2, <2>1, <2>2, <2>3
  <2>6. \A j \in 0 .. h.n1 - 1 : j >= l1 + 1 => j >= bkt
    BY <1>1, <2>3
  <2>7. From(h, 1, bkt) = h.t1[l1] \cup From(h, 1, l1 + 1)
    BY <1>1, <2>3, <2>5, <2>6 DEF From
  <2>8. QED BY <2>3, <2>4, <2>7 DEF Rest
<1>7. CASE full1 = {} /\ full2 # {}
  <2>1. full2 \subseteq Nat
    BY <1>1, <1>3
  <2>2. l2 \in full2 /\ \A i \in full2 : l2 <= i
    BY <1>7, <2>1, LowestLemma DEF l2
  <2>3. /\ l2 \in 0 .. h.n2 - 1 /\ l2 \in Nat /\ l2 >= from2
        /\ h.t2[l2] # {} /\ h.t2[l2] \subseteq Elem
    BY <1>1, <1>3, <2>1, <2>2
  <2>4. /\ it \in Iterators(h) /\ it # AtEnd /\ it.slot \cup it.left = h.t2[l2]
        /\ it.tab = 2 /\ it.bkt = l2
    <3> DEFINE B == h.t2[l2]
    <3>1. B # {} /\ B \subseteq Elem /\ B \subseteq BucketAt(h, 2, l2)
      BY <2>3 DEF BucketAt
    <3>2. it = Enter(2, l2, B)
      BY <1>4, <1>7
    <3> HIDE DEF B
    <3>3. /\ it \in Iterators(h) /\ it # AtEnd /\ it.slot \cup it.left = B
          /\ it.tab = 2 /\ it.bkt = l2
      BY <2>3, <3>1, <3>2, EnterLemma
    <3>4. QED BY <3>3 DEF B
  <2>5. \A j \in 0 .. h.n2 - 1 : j >= from2 /\ h.t2[j] # {} => j = l2 \/ j >= l2 + 1
    BY <1>3, <2>1, <2>2, <2>3
  <2>6. \A j \in 0 .. h.n2 - 1 : j >= l2 + 1 => j >= from2
    BY <1>1, <1>5, <2>3
  <2>7. tab = 1 => \A j \in 0 .. h.n1 - 1 : j >= bkt => h.t1[j] = {}
    BY <1>2, <1>7
  <2>8. \A e : e \in From(h, tab, bkt)
               <=> e \in Elem /\ \E j \in 0 .. h.n2 - 1 : j >= from2 /\ e \in h.t2[j]
    <3>1. CASE tab = 1
      BY <1>5, <2>7, <3>1 DEF From
    <3>2. CASE tab = 2
      BY <1>5, <3>2 DEF From
    <3>3. QED BY <3>1, <3>2
  <2>9. \A e : e \in From(h, 2, l2 + 1)
               <=> e \in Elem /\ \E j \in 0 .. h.n2 - 1 : j >= l2 + 1 /\ e \in h.t2[j]
    BY DEF From
  <2>10. From(h, tab, bkt) = h.t2[l2] \cup From(h, 2, l2 + 1)
    BY <2>3, <2>5, <2>6, <2>8, <2>9
  <2>11. QED BY <2>4, <2>10 DEF Rest
<1>8. CASE full1 = {} /\ full2 = {}
  <2>1. it = AtEnd
    BY <1>4, <1>8
  <2>2. AtEnd \in Iterators(h)
    BY DEF AtEnd, Iterators
  <2>3. tab = 1 => \A j \in 0 .. h.n1 - 1 : j >= bkt => h.t1[j] = {}
    BY <1>2, <1>8
  <2>4. \A j \in 0 .. h.n2 - 1 : j >= from2 => h.t2[j] = {}
    BY <1>3, <1>8
  <2>5. From(h, tab, bkt) = {}
    <3>1. CASE tab = 1
      BY <1>5, <2>3, <2>4, <3>1 DEF From
    <3>2. CASE tab = 2
      BY <1>5, <2>4, <3>2 DEF From
    <3>3. QED BY <3>1, <3>2
  <2>6. QED BY <2>1, <2>2, <2>5 DEF Rest
<1>9. QED BY <1>6, <1>7, <1>8

\* What comes after a bucket is not in it.
LEMMA FromLater ==
  ASSUME NEW h, HInv(h), NEW tab \in {1, 2},
         NEW bkt \in 0 .. (IF tab = 1 THEN h.n1 ELSE h.n2) - 1,
         NEW e \in BucketAt(h, tab, bkt)
  PROVE  e \notin From(h, tab, bkt + 1)
<1>1. /\ \A j \in 0 .. h.n1 - 1 : \A x \in h.t1[j] : bucket_index(h.n1, GetKey[x]) = j
      /\ \A j \in 0 .. h.n2 - 1 : \A x \in h.t2[j] : bucket_index(h.n2, GetKey[x]) = j
      /\ h.n1 \in Nat /\ h.n2 \in Nat
  BY DEF HInv, Placed, Shape
<1>2. CASE tab = 1
  <2>1. bkt \in 0 .. h.n1 - 1 /\ e \in h.t1[bkt]
    BY <1>2 DEF BucketAt
  <2>2. \A j \in 0 .. h.n1 - 1 : j >= bkt + 1 => e \notin h.t1[j]
    BY <1>1, <2>1
  <2>3. \A j \in 0 .. h.n2 - 1 : e \notin h.t2[j]
    BY <2>1, TablesApart
  <2>4. QED BY <1>2, <2>2, <2>3 DEF From
<1>3. CASE tab = 2
  <2>1. bkt \in 0 .. h.n2 - 1 /\ e \in h.t2[bkt]
    BY <1>3 DEF BucketAt
  <2>2. \A j \in 0 .. h.n2 - 1 : j >= bkt + 1 => e \notin h.t2[j]
    BY <1>1, <2>1
  <2>3. QED BY <1>3, <2>2 DEF From
<1>4. QED BY <1>2, <1>3

LEMMA IncrementLemma ==
  ASSUME NEW h, HInv(h), NEW it \in Iterators(h), it # AtEnd
  PROVE  /\ Increment(h, it) \in Iterators(h)
         /\ \E e \in Rest(h, it) :
                it.slot = {e} /\ Rest(h, Increment(h, it)) = Rest(h, it) \ {e}
<1> DEFINE next == Increment(h, it)
           later == From(h, it.tab, it.bkt + 1)
<1>1. /\ it.tab \in {1, 2} /\ it.bkt \in Nat /\ it.left \subseteq Elem
      /\ it.bkt \in 0 .. (IF it.tab = 1 THEN h.n1 ELSE h.n2) - 1
      /\ it.slot \cup it.left \subseteq BucketAt(h, it.tab, it.bkt)
  BY DEF Iterators, Within
<1>2. PICK e \in Elem : it.slot = {e} /\ e \notin it.left
  BY DEF Iterators, Within
<1>3. Rest(h, it) = {e} \cup it.left \cup later
  BY <1>2 DEF Rest
<1>4. e \notin later
  BY <1>1, <1>2, FromLater
<1> HIDE DEF later
<1>5. CASE it.left # {}
  <2>1. next = Enter(it.tab, it.bkt, it.left)
    BY <1>5 DEF Increment
  <2> HIDE DEF next
  <2>2. it.left \subseteq BucketAt(h, it.tab, it.bkt)
    BY <1>1
  <2>3. /\ next \in Iterators(h) /\ next # AtEnd /\ next.slot \cup next.left = it.left
        /\ next.tab = it.tab /\ next.bkt = it.bkt
    BY <1>1, <1>5, <2>1, <2>2, EnterLemma
  <2>4. Rest(h, next) = it.left \cup later
    BY <2>3 DEF Rest, later
  <2>5. QED BY <1>2, <1>3, <1>4, <2>3, <2>4 DEF next
<1>6. CASE it.left = {}
  <2>1. next = Scan(h, it.tab, it.bkt + 1)
    BY <1>6 DEF Increment
  <2> HIDE DEF next
  <2>2. next \in Iterators(h) /\ Rest(h, next) = later
    BY <1>1, <2>1, ScanLemma DEF later
  <2>3. QED BY <1>2, <1>3, <1>4, <1>6, <2>2 DEF next
<1>7. QED BY <1>5, <1>6

\* The first n values of a loop are what the iterator no longer has to give.
LEMMA WalkLemma ==
  ASSUME NEW h, HInv(h), IsFiniteSet(Stored(h))
  PROVE  /\ Walk(h)[Cardinality(Stored(h))] = AtEnd
         /\ UNION {Walk(h)[n].slot : n \in 0 .. Cardinality(Stored(h)) - 1} = Stored(h)
<1> DEFINE N == Cardinality(Stored(h))
           I == Iterators(h)
           F == [it \in I |-> IF it = AtEnd THEN AtEnd ELSE Increment(h, it)]
           s == Begin(h)
           Pass(it) == CHOOSE r \in {IF x = AtEnd THEN AtEnd ELSE Increment(h, x) : x \in {it}} : TRUE
           IsWalk(f) == f = [n \in 0 .. N |-> IF n = 0 THEN s ELSE Pass(f[n - 1])]
           w == Walk(h)
<1>1. N \in Nat
  BY FS_CardinalityType
<1>2. s \in I /\ Rest(h, s) = Stored(h)
  <2>1. s \in I /\ Rest(h, s) = From(h, 1, 0)
    BY ScanLemma DEF Begin
  <2>2. /\ h.t1 \in [0 .. h.n1 - 1 -> SUBSET Elem] /\ h.t2 \in [0 .. h.n2 - 1 -> SUBSET Elem]
        /\ \A j \in 0 .. h.n1 - 1 : j >= 0
    BY DEF HInv, Shape
  <2>3. From(h, 1, 0) = Stored(h)
    BY <2>2, StoredMember DEF From
  <2>4. QED BY <2>1, <2>3
<1>3. \A it : Pass(it) = IF it = AtEnd THEN AtEnd ELSE Increment(h, it)
  OBVIOUS
<1>4. Closed(F, I)
  <2>1. AtEnd \in I
    BY DEF Iterators, AtEnd
  <2>2. QED BY <2>1, IncrementLemma DEF Closed
<1>5. w = CHOOSE f : IsWalk(f)
  BY Zenon DEF Walk
<1>6. \A it \in I : F[it] = Pass(it)
  BY <1>3
<1> HIDE DEF F, I, s, Pass, w, N
<1>7. PICK g : IsRun(g, F, s, N, I)
  BY <1>1, <1>2, <1>4, RunExists
<1>8. IsWalk(g)
  <2>1. g \in [0 .. N -> I] /\ g[0] = s /\ \A n \in 1 .. N : g[n] = F[g[n - 1]]
    BY <1>7 DEF IsRun
  <2>2. ASSUME NEW n \in 0 .. N PROVE g[n] = IF n = 0 THEN s ELSE Pass(g[n - 1])
    <3>1. CASE n = 0
      BY <2>1, <3>1
    <3>2. CASE n # 0
      <4>1. n \in 1 .. N /\ n - 1 \in 0 .. N
        BY <1>1, <3>2
      <4>2. QED BY <1>6, <2>1, <3>2, <4>1
    <3>3. QED BY <3>1, <3>2
  <2>3. g = [n \in 0 .. N |-> g[n]]
    BY <2>1
  <2>4. QED BY <2>2, <2>3
<1>9. IsWalk(w)
  <2> HIDE DEF IsWalk
  <2>1. QED BY <1>5, <1>8
<1>10. w[0] = s /\ \A n \in 1 .. N : w[n] = Pass(w[n - 1])
  BY <1>1, <1>9
<1>11. IsRun(w, F, s, N, I)
  <2>1. w = [n \in 0 .. N |-> w[n]]
    BY <1>9
  <2>2. \A n \in 1 .. N : w[n - 1] \in I => w[n] = F[w[n - 1]]
    BY <1>6, <1>10
  <2>3. QED BY <1>1, <1>2, <1>4, <1>10, <2>1, <2>2, RunIs
<1>12. \A n \in 0 .. N : w[n] \in I
  BY <1>11 DEF IsRun
<1> DEFINE R(n) == Rest(h, w[n])
           Given(n) == UNION {w[k].slot : k \in 0 .. n - 1}
           A == {n \in Nat : n <= N =>
                    /\ IsFiniteSet(R(n)) /\ Cardinality(R(n)) = N - n
                    /\ Given(n) \cup R(n) = Stored(h)}
<1>13. 0 \in A
  <2>1. Given(0) = {}
    OBVIOUS
  <2>2. R(0) = Stored(h)
    BY <1>2, <1>10
  <2>3. N - 0 = N
    BY <1>1
  <2> HIDE DEF R, Given
  <2>4. QED BY <2>1, <2>2, <2>3 DEF N
<1>14. ASSUME NEW n \in A PROVE n + 1 \in A
  <2> SUFFICES ASSUME n + 1 <= N
               PROVE  /\ IsFiniteSet(R(n + 1)) /\ Cardinality(R(n + 1)) = N - (n + 1)
                      /\ Given(n + 1) \cup R(n + 1) = Stored(h)
    OBVIOUS
  <2>1. /\ n \in Nat /\ n \in 0 .. N /\ n + 1 \in 1 .. N /\ (n + 1) - 1 = n
        /\ n <= N /\ N - n > 0 /\ (N - n) - 1 = N - (n + 1)
    BY <1>1
  <2>2. IsFiniteSet(R(n)) /\ Cardinality(R(n)) = N - n /\ Given(n) \cup R(n) = Stored(h)
    BY <2>1
  <2>3. w[n] # AtEnd
    <3> SUFFICES ASSUME w[n] = AtEnd PROVE FALSE
      OBVIOUS
    <3>1. R(n) = {}
      BY DEF Rest
    <3>2. Cardinality(R(n)) = 0
      BY <3>1, FS_EmptySet
    <3> HIDE DEF R
    <3>3. QED BY <2>1, <2>2, <3>2
  <2>4. w[n + 1] = Increment(h, w[n])
    BY <1>3, <1>10, <2>1, <2>3
  <2>5. PICK e \in R(n) : w[n].slot = {e} /\ R(n + 1) = R(n) \ {e}
    BY <1>12, <2>1, <2>3, <2>4, IncrementLemma DEF I
  <2>6. Given(n + 1) = Given(n) \cup {e}
    <3>1. \A k : k \in 0 .. (n + 1) - 1 <=> k \in 0 .. n - 1 \/ k = n
      BY <2>1
    <3>2. QED BY <2>5, <3>1
  <2> HIDE DEF R, Given
  <2>7. IsFiniteSet(R(n + 1)) /\ Cardinality(R(n + 1)) = Cardinality(R(n)) - 1
    BY <2>2, <2>5, FS_RemoveElement
  <2>8. QED BY <2>1, <2>2, <2>5, <2>6, <2>7
<1> HIDE DEF A
<1>15. N \in A
  BY <1>1, <1>13, <1>14, SetInduction
<1>16. IsFiniteSet(R(N)) /\ Cardinality(R(N)) = 0 /\ Given(N) \cup R(N) = Stored(h)
  <2>1. N <= N /\ N - N = 0
    BY <1>1
  <2> HIDE DEF R, Given
  <2>2. QED BY <1>15, <2>1 DEF A
<1>17. R(N) = {}
  BY <1>16, FS_EmptySet
<1>18. w[N] = AtEnd
  <2> SUFFICES ASSUME w[N] # AtEnd PROVE FALSE
    OBVIOUS
  <2>1. w[N] \in Iterators(h)
    BY <1>1, <1>12 DEF I
  <2>2. R(N) # {}
    BY <2>1, IncrementLemma
  <2>3. QED BY <1>17, <2>2
<1>19. Given(N) = Stored(h)
  BY <1>16, <1>17
<1>20. QED BY <1>18, <1>19 DEF w, N

\* A loop from begin() to end() meets every element once, in the middle of a
\* rehash too, when it has to go from the old array to the new one.
THEOREM IterationTheorem == Spec => []IterationExact
<1>1. Inv => IterationExact
  <2> SUFFICES ASSUME Inv PROVE IterationExact
    OBVIOUS
  <2>1. HInv(ht) /\ IsFiniteSet(Stored(ht))
    BY DEF Inv
  <2>2. QED BY <2>1, WalkLemma DEF IterationExact
<1>2. QED BY <1>1, Invariance, PTL

=============================================================================
