--------------------------- MODULE HashTableProofs --------------------------
(***************************************************************************)
(* TLAPS proofs about HashTable, for every set of elements, every hash     *)
(* function and tables of every size.                                      *)
(***************************************************************************)
EXTENDS HashTable, FiniteSetTheorems, SequenceTheorems, NaturalsInduction,
        WellFoundedInduction, TLAPS

\* A set with 0 that is closed under successor has every natural number.
LEMMA SetInduction ==
  ASSUME NEW S, 0 \in S, \A n \in S : n + 1 \in S
  PROVE  Nat \subseteq S
<1> DEFINE R == {ss \in Nat \X Nat : ss[1] < ss[2]}
<1>1. IsWellFoundedOn(R, Nat)
  BY NatLessThanWellFounded, Zenon DEF OpToRel
<1> SUFFICES ASSUME NEW b \in Nat, b \notin S PROVE FALSE
  OBVIOUS
<1>2. PICK x \in Nat \ S : \A y \in Nat \ S : ~(<<y, x>> \in R)
  <2>1. Nat \ S \subseteq Nat /\ Nat \ S # {}
    OBVIOUS
  <2> HIDE DEF R
  <2>2. QED BY <1>1, <2>1, WFMin, Zenon
<1>3. x # 0
  OBVIOUS
<1>4. x - 1 \in Nat /\ x = (x - 1) + 1 /\ <<x - 1, x>> \in R
  BY <1>3
<1>5. x - 1 \in S
  BY <1>2, <1>4
<1>6. QED BY <1>4, <1>5

-----------------------------------------------------------------------------
(* Lists: what the operations of Slist do to a list of distinct keys.       *)

\* The elements of a list, and their positions.
LEMMA ToSetMember ==
  ASSUME NEW B \in Seq(Elem), NEW x
  PROVE  x \in ToSet(B) <=> \E n \in 1 .. Len(B) : x = B[n]
BY DEF ToSet

LEMMA ToSetElem ==
  ASSUME NEW B \in Seq(Elem)
  PROVE  ToSet(B) \subseteq Elem
BY DEF ToSet

\* A search answers 0 exactly when the key is absent, and else its position.
LEMMA SearchLemma ==
  ASSUME NEW B \in Seq(Elem), Distinct(B), NEW k
  PROVE  \/ Search(B, k) = 0 /\ \A x \in ToSet(B) : GetKey[x] # k
         \/ /\ Search(B, k) \in 1 .. Len(B)
            /\ GetKey[B[Search(B, k)]] = k
            /\ B[Search(B, k)] \in ToSet(B)
            /\ \A x \in ToSet(B) : GetKey[x] = k => x = B[Search(B, k)]
<1> DEFINE I == {i \in 1 .. Len(B) : GetKey[B[i]] = k}
<1>1. Search(B, k) = IF I # {} THEN CHOOSE x \in I : \A y \in I : x <= y ELSE 0
  BY DEF Search, SelectInSeq, Min
<1>2. CASE I = {}
  BY <1>1, <1>2, ToSetMember
<1>3. CASE I # {}
  <2>1. PICK n \in I : TRUE
    BY <1>3
  <2>2. \A y \in I : n = y
    BY DEF Distinct
  <2>3. Search(B, k) = n
    BY <1>1, <1>3, <2>1, <2>2
  <2>4. \A x \in ToSet(B) : GetKey[x] = k => x = B[n]
    BY <2>2, ToSetMember
  <2>5. QED BY <2>1, <2>3, <2>4, ToSetMember
<1>4. QED BY <1>2, <1>3

LEMMA DistinctAt ==
  ASSUME NEW B, Distinct(B), NEW m \in DOMAIN B, NEW n \in DOMAIN B,
         GetKey[B[m]] = GetKey[B[n]]
  PROVE  m = n
BY DEF Distinct

\* Two lists with no key in common, one behind the other
LEMMA ConcatLemma ==
  ASSUME NEW A \in Seq(Elem), NEW B \in Seq(Elem), Distinct(A), Distinct(B),
         \A e \in ToSet(A), f \in ToSet(B) : GetKey[e] # GetKey[f]
  PROVE  /\ A \o B \in Seq(Elem) /\ Distinct(A \o B)
         /\ ToSet(A \o B) = ToSet(A) \cup ToSet(B)
<1> DEFINE C == A \o B
<1>1. /\ C \in Seq(Elem) /\ Len(C) = Len(A) + Len(B)
      /\ Len(A) \in Nat /\ Len(B) \in Nat
      /\ \A i \in 1 .. Len(C) : C[i] = IF i <= Len(A) THEN A[i] ELSE B[i - Len(A)]
  BY ConcatProperties
<1> HIDE DEF C
<1>2. ASSUME NEW x PROVE x \in ToSet(C) <=> x \in ToSet(A) \cup ToSet(B)
  <2>1. ASSUME x \in ToSet(C) PROVE x \in ToSet(A) \cup ToSet(B)
    <3>1. PICK i \in 1 .. Len(C) : x = C[i]
      BY <1>1, <2>1, ToSetMember
    <3>2. CASE i <= Len(A)
      BY <1>1, <3>1, <3>2, ToSetMember
    <3>3. CASE ~(i <= Len(A))
      <4>1. i - Len(A) \in 1 .. Len(B)
        BY <1>1, <3>3
      <4>2. QED BY <1>1, <3>1, <3>3, <4>1, ToSetMember
    <3>4. QED BY <3>2, <3>3
  <2>2. ASSUME x \in ToSet(A) PROVE x \in ToSet(C)
    <3>1. PICK i \in 1 .. Len(A) : x = A[i]
      BY <2>2, ToSetMember
    <3>2. i \in 1 .. Len(C) /\ C[i] = A[i]
      BY <1>1
    <3>3. QED BY <1>1, <3>1, <3>2, ToSetMember
  <2>3. ASSUME x \in ToSet(B) PROVE x \in ToSet(C)
    <3>1. PICK i \in 1 .. Len(B) : x = B[i]
      BY <2>3, ToSetMember
    <3>2. /\ i + Len(A) \in 1 .. Len(C) /\ ~(i + Len(A) <= Len(A))
          /\ (i + Len(A)) - Len(A) = i
      BY <1>1
    <3>3. C[i + Len(A)] = B[i]
      BY <1>1, <3>2
    <3>4. QED BY <1>1, <3>1, <3>2, <3>3, ToSetMember
  <2>4. QED BY <2>1, <2>2, <2>3
<1>3. ASSUME NEW m \in 1 .. Len(C), NEW n \in 1 .. Len(C),
             GetKey[C[m]] = GetKey[C[n]]
      PROVE  m = n
  <2>1. CASE m <= Len(A) /\ n <= Len(A)
    <3>1. m \in DOMAIN A /\ n \in DOMAIN A
      BY <1>1, <2>1
    <3>2. GetKey[A[m]] = GetKey[A[n]]
      BY <1>1, <1>3, <2>1
    <3>3. QED BY <3>1, <3>2, DistinctAt
  <2>2. CASE ~(m <= Len(A)) /\ ~(n <= Len(A))
    <3>1. m - Len(A) \in 1 .. Len(B) /\ n - Len(A) \in 1 .. Len(B)
      BY <1>1, <2>2
    <3>2. C[m] = B[m - Len(A)] /\ C[n] = B[n - Len(A)]
      BY <1>1, <2>2
    <3>3. m - Len(A) = n - Len(A)
      <4>1. m - Len(A) \in DOMAIN B /\ n - Len(A) \in DOMAIN B
        BY <3>1
      <4>2. QED BY <1>3, <3>2, <4>1, DistinctAt
    <3>4. QED BY <1>1, <3>3
  <2>3. CASE m <= Len(A) /\ ~(n <= Len(A))
    <3>1. C[m] = A[m] /\ m \in 1 .. Len(A) /\ C[n] = B[n - Len(A)]
          /\ n - Len(A) \in 1 .. Len(B)
      BY <1>1, <2>3
    <3>2. C[m] \in ToSet(A) /\ C[n] \in ToSet(B)
      BY <3>1, ToSetMember
    <3>3. QED BY <1>3, <3>2
  <2>4. CASE ~(m <= Len(A)) /\ n <= Len(A)
    <3>1. C[n] = A[n] /\ n \in 1 .. Len(A) /\ C[m] = B[m - Len(A)]
          /\ m - Len(A) \in 1 .. Len(B)
      BY <1>1, <2>4
    <3>2. C[n] \in ToSet(A) /\ C[m] \in ToSet(B)
      BY <3>1, ToSetMember
    <3>3. QED BY <1>3, <3>2
  <2>5. QED BY <2>1, <2>2, <2>3, <2>4
<1>4. Distinct(C)
  BY <1>1, <1>3 DEF Distinct
<1>5. QED BY <1>1, <1>2, <1>4 DEF C

\* EmplaceFront of a new key
LEMMA ConsLemma ==
  ASSUME NEW B \in Seq(Elem), Distinct(B), NEW e \in Elem,
         \A f \in ToSet(B) : GetKey[f] # GetKey[e]
  PROVE  /\ <<e>> \o B \in Seq(Elem) /\ Distinct(<<e>> \o B)
         /\ ToSet(<<e>> \o B) = ToSet(B) \cup {e}
<1>1. <<e>> \in Seq(Elem) /\ Distinct(<<e>>) /\ ToSet(<<e>>) = {e}
  BY DEF Distinct, ToSet
<1> DEFINE A == <<e>>
<1>2. \A x \in ToSet(A), f \in ToSet(B) : GetKey[x] # GetKey[f]
  BY <1>1
<1> HIDE DEF A
<1>3. /\ A \o B \in Seq(Elem) /\ Distinct(A \o B)
      /\ ToSet(A \o B) = ToSet(A) \cup ToSet(B)
  BY <1>1, <1>2, ConcatLemma DEF A
<1>4. QED BY <1>1, <1>3 DEF A

\* Dropping the header
LEMMA TailLemma ==
  ASSUME NEW B \in Seq(Elem), Distinct(B), B # <<>>
  PROVE  /\ Tail(B) \in Seq(Elem) /\ Distinct(Tail(B))
         /\ B[1] \in ToSet(B) /\ ToSet(Tail(B)) = ToSet(B) \ {B[1]}
<1> DEFINE T == Tail(B)
<1>1. /\ T \in Seq(Elem) /\ Len(T) = Len(B) - 1 /\ Len(B) \in Nat /\ Len(B) > 0
      /\ \A i \in 1 .. Len(T) : T[i] = B[i + 1]
  BY HeadTailProperties, LenProperties
<1> HIDE DEF T
<1>2. Distinct(T)
  <2> SUFFICES ASSUME NEW m \in 1 .. Len(T), NEW n \in 1 .. Len(T),
                      GetKey[T[m]] = GetKey[T[n]]
               PROVE  m = n
    BY <1>1 DEF Distinct
  <2>1. m + 1 \in 1 .. Len(B) /\ n + 1 \in 1 .. Len(B)
    BY <1>1
  <2>2. m + 1 = n + 1
    <3>1. m + 1 \in DOMAIN B /\ n + 1 \in DOMAIN B
      BY <2>1
    <3>2. GetKey[B[m + 1]] = GetKey[B[n + 1]]
      BY <1>1
    <3>3. QED BY <3>1, <3>2, DistinctAt
  <2>3. QED BY <2>2
<1>3. ASSUME NEW x PROVE x \in ToSet(T) <=> x \in ToSet(B) /\ x # B[1]
  <2>1. ASSUME x \in ToSet(T) PROVE x \in ToSet(B) /\ x # B[1]
    <3>1. PICK i \in 1 .. Len(T) : x = T[i]
      BY <1>1, <2>1, ToSetMember
    <3>2. i + 1 \in 1 .. Len(B) /\ 1 \in 1 .. Len(B) /\ i + 1 # 1 /\ x = B[i + 1]
      BY <1>1, <3>1
    <3>3. QED BY <3>2, ToSetMember DEF Distinct
  <2>2. ASSUME x \in ToSet(B), x # B[1] PROVE x \in ToSet(T)
    <3>1. PICK i \in 1 .. Len(B) : x = B[i]
      BY <2>2, ToSetMember
    <3>2. i # 1
      BY <2>2, <3>1
    <3>3. i - 1 \in 1 .. Len(T) /\ (i - 1) + 1 = i
      BY <1>1, <3>2
    <3>4. x = T[i - 1]
      BY <1>1, <3>1, <3>3
    <3>5. QED BY <1>1, <3>3, <3>4, ToSetMember
  <2>3. QED BY <2>1, <2>2
<1>4. B[1] \in ToSet(B)
  BY <1>1, ToSetMember
<1>5. QED BY <1>1, <1>2, <1>3, <1>4 DEF T

\* ExtractNodeIf takes out the node of the key.
LEMMA WithoutLemma ==
  ASSUME NEW B \in Seq(Elem), Distinct(B), NEW k, Search(B, k) # 0
  PROVE  /\ Without(B, k) \in Seq(Elem) /\ Distinct(Without(B, k))
         /\ ToSet(Without(B, k)) = ToSet(B) \ {B[Search(B, k)]}
<1> DEFINE p == Search(B, k)
           A == SubSeq(B, 1, p - 1)
           C == SubSeq(B, p + 1, Len(B))
<1>1. p \in 1 .. Len(B) /\ Len(B) \in Nat
  BY SearchLemma, LenProperties
<1>2. Without(B, k) = A \o C
  BY DEF Without, RemoveAt
<1> HIDE DEF p
<1>3. /\ A \in Seq(Elem) /\ Len(A) = p - 1
      /\ \A i \in 1 .. p - 1 : A[i] = B[i]
  BY <1>1
<1>4. /\ C \in Seq(Elem) /\ Len(C) = Len(B) - p
      /\ \A i \in 1 .. Len(B) - p : C[i] = B[p + i]
  BY <1>1
<1> HIDE DEF A, C
<1>5. Distinct(A)
  <2> SUFFICES ASSUME NEW m \in 1 .. p - 1, NEW n \in 1 .. p - 1,
                      GetKey[A[m]] = GetKey[A[n]]
               PROVE  m = n
    BY <1>1, <1>3 DEF Distinct
  <2>1. m \in 1 .. Len(B) /\ n \in 1 .. Len(B)
    BY <1>1
  <2>2. QED BY <1>3, <2>1 DEF Distinct
<1>6. Distinct(C)
  <2> SUFFICES ASSUME NEW m \in 1 .. Len(B) - p, NEW n \in 1 .. Len(B) - p,
                      GetKey[C[m]] = GetKey[C[n]]
               PROVE  m = n
    <3>1. DOMAIN C = 1 .. Len(B) - p
      BY <1>4
    <3>2. QED BY <3>1 DEF Distinct
  <2>1. p + m \in 1 .. Len(B) /\ p + n \in 1 .. Len(B)
    BY <1>1
  <2>2. p + m = p + n
    <3>1. p + m \in DOMAIN B /\ p + n \in DOMAIN B
      BY <2>1
    <3>2. GetKey[B[p + m]] = GetKey[B[p + n]]
      BY <1>4
    <3>3. QED BY <3>1, <3>2, DistinctAt
  <2>3. QED BY <1>1, <2>2
<1>7. \A x : x \in ToSet(A) <=> \E i \in 1 .. p - 1 : x = B[i]
  <2>1. \A x : x \in ToSet(A) <=> \E i \in 1 .. Len(A) : x = A[i]
    BY <1>3, ToSetMember
  <2>2. QED BY <1>3, <2>1
<1>8. \A x : x \in ToSet(C) <=> \E i \in p + 1 .. Len(B) : x = B[i]
  <2> SUFFICES ASSUME NEW x
               PROVE  x \in ToSet(C) <=> \E i \in p + 1 .. Len(B) : x = B[i]
    OBVIOUS
  <2>1. ASSUME x \in ToSet(C) PROVE \E i \in p + 1 .. Len(B) : x = B[i]
    <3>1. PICK i \in 1 .. Len(B) - p : x = C[i]
      BY <1>1, <1>4, <2>1, ToSetMember
    <3>2. p + i \in p + 1 .. Len(B)
      BY <1>1
    <3>3. QED BY <1>4, <3>1, <3>2
  <2>2. ASSUME NEW i \in p + 1 .. Len(B), x = B[i] PROVE x \in ToSet(C)
    <3>1. i - p \in 1 .. Len(B) - p /\ p + (i - p) = i
      BY <1>1
    <3>2. x = C[i - p]
      BY <1>4, <2>2, <3>1
    <3>3. QED BY <1>4, <3>1, <3>2, ToSetMember
  <2>3. QED BY <2>1, <2>2
<1>9. \A e \in ToSet(A), f \in ToSet(C) : GetKey[e] # GetKey[f]
  <2> SUFFICES ASSUME NEW i \in 1 .. p - 1, NEW j \in p + 1 .. Len(B)
               PROVE  GetKey[B[i]] # GetKey[B[j]]
    BY <1>7, <1>8
  <2>1. i \in 1 .. Len(B) /\ j \in 1 .. Len(B) /\ i # j
    BY <1>1
  <2>2. QED BY <2>1 DEF Distinct
<1>10. /\ A \o C \in Seq(Elem) /\ Distinct(A \o C)
       /\ ToSet(A \o C) = ToSet(A) \cup ToSet(C)
  BY <1>3, <1>4, <1>5, <1>6, <1>9, ConcatLemma
<1>11. ToSet(A) \cup ToSet(C) = ToSet(B) \ {B[p]}
  <2>1. ASSUME NEW x, x \in ToSet(A) \cup ToSet(C) PROVE x \in ToSet(B) \ {B[p]}
    <3>1. PICK i \in 1 .. Len(B) : i # p /\ x = B[i]
      BY <1>1, <1>7, <1>8, <2>1
    <3>2. QED BY <1>1, <3>1, ToSetMember DEF Distinct
  <2>2. ASSUME NEW x, x \in ToSet(B), x # B[p] PROVE x \in ToSet(A) \cup ToSet(C)
    <3>1. PICK i \in 1 .. Len(B) : x = B[i]
      BY <2>2, ToSetMember
    <3>2. i # p
      BY <2>2, <3>1
    <3>3. i \in 1 .. p - 1 \/ i \in p + 1 .. Len(B)
      BY <1>1, <3>2
    <3>4. QED BY <1>7, <1>8, <3>1, <3>3
  <2>3. QED BY <2>1, <2>2
<1>12. QED BY <1>2, <1>10, <1>11 DEF p

\* Moving the node of the key to the front loses nothing.
LEMMA ToFrontLemma ==
  ASSUME NEW B \in Seq(Elem), Distinct(B), NEW k, Search(B, k) # 0
  PROVE  /\ ToFront(B, k) \in Seq(Elem) /\ Distinct(ToFront(B, k))
         /\ ToSet(ToFront(B, k)) = ToSet(B)
         /\ ToFront(B, k) # <<>> /\ ToFront(B, k)[1] = B[Search(B, k)]
<1> DEFINE x == B[Search(B, k)]
           W == Without(B, k)
<1>1. /\ x \in ToSet(B) /\ x \in Elem
      /\ \A y \in ToSet(B) : GetKey[y] = GetKey[x] => y = x
  BY SearchLemma, ToSetElem
<1>2. W \in Seq(Elem) /\ Distinct(W) /\ ToSet(W) = ToSet(B) \ {x}
  BY WithoutLemma
<1> HIDE DEF x, W
<1>3. /\ <<x>> \o W \in Seq(Elem) /\ Distinct(<<x>> \o W)
      /\ ToSet(<<x>> \o W) = ToSet(W) \cup {x}
  BY <1>1, <1>2, ConsLemma
<1>4. <<x>> \o W # <<>> /\ (<<x>> \o W)[1] = x
  BY <1>1, <1>2
<1>5. QED BY <1>1, <1>2, <1>3, <1>4 DEF ToFront, x, W

\* The nodes of a list that go to one bucket: ranks in 1 .. Cardinality(I) are
\* injective, so every place of the sifted list is taken, by one node.
LEMMA SiftedLemma ==
  ASSUME NEW B \in Seq(Elem), Distinct(B), NEW size, NEW j
  PROVE  /\ Sifted(B, size, j) \in Seq(Elem) /\ Distinct(Sifted(B, size, j))
         /\ ToSet(Sifted(B, size, j)) =
               {e \in ToSet(B) : bucket_index(size, GetKey[e]) = j}
<1> DEFINE I == Going(B, size, j)
           above(i) == {m \in I : m >= i}
           rank(i) == Cardinality(above(i))
           c == Cardinality(I)
           at(p) == CHOOSE i \in I : rank(i) = p
           Z == Sifted(B, size, j)
<1>1. I \subseteq 1 .. Len(B) /\ Len(B) \in Nat
  BY LenProperties DEF Going
<1>2. IsFiniteSet(I) /\ c \in Nat
  <2>1. IsFiniteSet(1 .. Len(B))
    BY <1>1, FS_Interval
  <2>2. IsFiniteSet(I)
    BY <1>1, <2>1, FS_Subset
  <2>3. QED BY <2>2, FS_CardinalityType
<1>3. ASSUME NEW i \in I
      PROVE  /\ IsFiniteSet(above(i)) /\ rank(i) \in 1 .. c
  <2>1. above(i) \in SUBSET I
    OBVIOUS
  <2>2. IsFiniteSet(above(i)) /\ rank(i) <= c
    BY <1>2, <2>1, FS_Subset
  <2>3. i \in above(i)
    BY <1>1
  <2>4. rank(i) \in Nat /\ rank(i) # 0
    BY <2>2, <2>3, FS_CardinalityType, FS_EmptySet
  <2>5. QED BY <1>2, <2>2, <2>4
<1>4. ASSUME NEW i \in I, NEW m \in I, i < m PROVE rank(i) # rank(m)
  <2>1. above(m) \in SUBSET above(i)
    BY <1>1, <1>4
  <2>2. i \in above(i) /\ i \notin above(m)
    BY <1>1, <1>4
  <2>3. IsFiniteSet(above(i))
    BY <1>3
  <2> HIDE DEF above
  <2>4. QED BY <2>1, <2>2, <2>3, FS_Subset
<1>5. \A i, m \in I : rank(i) = rank(m) => i = m
  <2> SUFFICES ASSUME NEW i \in I, NEW m \in I, i # m PROVE rank(i) # rank(m)
    OBVIOUS
  <2>1. i < m \/ m < i
    BY <1>1
  <2>2. QED BY <1>4, <2>1
<1> HIDE DEF above, I, c
<1>6. \A p \in 1 .. c : \E i \in I : rank(i) = p
  <2> DEFINE f == [i \in I |-> rank(i)]
  <2>1. f \in [I -> 1 .. c]
    BY <1>3
  <2>2. IsInjective(f)
    BY <1>5 DEF IsInjective
  <2>3. f \in Injection(I, 1 .. c)
    BY <2>1, <2>2 DEF Injection
  <2>4. IsFiniteSet(1 .. c) /\ Cardinality(1 .. c) = c
    BY <1>2, FS_Interval
  <2>5. f \in Surjection(I, 1 .. c)
    <3> HIDE DEF f
    <3>1. Cardinality(I) = Cardinality(1 .. c)
      BY <2>4 DEF c
    <3>2. QED BY <2>3, <2>4, <3>1, FS_Injection
  <2>6. QED BY <2>5 DEF Surjection
<1>7. \A p \in 1 .. c : at(p) \in I /\ rank(at(p)) = p
  BY <1>6
<1>8. \A i \in I : rank(i) \in 1 .. c /\ at(rank(i)) = i
  BY <1>3, <1>5, <1>7
<1>9. Z = [p \in 1 .. c |-> B[at(p)]]
  BY DEF Sifted, I, c, above
<1> HIDE DEF at, rank, Z
<1>10. Z \in Seq(Elem) /\ Len(Z) = c /\ \A p \in 1 .. c : Z[p] = B[at(p)]
  <2>1. \A p \in 1 .. c : B[at(p)] \in Elem
    <3> TAKE p \in 1 .. c
    <3>1. at(p) \in 1 .. Len(B)
      BY <1>1, <1>7
    <3>2. QED BY <3>1
  <2>2. QED BY <1>2, <1>9, <2>1
<1>11. Distinct(Z)
  <2> SUFFICES ASSUME NEW m \in 1 .. c, NEW n \in 1 .. c,
                      GetKey[Z[m]] = GetKey[Z[n]]
               PROVE  m = n
    BY <1>10 DEF Distinct
  <2>1. at(m) = at(n)
    <3>1. at(m) \in 1 .. Len(B) /\ at(n) \in 1 .. Len(B)
      BY <1>1, <1>7
    <3>2. GetKey[B[at(m)]] = GetKey[B[at(n)]]
      BY <1>10
    <3>3. QED BY <3>1, <3>2 DEF Distinct
  <2>2. QED BY <1>7, <2>1
<1>12. ASSUME NEW x
       PROVE  x \in ToSet(Z) <=> x \in ToSet(B) /\ bucket_index(size, GetKey[x]) = j
  <2>1. ASSUME x \in ToSet(Z)
        PROVE  x \in ToSet(B) /\ bucket_index(size, GetKey[x]) = j
    <3>1. PICK p \in 1 .. c : x = B[at(p)]
      BY <1>10, <2>1, ToSetMember
    <3>2. at(p) \in I
      BY <1>7
    <3>3. QED BY <1>1, <3>1, <3>2, ToSetMember DEF I, Going
  <2>2. ASSUME x \in ToSet(B), bucket_index(size, GetKey[x]) = j
        PROVE  x \in ToSet(Z)
    <3>1. PICK i \in 1 .. Len(B) : x = B[i]
      BY <2>2, ToSetMember
    <3>2. i \in I
      BY <2>2, <3>1 DEF I, Going
    <3>3. rank(i) \in 1 .. c /\ x = Z[rank(i)]
      BY <1>8, <1>10, <3>1, <3>2
    <3>4. QED BY <1>10, <3>3, ToSetMember
  <2>3. QED BY <2>1, <2>2
<1>13. QED BY <1>10, <1>11, <1>12 DEF Z

-----------------------------------------------------------------------------
(* Tables                                                                   *)

\* What every table, also one in the middle of an operation, satisfies.
HInv(h) == Shape(h) /\ Placed(h) /\ Unique(h)

\* A bucket index is an index of its array.
LEMMA IndexRange ==
  ASSUME NEW size \in Nat, size > 0, NEW k \in Key
  PROVE  bucket_index(size, k) \in 0 .. size - 1
BY HashAssumption DEF bucket_index

\* Membership in an array and in the table, bucket by bucket.
LEMMA ElemsMember ==
  ASSUME NEW T, NEW x
  PROVE  x \in Elems(T) <=> \E j \in DOMAIN T : x \in ToSet(T[j])
BY DEF Elems

LEMMA StoredMember ==
  ASSUME NEW h, Shape(h), NEW x
  PROVE  x \in Stored(h) <=> \/ \E j \in 0 .. h.n1 - 1 : x \in ToSet(h.t1[j])
                             \/ \E j \in 0 .. h.n2 - 1 : x \in ToSet(h.t2[j])
BY ElemsMember DEF Stored, Shape

\* Fields of the record built by Table.
LEMMA TableFields ==
  ASSUME NEW t1, NEW n1, NEW t2, NEW n2, NEW used, NEW idx
  PROVE  /\ Table(t1, n1, t2, n2, used, idx).t1 = t1
         /\ Table(t1, n1, t2, n2, used, idx).n1 = n1
         /\ Table(t1, n1, t2, n2, used, idx).t2 = t2
         /\ Table(t1, n1, t2, n2, used, idx).n2 = n2
         /\ Table(t1, n1, t2, n2, used, idx).used = used
         /\ Table(t1, n1, t2, n2, used, idx).idx = idx
BY DEF Table

\* The empty arrays are arrays of empty lists.
LEMMA BucketsLemma ==
  ASSUME NEW size \in Nat
  PROVE  /\ Buckets(size) \in [0 .. size - 1 -> Seq(Elem)]
         /\ \A j \in 0 .. size - 1 :
                Buckets(size)[j] = <<>> /\ Distinct(Buckets(size)[j])
         /\ Elems(Buckets(size)) = {}
<1>1. <<>> \in Seq(Elem) /\ ToSet(<<>>) = {} /\ Distinct(<<>>)
  BY DEF ToSet, Distinct
<1>2. QED BY <1>1 DEF Buckets, Elems

\* Everything stored is an element.
LEMMA StoredElem ==
  ASSUME NEW h, Shape(h)
  PROVE  Stored(h) \subseteq Elem
<1> SUFFICES ASSUME NEW x \in Stored(h) PROVE x \in Elem
  OBVIOUS
<1>1. CASE \E j \in 0 .. h.n1 - 1 : x \in ToSet(h.t1[j])
  <2>1. PICK j \in 0 .. h.n1 - 1 : x \in ToSet(h.t1[j])
    BY <1>1
  <2>2. h.t1[j] \in Seq(Elem)
    BY DEF Shape
  <2>3. QED BY <2>1, <2>2, ToSetElem
<1>2. CASE \E j \in 0 .. h.n2 - 1 : x \in ToSet(h.t2[j])
  <2>1. PICK j \in 0 .. h.n2 - 1 : x \in ToSet(h.t2[j])
    BY <1>2
  <2>2. h.t2[j] \in Seq(Elem)
    BY DEF Shape
  <2>3. QED BY <2>1, <2>2, ToSetElem
<1>3. QED BY <1>1, <1>2, StoredMember

\* No two stored elements have the same key: two in one table share a bucket.
LEMMA OnePerKey ==
  ASSUME NEW h, HInv(h), NEW e \in Stored(h), NEW f \in Stored(h),
         GetKey[e] = GetKey[f]
  PROVE  e = f
<1>1. Shape(h)
  BY DEF HInv
<1>2. CASE e \in Elems(h.t1) /\ f \in Elems(h.t2)
  BY <1>2 DEF HInv, Unique
<1>3. CASE e \in Elems(h.t2) /\ f \in Elems(h.t1)
  BY <1>3 DEF HInv, Unique
<1>4. CASE e \in Elems(h.t1) /\ f \in Elems(h.t1)
  <2>1. PICK j \in DOMAIN h.t1 : e \in ToSet(h.t1[j])
    BY <1>4, ElemsMember
  <2>2. PICK i \in DOMAIN h.t1 : f \in ToSet(h.t1[i])
    BY <1>4, ElemsMember
  <2>3. i = j
    BY <2>1, <2>2 DEF HInv, Placed
  <2>4. h.t1[j] \in Seq(Elem) /\ Distinct(h.t1[j])
    BY <1>1 DEF Shape, HInv, Unique
  <2>5. QED BY <2>1, <2>2, <2>3, <2>4 DEF ToSet, Distinct
<1>5. CASE e \in Elems(h.t2) /\ f \in Elems(h.t2)
  <2>1. PICK j \in DOMAIN h.t2 : e \in ToSet(h.t2[j])
    BY <1>5, ElemsMember
  <2>2. PICK i \in DOMAIN h.t2 : f \in ToSet(h.t2[i])
    BY <1>5, ElemsMember
  <2>3. i = j
    BY <2>1, <2>2 DEF HInv, Placed
  <2>4. h.t2[j] \in Seq(Elem) /\ Distinct(h.t2[j])
    BY <1>1 DEF Shape, HInv, Unique
  <2>5. QED BY <2>1, <2>2, <2>3, <2>4 DEF ToSet, Distinct
<1>6. QED BY <1>2, <1>3, <1>4, <1>5 DEF Stored

\* Starting a rehash keeps the invariant and the contents.
LEMMA RehashLemma ==
  ASSUME NEW h, HInv(h)
  PROVE  /\ HInv(Rehash(h))
         /\ Stored(Rehash(h)) = Stored(h)
         /\ Rehash(h).used = h.used
<1>1. CASE ~(~InRehashing(h) /\ h.used >= h.n1)
  BY <1>1 DEF Rehash
<1>2. CASE ~InRehashing(h) /\ h.used >= h.n1
  <2> DEFINE r == Rehash(h)
  <2>1. /\ r.t1 = h.t1 /\ r.n1 = h.n1 /\ r.t2 = Buckets(2 * h.n1)
        /\ r.n2 = 2 * h.n1 /\ r.used = h.used /\ r.idx = 0
    BY <1>2, TableFields DEF Rehash
  <2>2. h.n2 = 0 /\ h.n1 \in Nat /\ h.n1 >= 4 /\ 2 * h.n1 \in Nat
    BY <1>2 DEF HInv, Shape, InRehashing, NoIndex
  <2>3. /\ r.t2 \in [0 .. r.n2 - 1 -> Seq(Elem)]
        /\ \A j \in DOMAIN r.t2 : r.t2[j] = <<>> /\ Distinct(r.t2[j])
        /\ Elems(r.t2) = {}
    BY <2>1, <2>2, BucketsLemma
  <2> HIDE DEF r
  <2>4. Shape(r)
    BY <2>1, <2>2, <2>3 DEF HInv, Shape
  <2>5. Placed(r)
    <3>1. \A j \in DOMAIN r.t1 : \A e \in ToSet(r.t1[j]) :
              bucket_index(r.n1, GetKey[e]) = j /\ (InRehashing(r) => j >= r.idx)
      <4>1. \A j \in DOMAIN r.t1 : j >= 0
        BY <2>1 DEF HInv, Shape
      <4>2. QED BY <2>1, <4>1 DEF HInv, Placed
    <3>2. \A j \in DOMAIN r.t2 : \A e \in ToSet(r.t2[j]) : FALSE
      BY <2>3 DEF Elems
    <3>3. QED BY <3>1, <3>2 DEF Placed
  <2>6. Unique(r)
    BY <2>1, <2>3 DEF HInv, Unique
  <2>7. Elems(h.t2) = {}
    BY <2>2 DEF HInv, Shape, Elems
  <2>8. QED BY <2>1, <2>3, <2>4, <2>5, <2>6, <2>7 DEF HInv, Stored, r
<1>3. QED BY <1>1, <1>2

\* One bucket moved: like HInv, but the rehash index may have reached the end.
MovedInv(m) ==
  /\ m.n1 \in Nat /\ m.n1 >= 4 /\ m.n2 = 2 * m.n1 /\ m.used \in Nat
  /\ m.t1 \in [0 .. m.n1 - 1 -> Seq(Elem)]
  /\ m.t2 \in [0 .. m.n2 - 1 -> Seq(Elem)]
  /\ m.idx \in 1 .. m.n1
  /\ Placed(m) /\ Unique(m)

\* Moving a bucket of table1 loses nothing and links nothing twice.
LEMMA MoveBucketLemma ==
  ASSUME NEW h, HInv(h), InRehashing(h)
  PROVE  /\ MovedInv(MoveBucket(h))
         /\ Stored(MoveBucket(h)) = Stored(h)
         /\ MoveBucket(h).used = h.used
<1> DEFINE m == MoveBucket(h)
           B == h.t1[h.idx]
           bi(size, e) == bucket_index(size, GetKey[e])
<1>1. /\ h.n1 \in Nat /\ h.n1 >= 4 /\ h.n2 = 2 * h.n1 /\ h.used \in Nat
      /\ h.t1 \in [0 .. h.n1 - 1 -> Seq(Elem)]
      /\ h.t2 \in [0 .. h.n2 - 1 -> Seq(Elem)]
      /\ h.idx \in 0 .. h.n1 - 1
  BY DEF HInv, Shape, InRehashing
<1>2. /\ \A j \in 0 .. h.n1 - 1 : \A e \in ToSet(h.t1[j]) :
            bi(h.n1, e) = j /\ j >= h.idx
      /\ \A j \in 0 .. h.n2 - 1 : \A e \in ToSet(h.t2[j]) : bi(h.n2, e) = j
      /\ \A j \in 0 .. h.n1 - 1 : Distinct(h.t1[j])
      /\ \A j \in 0 .. h.n2 - 1 : Distinct(h.t2[j])
      /\ \A e \in Elems(h.t1), f \in Elems(h.t2) : GetKey[e] # GetKey[f]
  BY <1>1 DEF HInv, Placed, Unique
<1>3. /\ m.t1 = [h.t1 EXCEPT ![h.idx] = <<>>]
      /\ m.n1 = h.n1 /\ m.n2 = h.n2 /\ m.used = h.used /\ m.idx = h.idx + 1
      /\ m.t2 = [j \in 0 .. h.n2 - 1 |-> Sifted(B, h.n2, j) \o h.t2[j]]
  BY TableFields DEF MoveBucket
<1> HIDE DEF m
<1>4. B \in Seq(Elem) /\ Distinct(B) /\ \A e \in ToSet(B) : bi(h.n1, e) = h.idx
  BY <1>1, <1>2
<1>5. ToSet(B) \subseteq Elems(h.t1) /\ ToSet(B) \subseteq Elem
  BY <1>1, <1>4, ElemsMember, ToSetElem
<1>6. \A j \in 0 .. h.n2 - 1 : ToSet(h.t2[j]) \subseteq Elems(h.t2)
  BY <1>1, ElemsMember
<1>7. \A e \in ToSet(B) : bi(h.n2, e) \in 0 .. h.n2 - 1
  <2> TAKE e \in ToSet(B)
  <2>1. GetKey[e] \in Key
    BY <1>5, GetKeyAssumption
  <2>2. h.n2 \in Nat /\ h.n2 > 0
    BY <1>1
  <2>3. QED BY <2>1, <2>2, IndexRange
<1> HIDE DEF B, bi
<1>8. \A j \in 0 .. h.n2 - 1 :
         /\ m.t2[j] \in Seq(Elem) /\ Distinct(m.t2[j])
         /\ ToSet(m.t2[j]) = {e \in ToSet(B) : bi(h.n2, e) = j} \cup ToSet(h.t2[j])
  <2> TAKE j \in 0 .. h.n2 - 1
  <2> DEFINE Z == Sifted(B, h.n2, j)
  <2>1. /\ Z \in Seq(Elem) /\ Distinct(Z)
        /\ ToSet(Z) = {e \in ToSet(B) : bi(h.n2, e) = j}
    BY <1>4, SiftedLemma DEF bi
  <2>2. m.t2[j] = Z \o h.t2[j]
    BY <1>3
  <2> HIDE DEF Z
  <2>3. h.t2[j] \in Seq(Elem) /\ Distinct(h.t2[j])
    BY <1>1, <1>2
  <2>4. \A e \in ToSet(Z), f \in ToSet(h.t2[j]) : GetKey[e] # GetKey[f]
    BY <1>2, <1>5, <1>6, <2>1
  <2>5. QED BY <2>1, <2>2, <2>3, <2>4, ConcatLemma
<1>9. /\ m.t1[h.idx] = <<>> /\ ToSet(<<>>) = {} /\ Distinct(<<>>) /\ <<>> \in Seq(Elem)
      /\ \A j \in 0 .. h.n1 - 1 : j # h.idx => m.t1[j] = h.t1[j]
  <2>1. ToSet(<<>>) = {} /\ Distinct(<<>>) /\ <<>> \in Seq(Elem)
    BY DEF ToSet, Distinct
  <2>2. QED BY <1>1, <1>3, <2>1
<1>10. /\ m.t1 \in [0 .. m.n1 - 1 -> Seq(Elem)]
       /\ m.t2 \in [0 .. m.n2 - 1 -> Seq(Elem)]
  <2>1. m.t1 \in [0 .. m.n1 - 1 -> Seq(Elem)]
    BY <1>1, <1>3, <1>9
  <2>2. m.t2 = [j \in 0 .. h.n2 - 1 |-> m.t2[j]]
    BY <1>3
  <2>3. m.t2 \in [0 .. m.n2 - 1 -> Seq(Elem)]
    BY <1>3, <1>8, <2>2
  <2>4. QED BY <2>1, <2>3
<1>11. Placed(m)
  <2>1. \A j \in DOMAIN m.t1 : \A e \in ToSet(m.t1[j]) :
            bi(m.n1, e) = j /\ j >= m.idx
    <3> SUFFICES ASSUME NEW j \in 0 .. h.n1 - 1, NEW e \in ToSet(m.t1[j])
                 PROVE  bi(h.n1, e) = j /\ j >= h.idx + 1
      BY <1>3, <1>10
    <3>1. j # h.idx /\ e \in ToSet(h.t1[j])
      BY <1>9
    <3>2. bi(h.n1, e) = j /\ j >= h.idx
      BY <1>2, <3>1
    <3>3. QED BY <1>1, <3>1, <3>2
  <2>2. \A j \in DOMAIN m.t2 : \A e \in ToSet(m.t2[j]) : bi(m.n2, e) = j
    <3> SUFFICES ASSUME NEW j \in 0 .. h.n2 - 1, NEW e \in ToSet(m.t2[j])
                 PROVE  bi(h.n2, e) = j
      BY <1>3
    <3>1. QED BY <1>2, <1>8
  <2>3. QED BY <2>1, <2>2 DEF Placed, bi
<1>12. ASSUME NEW x
       PROVE  x \in Elems(m.t1) <=> x \in Elems(h.t1) /\ x \notin ToSet(B)
  <2>1. ASSUME x \in Elems(m.t1) PROVE x \in Elems(h.t1) /\ x \notin ToSet(B)
    <3>1. PICK j \in 0 .. h.n1 - 1 : x \in ToSet(m.t1[j])
      BY <1>3, <1>10, <2>1, ElemsMember
    <3>2. j # h.idx /\ x \in ToSet(h.t1[j])
      BY <1>9, <3>1
    <3>3. bi(h.n1, x) = j
      BY <1>2, <3>2
    <3>4. QED BY <1>1, <1>4, <3>2, <3>3, ElemsMember
  <2>2. ASSUME x \in Elems(h.t1), x \notin ToSet(B) PROVE x \in Elems(m.t1)
    <3>1. PICK j \in 0 .. h.n1 - 1 : x \in ToSet(h.t1[j])
      BY <1>1, <2>2, ElemsMember
    <3>2. j # h.idx
      BY <2>2, <3>1 DEF B
    <3>3. QED BY <1>3, <1>9, <1>10, <3>1, <3>2, ElemsMember
  <2>3. QED BY <2>1, <2>2
<1>13. ASSUME NEW x
       PROVE  x \in Elems(m.t2) <=> x \in Elems(h.t2) \/ x \in ToSet(B)
  <2>1. ASSUME x \in Elems(m.t2) PROVE x \in Elems(h.t2) \/ x \in ToSet(B)
    <3>1. PICK j \in 0 .. h.n2 - 1 : x \in ToSet(m.t2[j])
      BY <1>3, <1>10, <2>1, ElemsMember
    <3>2. QED BY <1>6, <1>8, <3>1
  <2>2. ASSUME x \in ToSet(B) PROVE x \in Elems(m.t2)
    <3>1. x \in ToSet(m.t2[bi(h.n2, x)]) /\ bi(h.n2, x) \in 0 .. h.n2 - 1
      BY <1>7, <1>8, <2>2
    <3>2. QED BY <1>3, <1>10, <3>1, ElemsMember
  <2>3. ASSUME x \in Elems(h.t2) PROVE x \in Elems(m.t2)
    <3>1. PICK j \in 0 .. h.n2 - 1 : x \in ToSet(h.t2[j])
      BY <1>1, <2>3, ElemsMember
    <3>2. x \in ToSet(m.t2[j])
      BY <1>8, <3>1
    <3>3. QED BY <1>3, <1>10, <3>2, ElemsMember
  <2>4. QED BY <2>1, <2>2, <2>3
<1>14. Unique(m)
  <2>1. \A j \in DOMAIN m.t1 : Distinct(m.t1[j])
    BY <1>2, <1>3, <1>9, <1>10
  <2>2. \A j \in DOMAIN m.t2 : Distinct(m.t2[j])
    BY <1>3, <1>8
  <2>3. ASSUME NEW e \in Elems(m.t1), NEW f \in Elems(m.t2)
        PROVE  GetKey[e] # GetKey[f]
    <3>1. CASE f \in Elems(h.t2)
      BY <1>2, <1>12, <3>1
    <3>2. CASE f \in ToSet(B)
      <4>1. PICK j \in 0 .. h.n1 - 1 : e \in ToSet(h.t1[j])
        BY <1>1, <1>12, ElemsMember
      <4>2. j # h.idx
        BY <1>12, <4>1 DEF B
      <4>3. bi(h.n1, e) = j /\ bi(h.n1, f) = h.idx
        BY <1>2, <1>4, <3>2, <4>1
      <4>4. QED BY <4>2, <4>3 DEF bi
    <3>3. QED BY <1>13, <3>1, <3>2
  <2>4. QED BY <2>1, <2>2, <2>3 DEF Unique
<1>15. Stored(m) = Stored(h)
  <2>1. ToSet(B) \subseteq Elems(h.t1)
    BY <1>5
  <2>2. \A x : x \in Elems(m.t1) \cup Elems(m.t2) <=> x \in Elems(h.t1) \cup Elems(h.t2)
    BY <1>12, <1>13, <2>1
  <2>3. QED BY <2>2 DEF Stored
<1>16. QED BY <1>1, <1>3, <1>10, <1>11, <1>14, <1>15 DEF MovedInv, m

\* The two arrays swap once every bucket has moved.
LEMMA EndRehashLemma ==
  ASSUME NEW m, MovedInv(m), m.idx = m.n1
  PROVE  /\ HInv(EndRehash(m))
         /\ Stored(EndRehash(m)) = Stored(m)
         /\ EndRehash(m).used = m.used
<1> DEFINE r == EndRehash(m)
<1>1. /\ m.n1 \in Nat /\ m.n1 >= 4 /\ m.n2 = 2 * m.n1 /\ m.used \in Nat
      /\ m.t1 \in [0 .. m.n1 - 1 -> Seq(Elem)]
      /\ m.t2 \in [0 .. m.n2 - 1 -> Seq(Elem)]
  BY DEF MovedInv
<1>2. /\ r.t1 = m.t2 /\ r.n1 = m.n2 /\ r.t2 = Buckets(0) /\ r.n2 = 0
      /\ r.used = m.used /\ r.idx = NoIndex
  BY <1>1, TableFields DEF EndRehash
<1> HIDE DEF r
<1>3. /\ r.t2 \in [0 .. r.n2 - 1 -> Seq(Elem)] /\ DOMAIN r.t2 = {}
      /\ Elems(r.t2) = {}
  <2>1. 0 .. 0 - 1 = {}
    OBVIOUS
  <2>2. QED BY <1>2, <2>1, BucketsLemma
<1>4. Elems(m.t1) = {}
  <2> SUFFICES ASSUME NEW x \in Elems(m.t1) PROVE FALSE
    OBVIOUS
  <2>1. PICK j \in 0 .. m.n1 - 1 : x \in ToSet(m.t1[j])
    BY <1>1, ElemsMember
  <2>2. j >= m.idx
    <3>1. InRehashing(m)
      BY <1>1 DEF InRehashing, NoIndex
    <3>2. QED BY <1>1, <2>1, <3>1 DEF MovedInv, Placed
  <2>3. QED BY <1>1, <2>1, <2>2
<1>5. Shape(r)
  <2>1. r.n1 \in Nat /\ r.n1 >= 4
    BY <1>1, <1>2
  <2>2. QED BY <1>1, <1>2, <1>3, <2>1 DEF Shape
<1>6. Placed(r)
  BY <1>2, <1>3 DEF MovedInv, Placed, InRehashing
<1>7. Unique(r)
  BY <1>2, <1>3 DEF MovedInv, Unique
<1>8. Stored(r) = Stored(m)
  BY <1>2, <1>3, <1>4 DEF Stored
<1>9. QED BY <1>2, <1>5, <1>6, <1>7, <1>8 DEF HInv, r

\* IncrementalRehash keeps the invariant and the contents.
LEMMA IncrementalRehashLemma ==
  ASSUME NEW h, HInv(h)
  PROVE  /\ HInv(IncrementalRehash(h))
         /\ Stored(IncrementalRehash(h)) = Stored(h)
         /\ IncrementalRehash(h).used = h.used
<1>1. CASE ~InRehashing(h)
  BY <1>1 DEF IncrementalRehash
<1>2. CASE InRehashing(h)
  <2> DEFINE m == MoveBucket(h)
  <2>1. MovedInv(m) /\ Stored(m) = Stored(h) /\ m.used = h.used
    BY <1>2, MoveBucketLemma
  <2>2. IncrementalRehash(h) = IF m.idx = m.n1 THEN EndRehash(m) ELSE m
    BY <1>2 DEF IncrementalRehash
  <2> HIDE DEF m
  <2>3. CASE m.idx = m.n1
    BY <2>1, <2>2, <2>3, EndRehashLemma
  <2>4. CASE m.idx # m.n1
    <3>1. Shape(m)
      BY <2>1, <2>4 DEF MovedInv, Shape
    <3>2. QED BY <2>1, <2>2, <2>4, <3>1 DEF MovedInv, HInv
  <2>5. QED BY <2>3, <2>4
<1>3. QED BY <1>1, <1>2

\* The buckets of table i.
Indices(h, i) == IF i = 1 THEN 0 .. h.n1 - 1 ELSE 0 .. h.n2 - 1
Size(h, i)   == IF i = 1 THEN h.n1 ELSE h.n2

\* A list of the table is what its operations expect.
LEMMA ListLemma ==
  ASSUME NEW h, HInv(h), NEW i \in {1, 2}, NEW j \in Indices(h, i)
  PROVE  /\ List(h, i, j) \in Seq(Elem) /\ Distinct(List(h, i, j))
         /\ ToSet(List(h, i, j)) \subseteq Stored(h)
         /\ \A e \in ToSet(List(h, i, j)) : bucket_index(Size(h, i), GetKey[e]) = j
<1>1. Shape(h)
  BY DEF HInv
<1>2. CASE i = 1
  <2>1. j \in 0 .. h.n1 - 1 /\ j \in DOMAIN h.t1 /\ List(h, i, j) = h.t1[j]
    BY <1>1, <1>2 DEF Indices, List, Shape
  <2>2. h.t1[j] \in Seq(Elem) /\ Distinct(h.t1[j])
    BY <1>1, <2>1 DEF Shape, HInv, Unique
  <2>3. ToSet(h.t1[j]) \subseteq Stored(h)
    BY <1>1, <2>1, StoredMember
  <2>4. QED BY <1>2, <2>1, <2>2, <2>3 DEF HInv, Placed, Size
<1>3. CASE i = 2
  <2>1. j \in 0 .. h.n2 - 1 /\ j \in DOMAIN h.t2 /\ List(h, i, j) = h.t2[j]
    BY <1>1, <1>3 DEF Indices, List, Shape
  <2>2. h.t2[j] \in Seq(Elem) /\ Distinct(h.t2[j])
    BY <1>1, <2>1 DEF Shape, HInv, Unique
  <2>3. ToSet(h.t2[j]) \subseteq Stored(h)
    BY <1>1, <2>1, StoredMember
  <2>4. QED BY <1>3, <2>1, <2>2, <2>3 DEF HInv, Placed, Size
<1>4. QED BY <1>2, <1>3

\* One list is replaced by one whose nodes were in it, or belong in it and have
\* keys the table does not hold.
LEMMA RelinkedLemma ==
  ASSUME NEW h, HInv(h), NEW i \in {1, 2}, NEW j \in Indices(h, i),
         NEW B \in Seq(Elem), Distinct(B),
         \A e \in ToSet(B) :
            \/ e \in ToSet(List(h, i, j))
            \/ /\ bucket_index(Size(h, i), GetKey[e]) = j
               /\ i = 1 /\ InRehashing(h) => j >= h.idx
               /\ \A f \in Stored(h) : GetKey[f] # GetKey[e]
  PROVE  LET r == Relinked(h, i, j, B)
         IN  /\ HInv(r) /\ List(r, i, j) = B
             /\ Stored(r) = (Stored(h) \ ToSet(List(h, i, j))) \cup ToSet(B)
             /\ r.n1 = h.n1 /\ r.n2 = h.n2 /\ r.used = h.used /\ r.idx = h.idx
<1> DEFINE r == Relinked(h, i, j, B)
           L == List(h, i, j)
<1>1. Shape(h)
  BY DEF HInv
<1>2. \A e \in ToSet(B) : bucket_index(Size(h, i), GetKey[e]) = j
  BY ListLemma
<1>3. /\ Elems(h.t1) \subseteq Stored(h) /\ Elems(h.t2) \subseteq Stored(h)
      /\ \A n \in DOMAIN h.t1 : \A e \in ToSet(h.t1[n]) :
            bucket_index(h.n1, GetKey[e]) = n /\ (InRehashing(h) => n >= h.idx)
      /\ \A n \in DOMAIN h.t2 : \A e \in ToSet(h.t2[n]) :
            bucket_index(h.n2, GetKey[e]) = n
  BY DEF Stored, HInv, Placed
<1>4. CASE i = 1
  <2>1. /\ r.t1 = [h.t1 EXCEPT ![j] = B] /\ r.t2 = h.t2
        /\ r.n1 = h.n1 /\ r.n2 = h.n2 /\ r.used = h.used /\ r.idx = h.idx
    BY <1>4, TableFields DEF Relinked
  <2>2. L = h.t1[j] /\ j \in 0 .. h.n1 - 1 /\ DOMAIN h.t1 = 0 .. h.n1 - 1
    BY <1>1, <1>4 DEF List, Indices, Shape
  <2> HIDE DEF r, L
  <2>3. /\ DOMAIN r.t1 = 0 .. h.n1 - 1 /\ r.t1[j] = B
        /\ \A n \in 0 .. h.n1 - 1 : n # j => r.t1[n] = h.t1[n]
    BY <2>1, <2>2
  <2>4. Shape(r)
    <3>1. r.t1 \in [0 .. h.n1 - 1 -> Seq(Elem)]
      BY <1>1, <2>1, <2>2 DEF Shape
    <3>2. QED BY <1>1, <2>1, <3>1 DEF Shape
  <2>5. Placed(r)
    <3>1. ASSUME NEW n \in DOMAIN r.t1, NEW e \in ToSet(r.t1[n])
          PROVE  /\ bucket_index(r.n1, GetKey[e]) = n
                 /\ InRehashing(r) => n >= r.idx
      <4>1. n \in DOMAIN h.t1 /\ (InRehashing(r) <=> InRehashing(h))
        BY <2>1, <2>2, <2>3 DEF InRehashing
      <4>2. CASE e \in ToSet(h.t1[n])
        BY <1>3, <2>1, <4>1, <4>2
      <4>3. CASE e \notin ToSet(h.t1[n])
        <5>1. n = j /\ e \in ToSet(B)
          BY <2>2, <2>3, <3>1, <4>1, <4>3
        <5>2. QED BY <1>4, <2>1, <2>2, <4>1, <4>3, <5>1 DEF Size, L
      <4>4. QED BY <4>2, <4>3
    <3>2. QED BY <1>3, <2>1, <3>1 DEF Placed
  <2>6. ASSUME NEW x
        PROVE  x \in Elems(r.t1) <=> (x \in Elems(h.t1) /\ x \notin ToSet(L)) \/ x \in ToSet(B)
    <3>1. ASSUME x \in Elems(r.t1), x \notin ToSet(B)
          PROVE  x \in Elems(h.t1) /\ x \notin ToSet(L)
      <4>1. PICK n \in 0 .. h.n1 - 1 : x \in ToSet(r.t1[n])
        BY <2>3, <3>1, ElemsMember
      <4>2. n # j /\ x \in ToSet(h.t1[n])
        BY <2>3, <3>1, <4>1
      <4>3. x \in Elems(h.t1)
        BY <2>2, <4>2, ElemsMember
      <4>4. bucket_index(h.n1, GetKey[x]) = n
        BY <2>2, <4>2 DEF HInv, Placed
      <4>5. x \in ToSet(L) => bucket_index(h.n1, GetKey[x]) = j
        BY <2>2 DEF HInv, Placed
      <4>6. QED BY <4>2, <4>3, <4>4, <4>5
    <3>2. ASSUME x \in Elems(h.t1), x \notin ToSet(L) PROVE x \in Elems(r.t1)
      <4>1. PICK n \in 0 .. h.n1 - 1 : x \in ToSet(h.t1[n])
        BY <2>2, <3>2, ElemsMember
      <4>2. n # j
        BY <2>2, <3>2, <4>1
      <4>3. QED BY <2>3, <4>1, <4>2, ElemsMember
    <3>3. ASSUME x \in ToSet(B) PROVE x \in Elems(r.t1)
      BY <2>2, <2>3, <3>3, ElemsMember
    <3>4. QED BY <3>1, <3>2, <3>3
  <2>7. Unique(r)
    <3>1. \A n \in DOMAIN r.t1 : Distinct(r.t1[n])
      BY <2>2, <2>3 DEF HInv, Unique
    <3>2. ASSUME NEW e \in Elems(r.t1), NEW f \in Elems(r.t2)
          PROVE  GetKey[e] # GetKey[f]
      <4>1. e \in Elems(h.t1) \/ \A g \in Stored(h) : GetKey[g] # GetKey[e]
        <5>1. CASE e \in ToSet(B)
          <6>1. ToSet(L) \subseteq Elems(h.t1)
            BY <2>2, ElemsMember
          <6>2. QED BY <5>1, <6>1 DEF L
        <5>2. CASE e \notin ToSet(B)
          BY <2>6, <5>2
        <5>3. QED BY <5>1, <5>2
      <4>2. f \in Elems(h.t2) /\ f \in Stored(h)
        BY <1>3, <2>1
      <4>3. QED BY <4>1, <4>2 DEF HInv, Unique
    <3>3. QED BY <2>1, <3>1, <3>2 DEF HInv, Unique
  <2>8. Stored(r) = (Stored(h) \ ToSet(L)) \cup ToSet(B)
    <3>1. ToSet(L) \cap Elems(h.t2) = {}
      <4>1. ToSet(L) \subseteq Elems(h.t1)
        BY <2>2, ElemsMember
      <4>2. QED BY <4>1 DEF HInv, Unique
    <3>2. QED BY <2>1, <2>6, <3>1 DEF Stored
  <2>9. List(r, i, j) = B
    BY <1>4, <2>3 DEF List
  <2>10. QED BY <2>1, <2>4, <2>5, <2>7, <2>8, <2>9 DEF HInv, r, L
<1>5. CASE i = 2
  <2>1. /\ r.t2 = [h.t2 EXCEPT ![j] = B] /\ r.t1 = h.t1
        /\ r.n1 = h.n1 /\ r.n2 = h.n2 /\ r.used = h.used /\ r.idx = h.idx
    BY <1>5, TableFields DEF Relinked
  <2>2. L = h.t2[j] /\ j \in 0 .. h.n2 - 1 /\ DOMAIN h.t2 = 0 .. h.n2 - 1
    BY <1>1, <1>5 DEF List, Indices, Shape
  <2> HIDE DEF r, L
  <2>3. /\ DOMAIN r.t2 = 0 .. h.n2 - 1 /\ r.t2[j] = B
        /\ \A n \in 0 .. h.n2 - 1 : n # j => r.t2[n] = h.t2[n]
    BY <2>1, <2>2
  <2>4. Shape(r)
    <3>1. r.t2 \in [0 .. h.n2 - 1 -> Seq(Elem)]
      BY <1>1, <2>1, <2>2 DEF Shape
    <3>2. QED BY <1>1, <2>1, <3>1 DEF Shape
  <2>5. Placed(r)
    <3>1. ASSUME NEW n \in DOMAIN r.t2, NEW e \in ToSet(r.t2[n])
          PROVE  bucket_index(r.n2, GetKey[e]) = n
      <4>1. CASE n # j
        <5>1. n \in DOMAIN h.t2 /\ e \in ToSet(h.t2[n])
          BY <2>2, <2>3, <3>1, <4>1
        <5>2. bucket_index(h.n2, GetKey[e]) = n
          BY <5>1 DEF HInv, Placed
        <5>3. QED BY <2>1, <5>2
      <4>2. CASE n = j
        BY <1>2, <1>5, <2>1, <2>3, <4>2 DEF Size
      <4>3. QED BY <4>1, <4>2
    <3>2. \A n \in DOMAIN r.t1 : \A e \in ToSet(r.t1[n]) :
              bucket_index(r.n1, GetKey[e]) = n /\ (InRehashing(r) => n >= r.idx)
      <4>1. InRehashing(r) <=> InRehashing(h)
        BY <2>1 DEF InRehashing
      <4>2. QED BY <1>3, <2>1, <4>1
    <3>3. QED BY <3>1, <3>2 DEF Placed
  <2>6. ASSUME NEW x
        PROVE  x \in Elems(r.t2) <=> (x \in Elems(h.t2) /\ x \notin ToSet(L)) \/ x \in ToSet(B)
    <3>1. ASSUME x \in Elems(r.t2), x \notin ToSet(B)
          PROVE  x \in Elems(h.t2) /\ x \notin ToSet(L)
      <4>1. PICK n \in 0 .. h.n2 - 1 : x \in ToSet(r.t2[n])
        BY <2>3, <3>1, ElemsMember
      <4>2. n # j /\ x \in ToSet(h.t2[n])
        BY <2>3, <3>1, <4>1
      <4>3. x \in Elems(h.t2)
        BY <2>2, <4>2, ElemsMember
      <4>4. bucket_index(h.n2, GetKey[x]) = n
        BY <2>2, <4>2 DEF HInv, Placed
      <4>5. x \in ToSet(L) => bucket_index(h.n2, GetKey[x]) = j
        BY <2>2 DEF HInv, Placed
      <4>6. QED BY <4>2, <4>3, <4>4, <4>5
    <3>2. ASSUME x \in Elems(h.t2), x \notin ToSet(L) PROVE x \in Elems(r.t2)
      <4>1. PICK n \in 0 .. h.n2 - 1 : x \in ToSet(h.t2[n])
        BY <2>2, <3>2, ElemsMember
      <4>2. n # j
        BY <2>2, <3>2, <4>1
      <4>3. QED BY <2>3, <4>1, <4>2, ElemsMember
    <3>3. ASSUME x \in ToSet(B) PROVE x \in Elems(r.t2)
      BY <2>2, <2>3, <3>3, ElemsMember
    <3>4. QED BY <3>1, <3>2, <3>3
  <2>7. Unique(r)
    <3>1. \A n \in DOMAIN r.t2 : Distinct(r.t2[n])
      BY <2>2, <2>3 DEF HInv, Unique
    <3>2. ASSUME NEW e \in Elems(r.t1), NEW f \in Elems(r.t2)
          PROVE  GetKey[e] # GetKey[f]
      <4>1. f \in Elems(h.t2) \/ \A g \in Stored(h) : GetKey[g] # GetKey[f]
        <5>1. CASE f \in ToSet(B)
          <6>1. ToSet(L) \subseteq Elems(h.t2)
            BY <2>2, ElemsMember
          <6>2. QED BY <5>1, <6>1 DEF L
        <5>2. CASE f \notin ToSet(B)
          BY <2>6, <5>2
        <5>3. QED BY <5>1, <5>2
      <4>2. e \in Elems(h.t1) /\ e \in Stored(h)
        BY <1>3, <2>1
      <4>3. QED BY <4>1, <4>2 DEF HInv, Unique
    <3>3. QED BY <2>1, <3>1, <3>2 DEF HInv, Unique
  <2>8. Stored(r) = (Stored(h) \ ToSet(L)) \cup ToSet(B)
    <3>1. ToSet(L) \cap Elems(h.t1) = {}
      <4>1. ToSet(L) \subseteq Elems(h.t2)
        BY <2>2, ElemsMember
      <4>2. QED BY <4>1 DEF HInv, Unique
    <3>2. QED BY <2>1, <2>6, <3>1 DEF Stored
  <2>9. List(r, i, j) = B
    BY <1>5, <2>3 DEF List
  <2>10. QED BY <2>1, <2>4, <2>5, <2>7, <2>8, <2>9 DEF HInv, r, L
<1>6. QED BY <1>4, <1>5

-----------------------------------------------------------------------------
(* Lookups                                                                  *)

\* The smallest of some indices exists.
LEMMA LowestLemma ==
  ASSUME NEW S, S \subseteq Nat, S # {}
  PROVE  Lowest(S) \in S /\ \A i \in S : Lowest(S) <= i
<1> DEFINE R == {ss \in Nat \X Nat : ss[1] < ss[2]}
<1>0. IsWellFoundedOn(R, Nat)
  BY NatLessThanWellFounded, Zenon DEF OpToRel
<1>1. PICK x \in S : \A y \in S : ~(<<y, x>> \in R)
  <2> HIDE DEF R
  <2>1. QED BY <1>0, WFMin
<1>2. \A y \in S : x <= y
  <2> TAKE y \in S
  <2>1. x \in Nat /\ y \in Nat
    OBVIOUS
  <2>2. ~(y < x)
    <3>1. y < x => <<y, x>> \in R
      BY <2>1
    <3>2. QED BY <1>1, <3>1
  <2>3. QED BY <2>1, <2>2
<1>3. QED BY <1>1, <1>2 DEF Lowest

\* The buckets of a key in the tables in use.
LEMMA BucketLemma ==
  ASSUME NEW h, HInv(h), NEW i \in TablesInUse(h), NEW k \in Key
  PROVE  /\ i \in {1, 2} /\ Index(h, i, k) \in Indices(h, i)
         /\ Index(h, i, k) = bucket_index(Size(h, i), k)
         /\ Bucket(h, i, k) = List(h, i, Index(h, i, k))
         /\ Bucket(h, i, k) \in Seq(Elem) /\ Distinct(Bucket(h, i, k))
         /\ ToSet(Bucket(h, i, k)) \subseteq Stored(h)
<1>1. i \in {1, 2} /\ (i = 2 => InRehashing(h))
  BY DEF TablesInUse
<1>2. Size(h, i) \in Nat /\ Size(h, i) > 0
  BY <1>1 DEF HInv, Shape, Size, InRehashing
<1>3. bucket_index(Size(h, i), k) \in 0 .. Size(h, i) - 1
  BY <1>2, IndexRange
<1>4. Index(h, i, k) = bucket_index(Size(h, i), k)
  BY DEF Index, Size
<1>5. Index(h, i, k) \in Indices(h, i)
  BY <1>3, <1>4 DEF Indices, Size
<1>6. QED BY <1>1, <1>4, <1>5, ListLemma DEF Bucket

\* A stored element is in one of the buckets of its key.
LEMMA Homes ==
  ASSUME NEW h, HInv(h), NEW x \in Stored(h)
  PROVE  \E i \in TablesInUse(h) : x \in ToSet(Bucket(h, i, GetKey[x]))
<1>1. Shape(h)
  BY DEF HInv
<1>2. CASE \E j \in 0 .. h.n1 - 1 : x \in ToSet(h.t1[j])
  <2>1. PICK j \in 0 .. h.n1 - 1 : x \in ToSet(h.t1[j])
    BY <1>2
  <2>2. bucket_index(h.n1, GetKey[x]) = j
    BY <1>1, <2>1 DEF HInv, Placed, Shape
  <2>3. Bucket(h, 1, GetKey[x]) = h.t1[j]
    BY <2>2 DEF Bucket, List, Index
  <2>4. QED BY <2>1, <2>3 DEF TablesInUse
<1>3. CASE \E j \in 0 .. h.n2 - 1 : x \in ToSet(h.t2[j])
  <2>1. PICK j \in 0 .. h.n2 - 1 : x \in ToSet(h.t2[j])
    BY <1>3
  <2>2. bucket_index(h.n2, GetKey[x]) = j
    BY <1>1, <2>1 DEF HInv, Placed, Shape
  <2>3. Bucket(h, 2, GetKey[x]) = h.t2[j]
    BY <2>2 DEF Bucket, List, Index
  <2>4. InRehashing(h)
    BY <1>1, <2>1 DEF Shape, InRehashing, NoIndex
  <2>5. QED BY <2>1, <2>3, <2>4 DEF TablesInUse
<1>4. QED BY <1>1, <1>2, <1>3, StoredMember

\* No element is in both tables.
LEMMA OneTable ==
  ASSUME NEW h, HInv(h), NEW k \in Key,
         NEW i \in TablesInUse(h), NEW n \in TablesInUse(h),
         NEW x, x \in ToSet(Bucket(h, i, k)), x \in ToSet(Bucket(h, n, k))
  PROVE  i = n
<1>1. ASSUME NEW m \in TablesInUse(h), x \in ToSet(Bucket(h, m, k))
      PROVE  m \in {1, 2} /\ (m = 1 => x \in Elems(h.t1)) /\ (m = 2 => x \in Elems(h.t2))
  <2>1. m \in {1, 2} /\ Index(h, m, k) \in Indices(h, m)
    BY BucketLemma
  <2>2. DOMAIN h.t1 = 0 .. h.n1 - 1 /\ DOMAIN h.t2 = 0 .. h.n2 - 1
    BY DEF HInv, Shape
  <2>3. x \in ToSet(List(h, m, Index(h, m, k)))
    BY <1>1, BucketLemma
  <2>4. CASE m = 1
    <3>1. Index(h, m, k) \in DOMAIN h.t1 /\ x \in ToSet(h.t1[Index(h, m, k)])
      BY <2>1, <2>2, <2>3, <2>4 DEF List, Indices
    <3>2. QED BY <2>4, <3>1, ElemsMember
  <2>5. CASE m = 2
    <3>1. Index(h, m, k) \in DOMAIN h.t2 /\ x \in ToSet(h.t2[Index(h, m, k)])
      BY <2>1, <2>2, <2>3, <2>5 DEF List, Indices
    <3>2. QED BY <2>5, <3>1, ElemsMember
  <2>6. QED BY <2>1, <2>4, <2>5
<1>2. ~(x \in Elems(h.t1) /\ x \in Elems(h.t2))
  BY DEF HInv, Unique
<1>3. QED BY <1>1, <1>2

\* The elements of S whose key is k: none or one, for a set with unique keys.
WithKey(S, k) == {e \in S : GetKey[e] = k}

\* A search of enough tables finds the key wherever it is, and nothing else.
LEMMA FirstWithLemma ==
  ASSUME NEW h, HInv(h), NEW k \in Key, NEW tables, tables \subseteq TablesInUse(h),
         \A i \in TablesInUse(h) \ tables :
             \A x \in ToSet(Bucket(h, i, k)) : GetKey[x] # k
  PROVE  LET i == FirstWith(h, tables, k)
         IN  \/ i = 0 /\ WithKey(Stored(h), k) = {}
             \/ /\ i # 0 /\ i \in tables /\ i \in TablesInUse(h)
                /\ Search(Bucket(h, i, k), k) # 0
                /\ Node(h, i, k) \in ToSet(Bucket(h, i, k))
                /\ WithKey(Stored(h), k) = {Node(h, i, k)}
<1> DEFINE having == {i \in tables : Search(Bucket(h, i, k), k) # 0}
           f == FirstWith(h, tables, k)
<1>1. f = IF having = {} THEN 0 ELSE Lowest(having)
  BY DEF FirstWith
<1>2. CASE having = {}
  <2>1. ASSUME NEW x \in Stored(h), GetKey[x] = k PROVE FALSE
    <3>1. PICK i \in TablesInUse(h) : x \in ToSet(Bucket(h, i, k))
      BY <2>1, Homes
    <3>2. i \in tables
      BY <2>1, <3>1
    <3>3. Search(Bucket(h, i, k), k) = 0
      BY <1>2, <3>2
    <3>4. Bucket(h, i, k) \in Seq(Elem) /\ Distinct(Bucket(h, i, k))
      BY BucketLemma
    <3>5. QED BY <2>1, <3>1, <3>3, <3>4, SearchLemma
  <2>2. QED BY <1>1, <1>2, <2>1 DEF WithKey
<1>3. CASE having # {}
  <2>1. having \subseteq Nat
    <3>1. TablesInUse(h) \subseteq Nat
      BY DEF TablesInUse
    <3>2. QED BY <3>1
  <2>2. f \in having
    BY <1>1, <1>3, <2>1, LowestLemma
  <2>3. f \in TablesInUse(h) /\ f \in tables /\ Search(Bucket(h, f, k), k) # 0
    BY <2>2
  <2>4. f # 0
    BY <2>3 DEF TablesInUse
  <2> HIDE DEF f, having
  <2>5. /\ Bucket(h, f, k) \in Seq(Elem) /\ Distinct(Bucket(h, f, k))
        /\ ToSet(Bucket(h, f, k)) \subseteq Stored(h)
    BY <2>3, BucketLemma
  <2>6. /\ Node(h, f, k) \in ToSet(Bucket(h, f, k)) /\ GetKey[Node(h, f, k)] = k
    BY <2>3, <2>5, SearchLemma DEF Node
  <2>7. WithKey(Stored(h), k) = {Node(h, f, k)}
    BY <2>5, <2>6, OnePerKey DEF WithKey
  <2>8. QED BY <2>3, <2>4, <2>6, <2>7 DEF f
<1>4. QED BY <1>2, <1>3

\* Both kinds of calls search enough tables: below the rehash index table1 has
\* nothing left.
LEMMA LookupLemma ==
  ASSUME NEW h, HInv(h), NEW k \in Key, NEW tables,
         tables = TablesInUse(h) \/ tables = InsertTables(h, k)
  PROVE  LET i == FirstWith(h, tables, k)
         IN  \/ i = 0 /\ WithKey(Stored(h), k) = {}
             \/ /\ i # 0 /\ i \in tables /\ i \in TablesInUse(h)
                /\ Search(Bucket(h, i, k), k) # 0
                /\ Node(h, i, k) \in ToSet(Bucket(h, i, k))
                /\ WithKey(Stored(h), k) = {Node(h, i, k)}
<1>1. tables \subseteq TablesInUse(h)
  BY DEF InsertTables, TablesInUse
<1>2. ASSUME NEW i \in TablesInUse(h) \ tables, NEW x \in ToSet(Bucket(h, i, k))
      PROVE  GetKey[x] # k
  <2>1. i = 1 /\ InRehashing(h) /\ h.idx > bucket_index(h.n1, k)
    BY <1>2 DEF InsertTables, TablesInUse
  <2>2. Index(h, 1, k) \in 0 .. h.n1 - 1 /\ Index(h, 1, k) = bucket_index(h.n1, k)
    BY <2>1, BucketLemma DEF Indices, Size
  <2>3. x \in ToSet(h.t1[bucket_index(h.n1, k)])
    BY <2>1, <2>2 DEF Bucket, List
  <2>4. bucket_index(h.n1, k) \in DOMAIN h.t1
    BY <2>2 DEF HInv, Shape
  <2>5. bucket_index(h.n1, k) >= h.idx
    BY <2>1, <2>3, <2>4 DEF HInv, Placed
  <2>6. h.idx \in Int /\ bucket_index(h.n1, k) \in Int
    BY <2>1, <2>2 DEF HInv, Shape, InRehashing
  <2>7. QED BY <2>1, <2>5, <2>6
<1>3. QED BY <1>1, <1>2, FirstWithLemma

-----------------------------------------------------------------------------
(* The specification                                                        *)

\* What a Find just returned is still stored, at the front of the first list
\* that has its key: EraseAfterFindSlot drops that list's header.
FindCurrent ==
    ret.op = "Find" =>
        /\ ret.ok = (ret.out # {})
        /\ \A e \in ret.out :
              LET k == GetKey[e]
                  i == FirstWith(ht, TablesInUse(ht), k)
              IN  /\ ret.out = {e} /\ e \in Stored(ht)
                  /\ i \in TablesInUse(ht)
                  /\ Bucket(ht, i, k) # <<>> /\ Bucket(ht, i, k)[1] = e

\* The inductive invariant.
Inv == /\ HInv(ht) /\ IsFiniteSet(Stored(ht)) /\ SizeCounts
       /\ ret \in Answers /\ lost \in Nat /\ FindCurrent

\* Counting changes nothing else.
LEMMA CountedLemma ==
  ASSUME NEW h, HInv(h), NEW d, h.used + d \in Nat
  PROVE  /\ HInv(Counted(h, d)) /\ Stored(Counted(h, d)) = Stored(h)
         /\ Counted(h, d).used = h.used + d
<1> DEFINE r == Counted(h, d)
<1>1. /\ r.t1 = h.t1 /\ r.n1 = h.n1 /\ r.t2 = h.t2 /\ r.n2 = h.n2
      /\ r.used = h.used + d /\ r.idx = h.idx
  BY TableFields DEF Counted
<1> HIDE DEF r
<1>2. Shape(r)
  BY <1>1 DEF HInv, Shape
<1>3. Placed(r) /\ Unique(r)
  BY <1>1 DEF HInv, Placed, Unique, InRehashing
<1>4. Stored(r) = Stored(h)
  BY <1>1 DEF Stored
<1>5. QED BY <1>1, <1>2, <1>3, <1>4 DEF HInv, r

\* The empty table.
LEMMA EmptyLemma ==
  ASSUME NEW h, h = Table(Buckets(4), 4, Buckets(0), 0, 0, NoIndex)
  PROVE  HInv(h) /\ Stored(h) = {} /\ h.used = 0
<1>1. /\ h.t1 = Buckets(4) /\ h.n1 = 4 /\ h.t2 = Buckets(0) /\ h.n2 = 0
      /\ h.used = 0 /\ h.idx = NoIndex
  BY TableFields
<1>2. /\ h.t1 \in [0 .. 4 - 1 -> Seq(Elem)] /\ Elems(h.t1) = {}
      /\ \A j \in DOMAIN h.t1 : Distinct(h.t1[j])
  <2>1. 4 \in Nat
    OBVIOUS
  <2>2. QED BY <1>1, <2>1, BucketsLemma
<1>3. /\ h.t2 \in [0 .. 0 - 1 -> Seq(Elem)] /\ Elems(h.t2) = {}
      /\ \A j \in DOMAIN h.t2 : Distinct(h.t2[j])
  <2>1. 0 \in Nat
    OBVIOUS
  <2>2. QED BY <1>1, <2>1, BucketsLemma
<1>4. Shape(h)
  <2>1. h.n1 \in Nat /\ h.n1 >= 4 /\ h.n2 \in Nat /\ h.used \in Nat
    BY <1>1
  <2>2. h.t1 \in [0 .. h.n1 - 1 -> Seq(Elem)] /\ h.t2 \in [0 .. h.n2 - 1 -> Seq(Elem)]
    BY <1>1, <1>2, <1>3, Zenon
  <2>3. QED BY <1>1, <2>1, <2>2 DEF Shape
<1>5. Placed(h)
  <2>1. \A j \in DOMAIN h.t1 : \A e \in ToSet(h.t1[j]) : FALSE
    BY <1>2, ElemsMember
  <2>2. \A j \in DOMAIN h.t2 : \A e \in ToSet(h.t2[j]) : FALSE
    BY <1>3, ElemsMember
  <2>3. QED BY <2>1, <2>2 DEF Placed
<1>6. Unique(h)
  BY <1>2, <1>3 DEF Unique
<1>7. QED BY <1>1, <1>2, <1>3, <1>4, <1>5, <1>6 DEF HInv, Stored

\* The initial state satisfies the invariant and is the empty set.
LEMMA InitInv == Init => Inv /\ KS!Init
<1> SUFFICES ASSUME Init PROVE Inv /\ KS!Init
  OBVIOUS
<1>1. HInv(ht) /\ Stored(ht) = {} /\ ht.used = 0 /\ lost = 0
  BY EmptyLemma DEF Init, Empty
<1>2. ret = Answer("none", FALSE, {})
  BY DEF Init
<1>3. IsFiniteSet(Stored(ht)) /\ SizeCounts
  BY <1>1, FS_EmptySet DEF SizeCounts
<1>4. ret \in Answers /\ FindCurrent
  BY <1>2 DEF Answers, Answer, FindCurrent
<1>5. QED BY <1>1, <1>2, <1>3, <1>4 DEF Inv, KS!Init, KS!Answer, Answer

\* An operation that keeps the contents and the count.
LEMMA Keeping ==
  ASSUME Inv, HInv(ht'), Stored(ht') = Stored(ht), ht'.used = ht.used,
         lost' = lost, ret' \in Answers, FindCurrent'
  PROVE  Inv'
<1>1. SizeCounts'
  BY DEF Inv, SizeCounts
<1>2. QED BY <1>1 DEF Inv

\* One element more, counted.
LEMMA Growing ==
  ASSUME Inv, NEW e, e \notin Stored(ht),
         HInv(ht'), Stored(ht') = Stored(ht) \cup {e}, ht'.used = ht.used + 1,
         lost' = lost, ret' \in Answers, FindCurrent'
  PROVE  Inv'
<1> DEFINE S == Stored(ht)
<1>1. IsFiniteSet(S) /\ ht.used = Cardinality(S) + lost /\ lost \in Nat
  BY DEF Inv, SizeCounts
<1>2. IsFiniteSet(S \cup {e}) /\ Cardinality(S \cup {e}) = Cardinality(S) + 1
      /\ Cardinality(S) \in Nat
  BY <1>1, FS_AddElement, FS_CardinalityType
<1> HIDE DEF S
<1>3. ht'.used = Cardinality(S \cup {e}) + lost'
  BY <1>1, <1>2
<1>4. QED BY <1>1, <1>2, <1>3 DEF Inv, SizeCounts, S

\* One element less, counted off or lost.
LEMMA Shrinking ==
  ASSUME Inv, NEW e \in Stored(ht),
         HInv(ht'), Stored(ht') = Stored(ht) \ {e},
         \/ ht'.used = ht.used - 1 /\ lost' = lost
         \/ ht'.used = ht.used /\ lost' = lost + 1,
         ret' \in Answers, FindCurrent'
  PROVE  Inv'
<1> DEFINE S == Stored(ht)
<1>1. IsFiniteSet(S) /\ ht.used = Cardinality(S) + lost /\ lost \in Nat
  BY DEF Inv, SizeCounts
<1>2. IsFiniteSet(S \ {e}) /\ Cardinality(S \ {e}) = Cardinality(S) - 1
      /\ Cardinality(S) \in Nat
  BY <1>1, FS_RemoveElement, FS_CardinalityType
<1> HIDE DEF S
<1>3. ht'.used = Cardinality(S \ {e}) + lost' /\ lost' \in Nat
  BY <1>1, <1>2
<1>4. QED BY <1>1, <1>2, <1>3 DEF Inv, SizeCounts, S

\* Taking a stored element out: used is at least one.
LEMMA UsedPositive ==
  ASSUME Inv, Stored(ht) # {}
  PROVE  ht.used + (-1) \in Nat /\ ht.used + (-1) = ht.used - 1
<1> DEFINE S == Stored(ht)
<1>1. IsFiniteSet(S) /\ ht.used = Cardinality(S) + lost /\ lost \in Nat
  BY DEF Inv, SizeCounts
<1>2. Cardinality(S) \in Nat /\ Cardinality(S) # 0
  BY <1>1, FS_EmptySet, FS_CardinalityType
<1> HIDE DEF S
<1>3. QED BY <1>1, <1>2

\* What an insertion of e answered, and made of table t
InsertedInto(t, e, r) ==
    LET W == WithKey(Stored(t), GetKey[e])
    IN  /\ HInv(r.h)
        /\ \/ /\ W = {} /\ r.ok = TRUE /\ r.out = {e}
              /\ Stored(r.h) = Stored(t) \cup {e} /\ r.h.used = t.used + 1
           \/ /\ W # {} /\ r.ok = FALSE /\ r.out = W
              /\ Stored(r.h) = Stored(t) /\ r.h.used = t.used

\* Insertion: the duplicate check is complete, and the new node is linked where
\* a lookup will find it.
LEMMA InsertedLemma ==
  ASSUME NEW t, HInv(t), NEW e \in Elem
  PROVE  InsertedInto(t, e, Inserted(t, e))
<1> DEFINE h == IncrementalRehash(Rehash(t))
           k == GetKey[e]
           tables == InsertTables(h, k)
           dup == FirstWith(h, tables, k)
           own == IF 2 \in tables THEN 2 ELSE 1
           B == Bucket(h, own, k)
           r == Relinked(h, own, Index(h, own, k), <<e>> \o B)
           W == WithKey(Stored(t), k)
           ins == Inserted(t, e)
<1>1. HInv(h) /\ Stored(h) = Stored(t) /\ h.used = t.used
  BY RehashLemma, IncrementalRehashLemma
<1>2. k \in Key
  BY GetKeyAssumption
<1>3. /\ ins.h = IF dup = 0 THEN Counted(r, 1) ELSE h
      /\ ins.ok = (dup = 0)
      /\ ins.out = IF dup = 0 THEN {e} ELSE {Node(h, dup, k)}
  <2>1. CASE dup = 0
    BY <2>1 DEF Inserted
  <2>2. CASE dup # 0
    BY <2>2 DEF Inserted
  <2>3. QED BY <2>1, <2>2
<1> HIDE DEF h, k, ins
<1>4. \/ dup = 0 /\ W = {}
      \/ dup # 0 /\ W = {Node(h, dup, k)}
  BY <1>1, <1>2, LookupLemma
<1>5. CASE dup = 0
  <2>1. \A f \in Stored(h) : GetKey[f] # k
    BY <1>1, <1>4, <1>5 DEF WithKey
  <2>2. own \in TablesInUse(h) /\ (own = 1 => ~InRehashing(h))
    BY DEF InsertTables, TablesInUse
  <2> HIDE DEF own, tables, dup
  <2>3. /\ own \in {1, 2} /\ Index(h, own, k) \in Indices(h, own)
        /\ Index(h, own, k) = bucket_index(Size(h, own), k)
        /\ B = List(h, own, Index(h, own, k))
        /\ B \in Seq(Elem) /\ Distinct(B) /\ ToSet(B) \subseteq Stored(h)
    BY <1>1, <1>2, <2>2, BucketLemma
  <2> HIDE DEF B
  <2>4. /\ <<e>> \o B \in Seq(Elem) /\ Distinct(<<e>> \o B)
        /\ ToSet(<<e>> \o B) = ToSet(B) \cup {e}
    <3>1. \A f \in ToSet(B) : GetKey[f] # GetKey[e]
      BY <2>1, <2>3 DEF k
    <3>2. QED BY <2>3, <3>1, ConsLemma
  <2> DEFINE N == <<e>> \o B
             j == Index(h, own, k)
  <2> HIDE DEF N, j
  <2>5. /\ HInv(r) /\ Stored(r) = (Stored(h) \ ToSet(B)) \cup ToSet(N)
        /\ r.used = h.used
    <3>1. \A f \in ToSet(N) :
            \/ f \in ToSet(List(h, own, j))
            \/ /\ bucket_index(Size(h, own), GetKey[f]) = j
               /\ own = 1 /\ InRehashing(h) => j >= h.idx
               /\ \A g \in Stored(h) : GetKey[g] # GetKey[f]
      BY <2>1, <2>2, <2>3, <2>4 DEF N, j, k
    <3>2. /\ own \in {1, 2} /\ j \in Indices(h, own) /\ B = List(h, own, j)
          /\ N \in Seq(Elem) /\ Distinct(N)
      BY <2>3, <2>4 DEF N, j
    <3>3. /\ HInv(Relinked(h, own, j, N)) /\ Relinked(h, own, j, N).used = h.used
          /\ Stored(Relinked(h, own, j, N))
                = (Stored(h) \ ToSet(List(h, own, j))) \cup ToSet(N)
      BY <1>1, <3>1, <3>2, RelinkedLemma
    <3>4. QED BY <3>2, <3>3 DEF N, j
  <2> HIDE DEF r
  <2>6. Stored(r) = Stored(t) \cup {e}
    BY <1>1, <2>3, <2>4, <2>5 DEF N
  <2>7. h.used + 1 \in Nat
    BY <1>1 DEF HInv, Shape
  <2>8. ins.h = Counted(r, 1) /\ ins.ok = TRUE /\ ins.out = {e} /\ W = {}
    BY <1>3, <1>4, <1>5 DEF dup, tables
  <2>9. HInv(ins.h) /\ Stored(ins.h) = Stored(t) \cup {e} /\ ins.h.used = t.used + 1
    BY <1>1, <2>5, <2>6, <2>7, <2>8, CountedLemma
  <2>10. QED BY <2>8, <2>9 DEF InsertedInto, ins, k
<1>6. CASE dup # 0
  <2>1. ins.h = h /\ ins.ok = FALSE /\ ins.out = W /\ W # {}
    BY <1>3, <1>4, <1>6
  <2>2. QED BY <1>1, <2>1 DEF InsertedInto, ins, k
<1>7. QED BY <1>5, <1>6

\* Insertion: the duplicate check is complete, and the new node is linked where
\* a lookup will find it.
LEMMA InsertStep ==
  ASSUME Inv, NEW e \in Elem, Insert(e)
  PROVE  Inv' /\ KS!Insert(e)
<1> DEFINE r == Inserted(ht, e)
           W == WithKey(Stored(ht), GetKey[e])
<1>1. ht' = r.h /\ ret' = Answer("Insert", r.ok, r.out) /\ lost' = lost
  BY DEF Insert
<1>2. InsertedInto(ht, e, r)
  BY InsertedLemma DEF Inv
<1> HIDE DEF r
<1>3. W = KS!WithKey(Stored(ht), GetKey[e]) /\ W \subseteq Elem
  BY StoredElem DEF WithKey, KS!WithKey, Inv, HInv
<1>4. CASE W = {}
  <2>1. /\ HInv(ht') /\ Stored(ht') = Stored(ht) \cup {e} /\ ht'.used = ht.used + 1
        /\ ret' = Answer("Insert", TRUE, {e})
    BY <1>1, <1>2, <1>4 DEF InsertedInto
  <2>2. ret' \in Answers /\ FindCurrent'
    BY <2>1 DEF Answers, Answer, FindCurrent
  <2>3. e \notin Stored(ht)
    BY <1>4 DEF WithKey
  <2>4. Inv'
    BY <1>1, <2>1, <2>2, <2>3, Growing
  <2>5. QED BY <1>3, <1>4, <2>1, <2>4 DEF KS!Insert, KS!Answer, Answer
<1>5. CASE W # {}
  <2>1. /\ HInv(ht') /\ Stored(ht') = Stored(ht) /\ ht'.used = ht.used
        /\ ret' = Answer("Insert", FALSE, W)
    BY <1>1, <1>2, <1>5 DEF InsertedInto
  <2>2. ret' \in Answers /\ FindCurrent'
    BY <1>3, <2>1 DEF Answers, Answer, FindCurrent
  <2>3. Inv'
    BY <1>1, <2>1, <2>2, Keeping
  <2>4. QED BY <1>3, <1>5, <2>1, <2>3 DEF KS!Insert, KS!Answer, Answer
<1>6. QED BY <1>4, <1>5

\* Clear empties the table.
LEMMA ClearStep ==
  ASSUME Inv, Clear
  PROVE  Inv' /\ KS!Clear
<1>1. (ht.t2 = Buckets(0) /\ ht.n2 = 0) \/ InRehashing(ht)
  <2> SUFFICES ASSUME ~InRehashing(ht) PROVE ht.t2 = Buckets(0) /\ ht.n2 = 0
    OBVIOUS
  <2>1. ht.n2 = 0
    BY DEF Inv, HInv, Shape, InRehashing, NoIndex
  <2>2. 0 .. 0 - 1 = {}
    OBVIOUS
  <2>3. ht.t2 = [j \in {} |-> <<>>] /\ Buckets(0) = [j \in {} |-> <<>>]
    BY <2>1, <2>2 DEF Inv, HInv, Shape, Buckets
  <2>4. QED BY <2>1, <2>3
<1>2. ht' = Table(Buckets(4), 4, Buckets(0), 0, 0, NoIndex)
  BY <1>1 DEF Clear
<1>3. HInv(ht') /\ Stored(ht') = {} /\ ht'.used = 0
  BY <1>2, EmptyLemma
<1>4. ret' = Answer("Clear", TRUE, {}) /\ lost' = 0
  BY DEF Clear
<1>5. ret' \in Answers /\ FindCurrent'
  BY <1>4 DEF Answers, Answer, FindCurrent
<1>6. IsFiniteSet(Stored(ht')) /\ SizeCounts'
  BY <1>3, <1>4, FS_EmptySet DEF SizeCounts
<1>7. QED BY <1>3, <1>4, <1>5, <1>6 DEF Inv, KS!Clear, KS!Answer, Answer

\* What every operation that looks a key up and relinks its list relies on.
LEMMA FoundLemma ==
  ASSUME NEW h, HInv(h), NEW k \in Key, FirstWith(h, TablesInUse(h), k) # 0
  PROVE  LET i == FirstWith(h, TablesInUse(h), k)
             B == Bucket(h, i, k)
             x == Node(h, i, k)
         IN  /\ i \in TablesInUse(h) /\ i \in {1, 2}
             /\ Index(h, i, k) \in Indices(h, i)
             /\ B = List(h, i, Index(h, i, k))
             /\ B \in Seq(Elem) /\ Distinct(B) /\ Search(B, k) # 0
             /\ ToSet(B) \subseteq Stored(h)
             /\ x = B[Search(B, k)] /\ x \in ToSet(B) /\ x \in Stored(h)
             /\ WithKey(Stored(h), k) = {x} /\ GetKey[x] = k
<1> DEFINE i == FirstWith(h, TablesInUse(h), k)
<1>1. /\ i \in TablesInUse(h) /\ Search(Bucket(h, i, k), k) # 0
      /\ Node(h, i, k) \in ToSet(Bucket(h, i, k))
      /\ WithKey(Stored(h), k) = {Node(h, i, k)}
  BY LookupLemma
<1> HIDE DEF i
<1>2. /\ i \in {1, 2} /\ Index(h, i, k) \in Indices(h, i)
      /\ Bucket(h, i, k) = List(h, i, Index(h, i, k))
      /\ Bucket(h, i, k) \in Seq(Elem) /\ Distinct(Bucket(h, i, k))
      /\ ToSet(Bucket(h, i, k)) \subseteq Stored(h)
  BY <1>1, BucketLemma
<1>3. GetKey[Node(h, i, k)] = k
  BY <1>1 DEF WithKey
<1>4. QED BY <1>1, <1>2, <1>3 DEF i, Node

\* A list is replaced by one with the same nodes, or fewer.
LEMMA SublistLemma ==
  ASSUME NEW h, HInv(h), NEW i \in {1, 2}, NEW j \in Indices(h, i),
         NEW N \in Seq(Elem), Distinct(N), ToSet(N) \subseteq ToSet(List(h, i, j))
  PROVE  LET r == Relinked(h, i, j, N)
         IN  /\ HInv(r) /\ List(r, i, j) = N
             /\ Stored(r) = (Stored(h) \ ToSet(List(h, i, j))) \cup ToSet(N)
             /\ r.n1 = h.n1 /\ r.n2 = h.n2 /\ r.used = h.used /\ r.idx = h.idx
BY RelinkedLemma

\* A lookup finds the key wherever it is, and leaves it at the front of its list.
LEMMA FindStep ==
  ASSUME Inv, NEW k \in Key, Find(k)
  PROVE  Inv' /\ KS!Find(k)
<1> DEFINE h == IncrementalRehash(ht)
           i == FirstWith(h, TablesInUse(h), k)
           B == Bucket(h, i, k)
           j == Index(h, i, k)
           x == Node(h, i, k)
           W == WithKey(Stored(ht), k)
<1>1. HInv(h) /\ Stored(h) = Stored(ht) /\ h.used = ht.used
  BY IncrementalRehashLemma DEF Inv
<1>2. /\ ht' = IF i = 0 THEN h ELSE Relinked(h, i, j, ToFront(B, k))
      /\ ret' = IF i = 0 THEN Answer("Find", FALSE, {})
                         ELSE Answer("Find", TRUE, {x})
      /\ lost' = lost
  <2>1. CASE i = 0
    BY <2>1 DEF Find, Found
  <2>2. CASE i # 0
    BY <2>2 DEF Find, Found
  <2>3. QED BY <2>1, <2>2
<1> HIDE DEF h
<1>3. W = KS!WithKey(Stored(ht), k)
  BY DEF WithKey, KS!WithKey
<1>4. CASE i = 0
  <2>1. W = {}
    BY <1>1, <1>4, LookupLemma
  <2>2. ht' = h /\ ret' = Answer("Find", FALSE, {})
    BY <1>2, <1>4
  <2>3. ret' \in Answers /\ FindCurrent'
    BY <2>2 DEF Answers, Answer, FindCurrent
  <2>4. Inv'
    BY <1>1, <1>2, <2>2, <2>3, Keeping
  <2>5. QED BY <1>1, <1>3, <2>1, <2>2, <2>4 DEF KS!Find, KS!Answer, Answer
<1>5. CASE i # 0
  <2>1. /\ i \in TablesInUse(h) /\ i \in {1, 2} /\ j \in Indices(h, i)
        /\ B = List(h, i, j) /\ B \in Seq(Elem) /\ Distinct(B) /\ Search(B, k) # 0
        /\ ToSet(B) \subseteq Stored(h) /\ x = B[Search(B, k)] /\ x \in Stored(h)
        /\ WithKey(Stored(h), k) = {x} /\ GetKey[x] = k
    BY <1>1, <1>5, FoundLemma
  <2>2. ht' = Relinked(h, i, j, ToFront(B, k)) /\ ret' = Answer("Find", TRUE, {x})
    BY <1>2, <1>5
  <2> DEFINE N == ToFront(B, k)
  <2> HIDE DEF i, B, j, x
  <2>3. /\ N \in Seq(Elem) /\ Distinct(N) /\ ToSet(N) = ToSet(B)
        /\ N # <<>> /\ N[1] = x
    BY <2>1, ToFrontLemma
  <2> HIDE DEF N
  <2>4. /\ HInv(ht') /\ List(ht', i, j) = N
        /\ Stored(ht') = (Stored(h) \ ToSet(B)) \cup ToSet(N)
        /\ ht'.n1 = h.n1 /\ ht'.n2 = h.n2 /\ ht'.used = h.used /\ ht'.idx = h.idx
    <3>1. ToSet(N) \subseteq ToSet(List(h, i, j))
      BY <2>1, <2>3
    <3>2. QED BY <1>1, <2>1, <2>2, <2>3, <3>1, SublistLemma DEF N
  <2>5. Stored(ht') = Stored(ht)
    BY <1>1, <2>1, <2>3, <2>4
  <2>6. x \in Stored(ht') /\ x \in Elem
    BY <1>1, <2>1, <2>5, StoredElem DEF HInv
  <2>7. Bucket(ht', i, k) = N /\ i \in TablesInUse(ht')
    BY <2>1, <2>4 DEF Bucket, Index, j, TablesInUse, InRehashing
  <2>8. FirstWith(ht', TablesInUse(ht'), k) = i
    <3> DEFINE f == FirstWith(ht', TablesInUse(ht'), k)
    <3>1. WithKey(Stored(ht'), k) # {}
      BY <2>1, <2>6 DEF WithKey
    <3>2. /\ f \in TablesInUse(ht') /\ Node(ht', f, k) \in ToSet(Bucket(ht', f, k))
          /\ WithKey(Stored(ht'), k) = {Node(ht', f, k)}
      BY <2>4, <3>1, LookupLemma
    <3> HIDE DEF f
    <3>3. Node(ht', f, k) = x
      BY <2>1, <2>6, <3>2 DEF WithKey
    <3>4. x \in ToSet(Bucket(ht', i, k))
      <4>1. x \in ToSet(B)
        BY <2>1, SearchLemma
      <4>2. QED BY <2>3, <2>7, <4>1
    <3>5. f = i
      BY <2>4, <2>7, <3>2, <3>3, <3>4, OneTable
    <3>6. QED BY <3>5 DEF f
  <2>9. ret' \in Answers
    BY <2>2, <2>6 DEF Answers, Answer
  <2>10. FindCurrent'
    <3>1. ret'.op = "Find" /\ ret'.ok = TRUE /\ ret'.out = {x}
      BY <2>2 DEF Answer
    <3>2. QED BY <2>1, <2>3, <2>6, <2>7, <2>8, <3>1 DEF FindCurrent
  <2>11. Inv'
    BY <1>1, <1>2, <2>4, <2>5, <2>9, <2>10, Keeping
  <2>12. W = {x}
    BY <1>1, <2>1
  <2>13. QED BY <1>3, <2>2, <2>5, <2>11, <2>12 DEF KS!Find, KS!Answer, Answer
<1>6. QED BY <1>4, <1>5

\* Extract takes out the element it returns and counts it off.
LEMMA ExtractStep ==
  ASSUME Inv, NEW k \in Key, Extract(k)
  PROVE  Inv' /\ KS!Extract(k)
<1> DEFINE h == IncrementalRehash(ht)
           i == FirstWith(h, TablesInUse(h), k)
           B == Bucket(h, i, k)
           j == Index(h, i, k)
           x == Node(h, i, k)
           W == WithKey(Stored(ht), k)
           r == Relinked(h, i, j, Without(B, k))
<1>1. HInv(h) /\ Stored(h) = Stored(ht) /\ h.used = ht.used
  BY IncrementalRehashLemma DEF Inv
<1>2. /\ ht' = IF i = 0 THEN h ELSE Counted(r, -1)
      /\ ret' = Answer("Extract", i # 0, IF i = 0 THEN {} ELSE {x})
      /\ lost' = lost
  BY DEF Extract
<1> HIDE DEF h
<1>3. W = KS!WithKey(Stored(ht), k)
  BY DEF WithKey, KS!WithKey
<1>4. CASE i = 0
  <2>1. W = {}
    BY <1>1, <1>4, LookupLemma
  <2>2. ht' = h /\ ret' = Answer("Extract", FALSE, {})
    BY <1>2, <1>4
  <2>3. ret' \in Answers /\ FindCurrent'
    BY <2>2 DEF Answers, Answer, FindCurrent
  <2>4. Inv'
    BY <1>1, <1>2, <2>2, <2>3, Keeping
  <2>5. QED BY <1>1, <1>3, <2>1, <2>2, <2>4 DEF KS!Extract, KS!Answer, Answer
<1>5. CASE i # 0
  <2>1. /\ i \in TablesInUse(h) /\ i \in {1, 2} /\ j \in Indices(h, i)
        /\ B = List(h, i, j) /\ B \in Seq(Elem) /\ Distinct(B) /\ Search(B, k) # 0
        /\ ToSet(B) \subseteq Stored(h) /\ x = B[Search(B, k)]
        /\ x \in ToSet(B) /\ x \in Stored(h)
        /\ WithKey(Stored(h), k) = {x} /\ GetKey[x] = k
    BY <1>1, <1>5, FoundLemma
  <2>2. ht' = Counted(r, -1) /\ ret' = Answer("Extract", TRUE, {x})
    BY <1>2, <1>5
  <2> DEFINE N == Without(B, k)
  <2> HIDE DEF i, B, j, x
  <2>3. N \in Seq(Elem) /\ Distinct(N) /\ ToSet(N) = ToSet(B) \ {x}
    BY <2>1, WithoutLemma
  <2> HIDE DEF N
  <2>4. /\ HInv(r) /\ r.used = h.used
        /\ Stored(r) = (Stored(h) \ ToSet(B)) \cup ToSet(N)
    <3>1. ToSet(N) \subseteq ToSet(List(h, i, j))
      BY <2>1, <2>3
    <3>2. QED BY <1>1, <2>1, <2>3, <3>1, SublistLemma DEF N
  <2> HIDE DEF r
  <2>5. Stored(r) = Stored(ht) \ {x}
    BY <1>1, <2>1, <2>3, <2>4
  <2>6. r.used + (-1) \in Nat /\ r.used + (-1) = ht.used - 1
    BY <1>1, <2>1, <2>4, UsedPositive
  <2>7. HInv(ht') /\ Stored(ht') = Stored(ht) \ {x} /\ ht'.used = ht.used - 1
    BY <2>2, <2>4, <2>5, <2>6, CountedLemma
  <2>8. x \in Elem /\ x \in Stored(ht)
    BY <1>1, <2>1, StoredElem DEF HInv
  <2>9. ret' \in Answers /\ FindCurrent'
    BY <2>2, <2>8 DEF Answers, Answer, FindCurrent
  <2>10. Inv'
    BY <1>2, <2>7, <2>8, <2>9, Shrinking
  <2>11. W = {x}
    BY <1>1, <2>1
  <2>12. QED BY <1>3, <2>2, <2>7, <2>10, <2>11 DEF KS!Extract, KS!Answer, Answer
<1>6. QED BY <1>4, <1>5

\* EraseAfterFindSlot drops what the FindSlot before it returned.
LEMMA EraseStep ==
  ASSUME Inv, EraseAfterFindSlot
  PROVE  Inv' /\ KS!EraseNode
<1>1. PICK e \in ret.out :
         LET k == GetKey[e]
             i == FirstWith(ht, TablesInUse(ht), k)
         IN  ht' = Relinked(ht, i, Index(ht, i, k), Tail(Bucket(ht, i, k)))
  BY DEF EraseAfterFindSlot
<1>2. /\ ret.op = "Find" /\ ret.ok /\ lost' = lost + 1
      /\ ret' = Answer("EraseNode", TRUE, {})
  BY DEF EraseAfterFindSlot
<1> DEFINE k == GetKey[e]
           i == FirstWith(ht, TablesInUse(ht), k)
           B == Bucket(ht, i, k)
           j == Index(ht, i, k)
<1>3. /\ ret.out = {e} /\ e \in Stored(ht) /\ i \in TablesInUse(ht)
      /\ B # <<>> /\ B[1] = e
  BY <1>1, <1>2 DEF Inv, FindCurrent
<1>4. ht' = Relinked(ht, i, j, Tail(B))
  BY <1>1
<1>5. HInv(ht) /\ k \in Key
  BY <1>3, StoredElem, GetKeyAssumption DEF Inv, HInv
<1> HIDE DEF i, k
<1>6. /\ i \in {1, 2} /\ j \in Indices(ht, i) /\ B = List(ht, i, j)
      /\ B \in Seq(Elem) /\ Distinct(B) /\ ToSet(B) \subseteq Stored(ht)
  BY <1>3, <1>5, BucketLemma
<1> DEFINE N == Tail(B)
<1> HIDE DEF B, j
<1>7. N \in Seq(Elem) /\ Distinct(N) /\ ToSet(N) = ToSet(B) \ {e} /\ e \in ToSet(B)
  BY <1>3, <1>6, TailLemma
<1> HIDE DEF N
<1>8. /\ HInv(ht') /\ ht'.used = ht.used
      /\ Stored(ht') = (Stored(ht) \ ToSet(B)) \cup ToSet(N)
  <2>1. ToSet(N) \subseteq ToSet(List(ht, i, j))
    BY <1>6, <1>7
  <2>2. ht' = Relinked(ht, i, j, N)
    BY <1>4 DEF N
  <2>3. /\ HInv(Relinked(ht, i, j, N)) /\ Relinked(ht, i, j, N).used = ht.used
        /\ Stored(Relinked(ht, i, j, N))
              = (Stored(ht) \ ToSet(List(ht, i, j))) \cup ToSet(N)
    BY <1>5, <1>6, <1>7, <2>1, SublistLemma
  <2>4. QED BY <1>6, <2>2, <2>3
<1>9. Stored(ht') = Stored(ht) \ {e}
  BY <1>6, <1>7, <1>8
<1>10. ret' \in Answers /\ FindCurrent'
  BY <1>2 DEF Answers, Answer, FindCurrent
<1>11. Inv'
  BY <1>2, <1>3, <1>8, <1>9, <1>10, Shrinking
<1>12. QED BY <1>2, <1>3, <1>9, <1>11 DEF KS!EraseNode, KS!Answer, Answer

\* EraseRandom drops some element whenever there is one: the buckets it does not
\* look at, those of table1 below the rehash index, are empty.
LEMMA EraseRandomStep ==
  ASSUME Inv, EraseRandom
  PROVE  Inv' /\ KS!EraseRandom
<1> DEFINE h == IncrementalRehash(ht)
           from == IF InRehashing(h) THEN h.idx ELSE 0
           full1 == {j \in from .. h.n1 - 1 : h.t1[j] # <<>>}
           full2 == IF InRehashing(h) THEN {j \in 0 .. h.n2 - 1 : h.t2[j] # <<>>}
                                      ELSE {}
           i == IF full1 # {} THEN 1 ELSE 2
           F == IF full1 # {} THEN full1 ELSE full2
           j == Lowest(F)
           none == full1 = {} /\ full2 = {}
<1>1. HInv(h) /\ Stored(h) = Stored(ht) /\ h.used = ht.used
  BY IncrementalRehashLemma DEF Inv
<1>2. /\ ht' = IF none THEN h ELSE Relinked(h, i, j, Tail(List(h, i, j)))
      /\ ret' = Answer("EraseRandom", ~none, {})
      /\ lost' = IF none THEN lost ELSE lost + 1
  BY DEF EraseRandom
<1> HIDE DEF h
<1>3. /\ h.n1 \in Nat /\ h.n2 \in Nat /\ from \in 0 .. h.n1 - 1 /\ Shape(h)
      /\ DOMAIN h.t1 = 0 .. h.n1 - 1 /\ DOMAIN h.t2 = 0 .. h.n2 - 1
      /\ ~InRehashing(h) => h.n2 = 0
  <2>1. Shape(h)
    BY <1>1 DEF HInv
  <2>2. /\ h.n1 \in Nat /\ h.n1 >= 4 /\ h.n2 \in Nat
        /\ \/ h.idx = NoIndex /\ h.n2 = 0
           \/ h.idx \in 0 .. h.n1 - 1 /\ h.n2 = 2 * h.n1
    BY <2>1 DEF Shape
  <2>3. DOMAIN h.t1 = 0 .. h.n1 - 1 /\ DOMAIN h.t2 = 0 .. h.n2 - 1
    BY <2>1 DEF Shape
  <2>4. h.idx = NoIndex <=> ~InRehashing(h)
    BY DEF InRehashing
  <2>5. ~InRehashing(h) => h.n2 = 0
    BY <2>2, <2>4 DEF NoIndex
  <2>6. from \in 0 .. h.n1 - 1
    BY <2>2, <2>4 DEF NoIndex
  <2>7. QED BY <2>1, <2>2, <2>3, <2>5, <2>6
<1>4. CASE none
  <2>1. Stored(h) = {}
    <3> SUFFICES ASSUME NEW x \in Stored(h) PROVE FALSE
      OBVIOUS
    <3>1. ToSet(<<>>) = {}
      BY DEF ToSet
    <3>2. CASE \E n \in 0 .. h.n1 - 1 : x \in ToSet(h.t1[n])
      <4>1. PICK n \in 0 .. h.n1 - 1 : x \in ToSet(h.t1[n])
        BY <3>2
      <4>2. InRehashing(h) => n >= h.idx
        BY <1>1, <1>3, <4>1 DEF HInv, Placed
      <4>3. n \in from .. h.n1 - 1
        BY <1>3, <4>2
      <4>4. h.t1[n] # <<>>
        BY <3>1, <4>1
      <4>5. QED BY <1>4, <4>3, <4>4
    <3>3. CASE \E n \in 0 .. h.n2 - 1 : x \in ToSet(h.t2[n])
      <4>1. PICK n \in 0 .. h.n2 - 1 : x \in ToSet(h.t2[n])
        BY <3>3
      <4>2. InRehashing(h)
        BY <1>3
      <4>3. h.t2[n] # <<>>
        BY <3>1, <4>1
      <4>4. QED BY <1>4, <4>2, <4>3
    <3>4. QED BY <1>3, <3>2, <3>3, StoredMember
  <2>2. ht' = h /\ ret' = Answer("EraseRandom", FALSE, {}) /\ lost' = lost
    BY <1>2, <1>4
  <2>3. ret' \in Answers /\ FindCurrent'
    BY <2>2 DEF Answers, Answer, FindCurrent
  <2>4. Inv'
    BY <1>1, <2>2, <2>3, Keeping
  <2>5. QED BY <1>1, <2>1, <2>2, <2>4 DEF KS!EraseRandom, KS!Answer, Answer
<1>5. CASE ~none
  <2>1. F # {} /\ F \subseteq Indices(h, i)
    BY <1>3, <1>5 DEF Indices
  <2>2. \A n \in F : List(h, i, n) # <<>>
    BY DEF List
  <2>3. F \subseteq Nat
    <3>1. from .. h.n1 - 1 \subseteq Nat
      BY <1>3
    <3>2. QED BY <3>1
  <2>4. i \in {1, 2}
    OBVIOUS
  <2> HIDE DEF F, i
  <2>5. j \in F
    BY <2>1, <2>3, LowestLemma
  <2> DEFINE B == List(h, i, j)
             N == Tail(B)
             e == B[1]
  <2>6. j \in Indices(h, i) /\ B # <<>>
    BY <2>1, <2>2, <2>5
  <2> HIDE DEF j
  <2>7. B \in Seq(Elem) /\ Distinct(B) /\ ToSet(B) \subseteq Stored(h)
    BY <1>1, <2>4, <2>6, ListLemma
  <2> HIDE DEF B
  <2>8. N \in Seq(Elem) /\ Distinct(N) /\ e \in ToSet(B) /\ ToSet(N) = ToSet(B) \ {e}
    BY <2>6, <2>7, TailLemma
  <2>9. ht' = Relinked(h, i, j, N) /\ lost' = lost + 1
        /\ ret' = Answer("EraseRandom", TRUE, {})
    BY <1>2, <1>5 DEF i, j, F, B
  <2> HIDE DEF N, e
  <2>10. /\ HInv(ht') /\ ht'.used = h.used
         /\ Stored(ht') = (Stored(h) \ ToSet(B)) \cup ToSet(N)
    <3>1. ToSet(N) \subseteq ToSet(List(h, i, j))
      BY <2>8 DEF B
    <3>2. QED BY <1>1, <2>4, <2>6, <2>8, <2>9, <3>1, SublistLemma DEF B
  <2>11. e \in Stored(ht) /\ Stored(ht') = Stored(ht) \ {e}
    BY <1>1, <2>7, <2>8, <2>10
  <2>12. ret' \in Answers /\ FindCurrent'
    BY <2>9 DEF Answers, Answer, FindCurrent
  <2>13. Inv'
    BY <1>1, <2>9, <2>10, <2>11, <2>12, Shrinking
  <2>14. QED BY <2>9, <2>11, <2>13 DEF KS!EraseRandom, KS!Answer, Answer
<1>6. QED BY <1>4, <1>5

\* Every step keeps the invariant and is a step of the abstract set.
LEMMA NextInv == Inv /\ [Next]_vars => Inv' /\ [KS!Next]_KS!absVars
<1> SUFFICES ASSUME Inv, [Next]_vars PROVE Inv' /\ [KS!Next]_KS!absVars
  OBVIOUS
<1>1. CASE \E e \in Elem : Insert(e)
  BY <1>1, InsertStep DEF KS!Next
<1>2. CASE \E k \in Key : Find(k)
  BY <1>2, FindStep DEF KS!Next
<1>3. CASE \E k \in Key : Extract(k)
  BY <1>3, ExtractStep DEF KS!Next
<1>4. CASE EraseAfterFindSlot
  BY <1>4, EraseStep DEF KS!Next
<1>5. CASE EraseRandom
  BY <1>5, EraseRandomStep DEF KS!Next
<1>6. CASE Clear
  BY <1>6, ClearStep DEF KS!Next
<1>7. CASE UNCHANGED vars
  BY <1>7 DEF vars, Inv, SizeCounts, FindCurrent, KS!absVars
<1>8. QED BY <1>1, <1>2, <1>3, <1>4, <1>5, <1>6, <1>7 DEF Next

\* The invariant holds in every reachable state.
THEOREM Invariance == Spec => []Inv
<1>1. Init => Inv
  BY InitInv
<1>2. Inv /\ [Next]_vars => Inv'
  BY NextInv
<1>3. QED BY <1>1, <1>2, PTL DEF Spec

\* Arrays, index and answers stay in range, and used never goes below zero.
THEOREM TypeCorrect == Spec => []TypeOK
<1>1. Inv => TypeOK
  BY DEF Inv, HInv, TypeOK
<1>2. QED BY <1>1, Invariance, PTL

\* Every element is where its hash sends a lookup, and nothing is left in table1
\* below the rehash index.
THEOREM ReachableTheorem == Spec => []Reachable
<1>1. Inv => Reachable
  BY DEF Inv, HInv, Reachable
<1>2. QED BY <1>1, Invariance, PTL

\* A key is linked once in the whole table, in the middle of a rehash too.
THEOREM UniqueTheorem == Spec => []KeysUnique
<1>1. Inv => KeysUnique
  BY OnePerKey DEF Inv, HInv, KeysUnique
<1>2. QED BY <1>1, Invariance, PTL

\* size() is the number of elements plus the entries erased without counting.
THEOREM SizeTheorem == Spec => []SizeCounts
<1>1. Inv => SizeCounts
  BY DEF Inv
<1>2. QED BY <1>1, Invariance, PTL

\* The rehashing table implements the abstract set of unique keys.
THEOREM Refinement == Spec => ImplementsKeyedSet
<1>1. Init => KS!Init
  BY InitInv
<1>2. Inv /\ [Next]_vars => [KS!Next]_KS!absVars
  BY NextInv
<1>3. QED BY <1>1, <1>2, Invariance, PTL DEF Spec, ImplementsKeyedSet, KS!Spec

-----------------------------------------------------------------------------
(* Clone                                                                   *)

\* The lists of the old buckets are copied from their ends.
LEMMA ReverseLemma ==
  ASSUME NEW B \in Seq(Elem), Distinct(B)
  PROVE  /\ Reverse(B) \in Seq(Elem) /\ Distinct(Reverse(B))
         /\ ToSet(Reverse(B)) = ToSet(B)
<1> DEFINE A == Reverse(B)
           l == Len(B)
<1>1. l \in Nat /\ \A i \in 1 .. l : B[i] \in Elem
  BY LenProperties
<1>2. A = [i \in 1 .. l |-> B[(l - i) + 1]]
  BY DEF Reverse
<1> HIDE DEF A, l
<1>3. \A i \in 1 .. l : (l - i) + 1 \in 1 .. l /\ (l - ((l - i) + 1)) + 1 = i
  BY <1>1
<1>4. A \in Seq(Elem) /\ Len(A) = l /\ \A i \in 1 .. l : A[i] = B[(l - i) + 1]
  BY <1>1, <1>2, <1>3
<1>5. ASSUME NEW m \in 1 .. l, NEW n \in 1 .. l, GetKey[A[m]] = GetKey[A[n]]
      PROVE  m = n
  <2>1. (l - m) + 1 \in DOMAIN B /\ (l - n) + 1 \in DOMAIN B
    BY <1>3 DEF l
  <2>2. (l - m) + 1 = (l - n) + 1
    BY <1>4, <1>5, <2>1, DistinctAt
  <2>3. QED BY <1>1, <2>2
<1>6. Distinct(A)
  BY <1>4, <1>5 DEF Distinct
<1>7. ASSUME NEW x PROVE x \in ToSet(A) <=> x \in ToSet(B)
  <2>1. x \in ToSet(A) <=> \E i \in 1 .. l : x = B[(l - i) + 1]
    BY <1>4, ToSetMember
  <2>2. x \in ToSet(B) <=> \E i \in 1 .. l : x = B[i]
    BY ToSetMember DEF l
  <2>3. QED BY <1>3, <2>1, <2>2
<1>8. QED BY <1>4, <1>6, <1>7 DEF A

\* FlattenSeq is the end of the run of concatenations, each in its set P[n].
LEMMA FlattenLemma ==
  ASSUME NEW seqs, Len(seqs) \in Nat, Len(seqs) > 0, NEW P,
         seqs[1] \in P[1],
         \A i \in 2 .. Len(seqs) : \A s \in P[i - 1] : s \o seqs[i] \in P[i]
  PROVE  FlattenSeq(seqs) \in P[Len(seqs)]
<1> DEFINE l == Len(seqs)
           Next1(f, i) == IF i = 1 THEN seqs[i] ELSE f[i - 1] \o seqs[i]
           IsFlat(f, n) == f = [i \in 1 .. n |-> Next1(f, i)]
           A == {n \in Nat : \E f : IsFlat(f, n)}
           h == CHOOSE f : IsFlat(f, l)
<1>1. 0 \in A
  <2>1. IsFlat([i \in 1 .. 0 |-> seqs[i]], 0)
    OBVIOUS
  <2>2. QED BY <2>1
<1>2. ASSUME NEW n \in A PROVE n + 1 \in A
  <2>1. n \in Nat
    OBVIOUS
  <2>2. PICK f : IsFlat(f, n)
    OBVIOUS
  <2> DEFINE g == [i \in 1 .. n + 1 |-> Next1(f, i)]
  <2>3. ASSUME NEW i \in 1 .. n PROVE g[i] = f[i]
    <3> HIDE DEF Next1
    <3>1. g[i] = Next1(f, i)
      BY <2>1
    <3>2. f[i] = Next1(f, i)
      BY <2>2
    <3>3. QED BY <3>1, <3>2
  <2>4. ASSUME NEW i \in 1 .. n + 1 PROVE Next1(g, i) = Next1(f, i)
    <3>1. CASE i = 1
      BY <3>1
    <3>2. CASE i # 1
      <4>1. i - 1 \in 1 .. n
        BY <2>1, <3>2
      <4>2. g[i - 1] = f[i - 1]
        BY <2>3, <4>1
      <4> HIDE DEF g
      <4>3. QED BY <3>2, <4>2
    <3>3. QED BY <3>1, <3>2
  <2>5. g = [i \in 1 .. n + 1 |-> Next1(f, i)]
    OBVIOUS
  <2> HIDE DEF g, Next1
  <2>6. IsFlat(g, n + 1)
    BY <2>4, <2>5
  <2>7. QED BY <2>1, <2>6
<1> HIDE DEF A
<1>3. l \in A
  BY <1>1, <1>2, SetInduction
<1>4. IsFlat(h, l)
  <2>1. PICK f : IsFlat(f, l)
    BY <1>3 DEF A
  <2> HIDE DEF IsFlat
  <2>2. QED BY <2>1
<1>5. FlattenSeq(seqs) = h[l]
  BY DEF FlattenSeq
<1> HIDE DEF h
<1>6. \A i \in 1 .. l : h[i] = IF i = 1 THEN seqs[i] ELSE h[i - 1] \o seqs[i]
  BY <1>4
<1> DEFINE C == {n \in Nat : n + 1 \in 1 .. l => h[n + 1] \in P[n + 1]}
<1>7. 0 \in C
  BY <1>6
<1>8. ASSUME NEW n \in C PROVE n + 1 \in C
  <2> SUFFICES ASSUME (n + 1) + 1 \in 1 .. l PROVE h[(n + 1) + 1] \in P[(n + 1) + 1]
    OBVIOUS
  <2> DEFINE m == (n + 1) + 1
  <2>1. n \in Nat /\ n + 1 \in 1 .. l /\ m \in 2 .. l /\ m # 1 /\ m \in 1 .. l /\ m - 1 = n + 1
    OBVIOUS
  <2>2. h[n + 1] \in P[n + 1]
    BY <2>1
  <2> HIDE DEF m
  <2>3. h[m] = h[m - 1] \o seqs[m]
    BY <1>6, <2>1
  <2>4. QED BY <2>1, <2>2, <2>3 DEF m
<1> HIDE DEF C
<1>9. l - 1 \in C
  BY <1>7, <1>8, SetInduction
<1>10. h[l] \in P[l]
  <2>1. (l - 1) + 1 = l /\ l \in 1 .. l
    OBVIOUS
  <2>2. QED BY <1>9, <2>1 DEF C
<1>11. QED BY <1>5, <1>10

\* The parts of a clone's bucket: lists with no key in common
LEMMA FlattenParts ==
  ASSUME NEW l \in Nat, l > 0, NEW parts \in [1 .. l -> Seq(Elem)],
         \A i \in 1 .. l : Distinct(parts[i]),
         \A i, k \in 1 .. l : i # k =>
             \A e \in ToSet(parts[i]), f \in ToSet(parts[k]) : GetKey[e] # GetKey[f]
  PROVE  /\ FlattenSeq(parts) \in Seq(Elem) /\ Distinct(FlattenSeq(parts))
         /\ \A x : x \in ToSet(FlattenSeq(parts)) <=> \E i \in 1 .. l : x \in ToSet(parts[i])
<1> DEFINE Upto(n) == {s \in Seq(Elem) :
                          /\ Distinct(s)
                          /\ \A x : x \in ToSet(s) <=> \E i \in 1 .. n : x \in ToSet(parts[i])}
           P == [n \in 1 .. l |-> Upto(n)]
<1>1. Len(parts) = l
  OBVIOUS
<1>2. parts[1] \in P[1]
  <2>1. 1 .. 1 = {1} /\ 1 \in 1 .. l
    OBVIOUS
  <2>2. QED BY <2>1
<1>3. ASSUME NEW i \in 2 .. l, NEW s \in P[i - 1] PROVE s \o parts[i] \in P[i]
  <2>1. i \in 1 .. l /\ i - 1 \in 1 .. l /\ \A k \in 1 .. i - 1 : k \in 1 .. l /\ k # i
    OBVIOUS
  <2>2. \A k \in 1 .. i : k \in 1 .. i - 1 \/ k = i
    OBVIOUS
  <2>3. s \in Upto(i - 1)
    BY <2>1
  <2>4. /\ s \in Seq(Elem) /\ Distinct(s)
        /\ \A x : x \in ToSet(s) <=> \E k \in 1 .. i - 1 : x \in ToSet(parts[k])
    BY <2>3
  <2>5. parts[i] \in Seq(Elem) /\ Distinct(parts[i])
    BY <2>1
  <2>6. \A e \in ToSet(s), f \in ToSet(parts[i]) : GetKey[e] # GetKey[f]
    BY <2>1, <2>4
  <2> DEFINE u == s \o parts[i]
  <2>7. u \in Seq(Elem) /\ Distinct(u) /\ ToSet(u) = ToSet(s) \cup ToSet(parts[i])
    BY <2>4, <2>5, <2>6, ConcatLemma
  <2> HIDE DEF u
  <2>8. \A x : x \in ToSet(u) <=> \E k \in 1 .. i : x \in ToSet(parts[k])
    <3>1. ASSUME NEW x PROVE x \in ToSet(u) <=> \E k \in 1 .. i : x \in ToSet(parts[k])
      <4>1. (\E k \in 1 .. i : x \in ToSet(parts[k]))
              <=> (\E k \in 1 .. i - 1 : x \in ToSet(parts[k])) \/ x \in ToSet(parts[i])
        BY <2>1, <2>2
      <4>2. QED BY <2>4, <2>7, <4>1
    <3>2. QED BY <3>1
  <2>9. u \in Upto(i)
    BY <2>7, <2>8
  <2>10. QED BY <2>1, <2>9 DEF u
<1> HIDE DEF P
<1>4. FlattenSeq(parts) \in P[l]
  BY <1>1, <1>2, <1>3, FlattenLemma
<1>5. FlattenSeq(parts) \in Upto(l)
  BY <1>4 DEF P
<1>6. QED BY <1>5

\* What goes into bucket j of a clone taken in the middle of a rehash
LEMMA ClonedBucket ==
  ASSUME NEW h, HInv(h), InRehashing(h), NEW j \in 0 .. h.n2 - 1
  PROVE  /\ Clone(h).t1[j] \in Seq(Elem) /\ Distinct(Clone(h).t1[j])
         /\ \A x : x \in ToSet(Clone(h).t1[j]) <=>
                     \/ \E b \in 0 .. h.n1 - 1 :
                           x \in ToSet(h.t1[b]) /\ bucket_index(h.n2, GetKey[x]) = j
                     \/ x \in ToSet(h.t2[j])
<1> DEFINE l == h.n1 - h.idx
           moved == [i \in 1 .. l |-> Sifted(h.t1[h.idx + i - 1], h.n2, j)]
           parts == Reverse(moved)
           A == FlattenSeq(parts)
           B == Reverse(h.t2[j])
<1>1. /\ h.n1 \in Nat /\ h.n1 >= 4 /\ h.n2 = 2 * h.n1
      /\ h.t1 \in [0 .. h.n1 - 1 -> Seq(Elem)]
      /\ h.t2 \in [0 .. h.n2 - 1 -> Seq(Elem)]
      /\ h.idx \in 0 .. h.n1 - 1
  BY DEF HInv, Shape, InRehashing
<1>2. /\ \A b \in 0 .. h.n1 - 1 : \A e \in ToSet(h.t1[b]) :
            bucket_index(h.n1, GetKey[e]) = b /\ b >= h.idx
      /\ \A b \in 0 .. h.n1 - 1 : Distinct(h.t1[b])
      /\ Distinct(h.t2[j])
      /\ \A e \in Elems(h.t1), f \in Elems(h.t2) : GetKey[e] # GetKey[f]
  BY <1>1 DEF HInv, Placed, Unique
<1>3. Clone(h).t1[j] = A \o B
  <2> DEFINE copy(k) == FlattenSeq(Reverse([i \in 1 .. h.n1 - h.idx |->
                                       Sifted(h.t1[h.idx + i - 1], h.n2, k)]))
                          \o Reverse(h.t2[k])
  <2>1. Clone(h).t1 = [k \in 0 .. h.n2 - 1 |-> copy(k)]
    BY TableFields DEF Clone
  <2>2. copy(j) = A \o B
    OBVIOUS
  <2> HIDE DEF copy
  <2>3. QED BY <2>1, <2>2
<1>4. /\ l \in Nat /\ l > 0
      /\ \A i \in 1 .. l : h.idx + i - 1 \in 0 .. h.n1 - 1
                           /\ h.idx + (l - i + 1) - 1 \in 0 .. h.n1 - 1
      /\ \A i \in 1 .. l : l - i + 1 \in 1 .. l
  <2>1. h.n1 \in Nat /\ h.idx \in Nat /\ h.idx < h.n1
    BY <1>1
  <2>2. l \in Nat /\ l > 0 /\ h.n1 = h.idx + l
    BY <2>1
  <2> HIDE DEF l
  <2>3. ASSUME NEW i \in 1 .. l
        PROVE  /\ l - i + 1 \in 1 .. l
               /\ h.idx + i - 1 \in 0 .. h.n1 - 1
               /\ h.idx + (l - i + 1) - 1 \in 0 .. h.n1 - 1
    BY <2>1, <2>2
  <2>4. QED BY <2>2, <2>3
<1>5. ASSUME NEW i \in 1 .. l
      PROVE  parts[i] = Sifted(h.t1[h.idx + (l - i + 1) - 1], h.n2, j)
  <2>1. Len(moved) = l /\ \A k \in 1 .. l : moved[k] = Sifted(h.t1[h.idx + k - 1], h.n2, j)
    BY <1>4
  <2> HIDE DEF moved, l
  <2>2. parts[i] = moved[l - i + 1]
    BY <1>4, <2>1 DEF Reverse
  <2>3. QED BY <1>4, <2>1, <2>2
<1>6. parts = [i \in 1 .. l |-> parts[i]]
  <2>1. Len(moved) = l
    BY <1>4
  <2> HIDE DEF moved, l
  <2>2. parts = [i \in 1 .. l |-> moved[l - i + 1]]
    BY <2>1 DEF Reverse
  <2> HIDE DEF parts
  <2>3. QED BY <2>2
<1> HIDE DEF parts
<1>7. ASSUME NEW i \in 1 .. l
      PROVE  /\ parts[i] \in Seq(Elem) /\ Distinct(parts[i])
             /\ ToSet(parts[i]) = {e \in ToSet(h.t1[h.idx + (l - i + 1) - 1]) :
                                      bucket_index(h.n2, GetKey[e]) = j}
  <2> DEFINE b == h.idx + (l - i + 1) - 1
  <2>1. h.t1[b] \in Seq(Elem) /\ Distinct(h.t1[b])
    BY <1>1, <1>2, <1>4
  <2> HIDE DEF b
  <2>2. parts[i] = Sifted(h.t1[b], h.n2, j)
    BY <1>5 DEF b
  <2>3. QED BY <2>1, <2>2, SiftedLemma DEF b
<1>8. parts \in [1 .. l -> Seq(Elem)]
  BY <1>6, <1>7
<1>9. ASSUME NEW i \in 1 .. l, NEW k \in 1 .. l, i # k,
             NEW e \in ToSet(parts[i]), NEW f \in ToSet(parts[k])
      PROVE  GetKey[e] # GetKey[f]
  <2>1. /\ bucket_index(h.n1, GetKey[e]) = h.idx + (l - i + 1) - 1
        /\ bucket_index(h.n1, GetKey[f]) = h.idx + (l - k + 1) - 1
    <3>1. ASSUME NEW m \in 1 .. l, NEW x \in ToSet(parts[m])
          PROVE  bucket_index(h.n1, GetKey[x]) = h.idx + (l - m + 1) - 1
      <4> DEFINE b == h.idx + (l - m + 1) - 1
      <4>1. b \in 0 .. h.n1 - 1
        BY <1>4
      <4>2. x \in ToSet(h.t1[b])
        BY <1>7, <3>1
      <4> HIDE DEF b
      <4>3. bucket_index(h.n1, GetKey[x]) = b
        BY <1>2, <4>1, <4>2
      <4>4. QED BY <4>3 DEF b
    <3>2. QED BY <1>9, <3>1
  <2>2. h.idx + (l - i + 1) - 1 # h.idx + (l - k + 1) - 1
    <3> HIDE DEF l
    <3>1. h.idx \in Int
      BY <1>1
    <3>2. l \in Int
      BY <1>4
    <3>3. QED BY <1>9, <3>1, <3>2
  <2>3. QED BY <2>1, <2>2
<1>10. /\ A \in Seq(Elem) /\ Distinct(A)
       /\ \A x : x \in ToSet(A) <=> \E i \in 1 .. l : x \in ToSet(parts[i])
  <2>1. \A i \in 1 .. l : Distinct(parts[i])
    BY <1>7
  <2>2. \A i, k \in 1 .. l : i # k =>
             \A e \in ToSet(parts[i]), f \in ToSet(parts[k]) : GetKey[e] # GetKey[f]
    BY <1>9
  <2> HIDE DEF l
  <2>3. QED BY <1>4, <1>8, <2>1, <2>2, FlattenParts
<1>11. ASSUME NEW x
       PROVE  x \in ToSet(A) <=>
                \E b \in 0 .. h.n1 - 1 :
                    x \in ToSet(h.t1[b]) /\ bucket_index(h.n2, GetKey[x]) = j
  <2>1. ASSUME NEW i \in 1 .. l, x \in ToSet(parts[i])
        PROVE  \E b \in 0 .. h.n1 - 1 :
                   x \in ToSet(h.t1[b]) /\ bucket_index(h.n2, GetKey[x]) = j
    BY <1>4, <1>7, <2>1
  <2>2. ASSUME NEW b \in 0 .. h.n1 - 1, x \in ToSet(h.t1[b]), bucket_index(h.n2, GetKey[x]) = j
        PROVE  \E i \in 1 .. l : x \in ToSet(parts[i])
    <3>1. b >= h.idx
      BY <1>2, <2>2
    <3>2. h.n1 - b \in 1 .. l /\ h.idx + (l - (h.n1 - b) + 1) - 1 = b
      <4>1. h.n1 \in Nat /\ h.idx \in Nat /\ b \in Int /\ h.idx <= b /\ b < h.n1
        BY <1>1, <3>1
      <4>2. PICK n \in Nat, i \in Nat, c \in Int : n = h.n1 /\ i = h.idx /\ c = b
        BY <4>1
      <4>3. n - c \in 1 .. n - i /\ i + ((n - i) - (n - c) + 1) - 1 = c
        BY <4>1, <4>2
      <4>4. QED BY <4>2, <4>3
    <3>3. x \in ToSet(parts[h.n1 - b])
      BY <1>7, <2>2, <3>2
    <3>4. QED BY <3>2, <3>3
  <2>3. QED BY <1>10, <2>1, <2>2
<1>12. B \in Seq(Elem) /\ Distinct(B) /\ ToSet(B) = ToSet(h.t2[j])
  BY <1>1, <1>2, ReverseLemma
<1>13. \A e \in ToSet(A), f \in ToSet(B) : GetKey[e] # GetKey[f]
  <2>1. \A e \in ToSet(A) : e \in Elems(h.t1)
    BY <1>1, <1>11, ElemsMember
  <2>2. \A f \in ToSet(B) : f \in Elems(h.t2)
    BY <1>1, <1>12, ElemsMember
  <2>3. QED BY <1>2, <2>1, <2>2
<1> HIDE DEF A, B
<1>14. /\ A \o B \in Seq(Elem) /\ Distinct(A \o B)
       /\ ToSet(A \o B) = ToSet(A) \cup ToSet(B)
  BY <1>10, <1>12, <1>13, ConcatLemma
<1>15. QED BY <1>3, <1>11, <1>12, <1>14

\* A clone has the elements of the table, where a lookup finds them.
LEMMA CloneLemma ==
  ASSUME NEW h, HInv(h)
  PROVE  /\ Stored(Clone(h)) = Stored(h) /\ Placed(Clone(h)) /\ Unique(Clone(h))
         /\ Clone(h).used = h.used
<1> DEFINE c == Clone(h)
           n == IF InRehashing(h) THEN h.n2 ELSE h.n1
<1>1. /\ Shape(h) /\ h.n1 \in Nat /\ h.n1 >= 4 /\ h.n2 \in Nat
      /\ h.t1 \in [0 .. h.n1 - 1 -> Seq(Elem)]
      /\ h.t2 \in [0 .. h.n2 - 1 -> Seq(Elem)]
      /\ InRehashing(h) => h.n2 = 2 * h.n1
      /\ ~InRehashing(h) => h.n2 = 0
  BY DEF HInv, Shape, InRehashing, NoIndex
<1>2. /\ \A b \in 0 .. h.n1 - 1 : \A e \in ToSet(h.t1[b]) : bucket_index(h.n1, GetKey[e]) = b
      /\ \A b \in 0 .. h.n2 - 1 : \A e \in ToSet(h.t2[b]) : bucket_index(h.n2, GetKey[e]) = b
      /\ \A b \in 0 .. h.n1 - 1 : Distinct(h.t1[b])
  BY <1>1 DEF HInv, Placed, Unique
<1>3. /\ c.n1 = n /\ c.n2 = 0 /\ c.used = h.used /\ c.idx = NoIndex /\ c.t2 = Buckets(0)
      /\ DOMAIN c.t1 = 0 .. n - 1
      /\ ~InRehashing(h) => \A j \in 0 .. n - 1 : c.t1[j] = Reverse(h.t1[j])
  <2> DEFINE copy(j) == IF ~InRehashing(h) THEN Reverse(h.t1[j])
                        ELSE FlattenSeq(Reverse([i \in 1 .. h.n1 - h.idx |->
                                       Sifted(h.t1[h.idx + i - 1], n, j)]))
                               \o Reverse(h.t2[j])
  <2>1. c = Table([j \in 0 .. n - 1 |-> copy(j)], n, Buckets(0), 0, h.used, NoIndex)
    BY DEF Clone
  <2>2. ~InRehashing(h) => \A j \in 0 .. n - 1 : copy(j) = Reverse(h.t1[j])
    OBVIOUS
  <2> HIDE DEF copy, c, n
  <2>3. /\ c.n1 = n /\ c.n2 = 0 /\ c.used = h.used /\ c.idx = NoIndex /\ c.t2 = Buckets(0)
        /\ c.t1 = [j \in 0 .. n - 1 |-> copy(j)]
    BY <2>1, TableFields
  <2>4. DOMAIN c.t1 = 0 .. n - 1 /\ \A j \in 0 .. n - 1 : c.t1[j] = copy(j)
    BY <2>3
  <2>5. QED BY <2>2, <2>3, <2>4
<1> HIDE DEF c
<1>4. ASSUME NEW j \in 0 .. n - 1
      PROVE  /\ Distinct(c.t1[j])
             /\ \A x : x \in ToSet(c.t1[j]) <=>
                         x \in Stored(h) /\ bucket_index(n, GetKey[x]) = j
  <2>1. CASE InRehashing(h)
    <3>1. /\ n = h.n2 /\ Distinct(c.t1[j])
          /\ \A x : x \in ToSet(c.t1[j]) <=>
                     \/ \E b \in 0 .. h.n1 - 1 :
                           x \in ToSet(h.t1[b]) /\ bucket_index(h.n2, GetKey[x]) = j
                     \/ x \in ToSet(h.t2[j])
      BY <2>1, ClonedBucket DEF c
    <3>2. \A x : x \in ToSet(h.t2[j]) <=>
                   \E b \in 0 .. h.n2 - 1 : x \in ToSet(h.t2[b]) /\ bucket_index(h.n2, GetKey[x]) = j
      BY <1>2, <3>1
    <3>3. \A x : x \in Stored(h) <=> \/ \E b \in 0 .. h.n1 - 1 : x \in ToSet(h.t1[b])
                                    \/ \E b \in 0 .. h.n2 - 1 : x \in ToSet(h.t2[b])
      BY <1>1, StoredMember
    <3> HIDE DEF n
    <3>4. QED BY <3>1, <3>2, <3>3
  <2>2. CASE ~InRehashing(h)
    <3>1. n = h.n1 /\ h.n2 = 0 /\ c.t1[j] = Reverse(h.t1[j])
      BY <1>1, <1>3, <2>2
    <3>2. h.t1[j] \in Seq(Elem) /\ Distinct(h.t1[j])
      BY <1>1, <1>2, <3>1
    <3>3. Distinct(c.t1[j]) /\ ToSet(c.t1[j]) = ToSet(h.t1[j])
      BY <3>1, <3>2, ReverseLemma
    <3>4. \A x : x \in ToSet(h.t1[j]) <=>
                   \E b \in 0 .. h.n1 - 1 : x \in ToSet(h.t1[b]) /\ bucket_index(h.n1, GetKey[x]) = j
      BY <1>2, <3>1
    <3>5. \A x : x \in Stored(h) <=> \E b \in 0 .. h.n1 - 1 : x \in ToSet(h.t1[b])
      <4>1. \A b \in 0 .. h.n2 - 1 : FALSE
        BY <3>1
      <4>2. QED BY <1>1, <4>1, StoredMember
    <3>6. QED BY <3>1, <3>3, <3>4, <3>5
  <2>3. QED BY <2>1, <2>2
<1>5. Elems(c.t2) = {} /\ DOMAIN c.t2 = {}
  <2>1. 0 \in Nat /\ 0 .. 0 - 1 = {}
    OBVIOUS
  <2>2. QED BY <1>3, <2>1, BucketsLemma DEF Buckets
<1>6. n \in Nat /\ n > 0
  BY <1>1
<1> HIDE DEF n
<1>7. ASSUME NEW x \in Stored(h) PROVE bucket_index(n, GetKey[x]) \in 0 .. n - 1
  <2>1. GetKey[x] \in Key
    BY <1>1, StoredElem, GetKeyAssumption
  <2>2. QED BY <1>6, <2>1, IndexRange
<1>8. \A x : x \in Stored(c) <=> x \in Stored(h)
  <2>1. \A x : x \in Stored(c) <=> \E j \in 0 .. n - 1 : x \in ToSet(c.t1[j])
    BY <1>3, <1>5, ElemsMember DEF Stored
  <2>2. QED BY <1>4, <1>7, <2>1
<1>9. Placed(c)
  BY <1>3, <1>4, <1>5 DEF Placed, InRehashing
<1>10. Unique(c)
  BY <1>3, <1>4, <1>5 DEF Unique
<1>11. QED BY <1>3, <1>8, <1>9, <1>10 DEF c

\* A clone, taken in the middle of a rehash too, has the same elements where a
\* lookup finds them, once each, and the same size(): the copy of an old bucket
\* goes in front of what was copied before, whatever bucket that came from.
THEOREM CloneTheorem == Spec => []CloneFaithful
<1>1. Inv => CloneFaithful
  BY CloneLemma DEF Inv, CloneFaithful
<1>2. QED BY <1>1, Invariance, PTL

-----------------------------------------------------------------------------
(* Iteration                                                                *)

\* A node is in one list of the table.
LEMMA OneList ==
  ASSUME NEW h, HInv(h), NEW i \in {1, 2}, NEW j \in Indices(h, i),
         NEW m \in {1, 2}, NEW n \in Indices(h, m),
         NEW e, e \in ToSet(List(h, i, j)), e \in ToSet(List(h, m, n))
  PROVE  i = m /\ j = n
<1>1. DOMAIN h.t1 = 0 .. h.n1 - 1 /\ DOMAIN h.t2 = 0 .. h.n2 - 1
  BY DEF HInv, Shape
<1>2. ASSUME NEW t \in {1, 2}, NEW b \in Indices(h, t), e \in ToSet(List(h, t, b))
      PROVE  /\ t = 1 => e \in Elems(h.t1)
             /\ t = 2 => e \in Elems(h.t2)
  <2>1. CASE t = 1
    <3>1. b \in DOMAIN h.t1 /\ e \in ToSet(h.t1[b])
      BY <1>1, <1>2, <2>1 DEF Indices, List
    <3>2. QED BY <2>1, <3>1, ElemsMember
  <2>2. CASE t = 2
    <3>1. b \in DOMAIN h.t2 /\ e \in ToSet(h.t2[b])
      BY <1>1, <1>2, <2>2 DEF Indices, List
    <3>2. QED BY <2>2, <3>1, ElemsMember
  <2>3. QED BY <2>1, <2>2
<1>3. ~(e \in Elems(h.t1) /\ e \in Elems(h.t2))
  BY DEF HInv, Unique
<1>4. i = m
  BY <1>2, <1>3
<1>5. bucket_index(Size(h, i), GetKey[e]) = j /\ bucket_index(Size(h, m), GetKey[e]) = n
  BY ListLemma
<1>6. QED BY <1>4, <1>5

\* What follows node p of list L
NextIs(h, L, p) == NextOf(h, L[p]) = IF p = Len(L) THEN {} ELSE {L[p + 1]}

\* slot_->next is the node behind, whatever list the node is in.
LEMMA NextOfLemma ==
  ASSUME NEW h, HInv(h), NEW i \in {1, 2}, NEW j \in Indices(h, i),
         NEW p \in 1 .. Len(List(h, i, j))
  PROVE  NextIs(h, List(h, i, j), p)
<1> DEFINE L == List(h, i, j)
           lists == {h.t1[b] : b \in DOMAIN h.t1} \cup {h.t2[b] : b \in DOMAIN h.t2}
           e == L[p]
           B == CHOOSE X \in lists : e \in ToSet(X)
           pos == CHOOSE n \in DOMAIN B : B[n] = e
<1>1. DOMAIN h.t1 = 0 .. h.n1 - 1 /\ DOMAIN h.t2 = 0 .. h.n2 - 1
  BY DEF HInv, Shape
<1>2. \A X : X \in lists <=> \E m \in {1, 2} : \E n \in Indices(h, m) : X = List(h, m, n)
  BY <1>1 DEF Indices, List
<1>3. L \in Seq(Elem) /\ Distinct(L)
  BY ListLemma
<1>4. e \in ToSet(L) /\ p \in DOMAIN L
  BY <1>3, ToSetMember
<1>5. NextOf(h, e) = IF pos = Len(B) THEN {} ELSE {B[pos + 1]}
  BY DEF NextOf
<1> HIDE DEF lists, L
<1>6. B \in lists /\ e \in ToSet(B)
  <2>1. L \in lists
    BY <1>2 DEF L
  <2> HIDE DEF e
  <2>2. QED BY <1>4, <2>1
<1> HIDE DEF B, e
<1>7. B = L
  <2>0. PICK m \in {1, 2} : \E n \in Indices(h, m) : B = List(h, m, n)
    BY <1>2, <1>6
  <2>1. PICK n \in Indices(h, m) : B = List(h, m, n)
    BY <2>0
  <2>2. i = m /\ j = n
    BY <1>4, <1>6, <2>1, OneList DEF L
  <2>3. QED BY <2>1, <2>2 DEF L
<1>8. pos = p
  <2>1. \A n \in DOMAIN L : L[n] = e => n = p
    BY <1>4, DistinctAt, <1>3 DEF e
  <2>2. p \in DOMAIN B /\ B[p] = e
    BY <1>4, <1>7 DEF e
  <2>3. QED BY <1>7, <2>1, <2>2
<1>9. QED BY <1>5, <1>7, <1>8 DEF e, NextIs, L

\* The nodes of the buckets from one on, in the order of Scan
From(h, tab, bkt) ==
    {e \in Elem :
        \/ tab = 1 /\ \E j \in 0 .. h.n1 - 1 : j >= bkt /\ e \in ToSet(h.t1[j])
        \/ \E j \in 0 .. h.n2 - 1 : (tab = 1 \/ j >= bkt) /\ e \in ToSet(h.t2[j])}

\* Node p of a list and those behind it
Behind(L, p) == {L[q] : q \in p .. Len(L)}

\* An iterator at node p of its list
PointsAt(h, it, p) ==
    /\ it.tab \in {1, 2} /\ it.bkt \in Indices(h, it.tab)
    /\ p \in 1 .. Len(List(h, it.tab, it.bkt))
    /\ it.slot = {List(h, it.tab, it.bkt)[p]}

\* The iterator has the nodes T still to give.
Leaves(h, it, T) ==
    \/ it = AtEnd /\ T = {}
    \/ \E p \in Nat : /\ PointsAt(h, it, p)
                      /\ T = Behind(List(h, it.tab, it.bkt), p)
                                \cup From(h, it.tab, it.bkt + 1)

LEMMA IteratorFields ==
  ASSUME NEW tab, NEW bkt, NEW slot
  PROVE  /\ Iterator(tab, bkt, slot).tab = tab /\ Iterator(tab, bkt, slot).bkt = bkt
         /\ Iterator(tab, bkt, slot).slot = slot
BY DEF Iterator

\* The front of a list
LEMMA EnterLemma ==
  ASSUME NEW h, HInv(h), NEW tab \in {1, 2}, NEW j \in Indices(h, tab),
         NEW L, L = List(h, tab, j), L # <<>>
  PROVE  Leaves(h, Iterator(tab, j, {Head(L)}), ToSet(L) \cup From(h, tab, j + 1))
<1> DEFINE it == Iterator(tab, j, {Head(L)})
<1>1. L \in Seq(Elem)
  BY ListLemma
<1>2. Len(L) \in Nat /\ 1 \in 1 .. Len(L) /\ Head(L) = L[1]
  BY <1>1, LenProperties
<1>3. it.tab = tab /\ it.bkt = j /\ it.slot = {L[1]}
  BY <1>2, IteratorFields
<1> HIDE DEF it
<1>4. PointsAt(h, it, 1)
  BY <1>2, <1>3 DEF PointsAt
<1>5. Behind(L, 1) = ToSet(L)
  BY <1>1, <1>2, ToSetMember DEF Behind
<1>6. QED BY <1>3, <1>4, <1>5 DEF Leaves, it

LEMMA ScanLemma ==
  ASSUME NEW h, HInv(h), NEW tab \in {1, 2}, NEW bkt \in Nat
  PROVE  Leaves(h, Scan(h, tab, bkt), From(h, tab, bkt))
<1> DEFINE full1 == IF tab = 1 THEN InUse(h.t1, bkt) ELSE {}
           from2 == IF tab = 1 THEN 0 ELSE bkt
           full2 == InUse(h.t2, from2)
           l1 == Lowest(full1)
           l2 == Lowest(full2)
           it == Scan(h, tab, bkt)
<1>1. /\ h.n1 \in Nat /\ h.n2 \in Nat
      /\ h.t1 \in [0 .. h.n1 - 1 -> Seq(Elem)]
      /\ h.t2 \in [0 .. h.n2 - 1 -> Seq(Elem)]
  BY DEF HInv, Shape
<1>2. \A j : j \in full1 <=> tab = 1 /\ j \in 0 .. h.n1 - 1 /\ j >= bkt /\ h.t1[j] # <<>>
  BY <1>1 DEF InUse
<1>3. \A j : j \in full2 <=> j \in 0 .. h.n2 - 1 /\ j >= from2 /\ h.t2[j] # <<>>
  BY <1>1 DEF InUse
<1>4. it = IF full1 # {} THEN Iterator(1, l1, {Head(h.t1[l1])})
           ELSE IF full2 # {} THEN Iterator(2, l2, {Head(h.t2[l2])}) ELSE AtEnd
  BY DEF Scan
<1>5. from2 \in Nat /\ (tab = 1 => from2 = 0) /\ (tab = 2 => from2 = bkt)
  OBVIOUS
<1>6. \A j \in 0 .. h.n1 - 1 : \A x \in ToSet(h.t1[j]) : x \in Elem /\ h.t1[j] # <<>>
  <2>1. \A j \in 0 .. h.n1 - 1 : \A x \in ToSet(h.t1[j]) : x \in Elem
    BY <1>1, ToSetElem
  <2>2. ToSet(<<>>) = {}
    BY DEF ToSet
  <2>3. QED BY <2>1, <2>2
<1>7. \A j \in 0 .. h.n2 - 1 : \A x \in ToSet(h.t2[j]) : x \in Elem /\ h.t2[j] # <<>>
  <2>1. \A j \in 0 .. h.n2 - 1 : \A x \in ToSet(h.t2[j]) : x \in Elem
    BY <1>1, ToSetElem
  <2>2. ToSet(<<>>) = {}
    BY DEF ToSet
  <2>3. QED BY <2>1, <2>2
<1> HIDE DEF full1, full2, l1, l2, from2, it
<1>8. CASE full1 # {}
  <2>1. full1 \subseteq Nat
    BY <1>1, <1>2
  <2>2. l1 \in full1 /\ \A i \in full1 : l1 <= i
    BY <1>8, <2>1, LowestLemma DEF l1
  <2>3. /\ tab = 1 /\ l1 \in 0 .. h.n1 - 1 /\ l1 \in Nat /\ l1 >= bkt
        /\ h.t1[l1] # <<>>
    BY <1>1, <1>2, <2>1, <2>2
  <2>4. Leaves(h, it, ToSet(h.t1[l1]) \cup From(h, 1, l1 + 1))
    <3>1. l1 \in Indices(h, 1) /\ List(h, 1, l1) = h.t1[l1]
      BY <2>3 DEF Indices, List
    <3>2. it = Iterator(1, l1, {Head(h.t1[l1])})
      BY <1>4, <1>8
    <3>3. QED BY <2>3, <3>1, <3>2, EnterLemma
  <2>5. \A j \in 0 .. h.n1 - 1 : j >= bkt /\ h.t1[j] # <<>> => j = l1 \/ j >= l1 + 1
    BY <1>2, <2>1, <2>2, <2>3
  <2>6. \A j \in 0 .. h.n1 - 1 : j >= l1 + 1 => j >= bkt
    BY <1>1, <2>3
  <2>7. From(h, 1, bkt) = ToSet(h.t1[l1]) \cup From(h, 1, l1 + 1)
    BY <1>6, <2>3, <2>5, <2>6 DEF From
  <2>8. QED BY <2>3, <2>4, <2>7 DEF it
<1>9. CASE full1 = {} /\ full2 # {}
  <2>1. full2 \subseteq Nat
    BY <1>1, <1>3
  <2>2. l2 \in full2 /\ \A i \in full2 : l2 <= i
    BY <1>9, <2>1, LowestLemma DEF l2
  <2>3. /\ l2 \in 0 .. h.n2 - 1 /\ l2 \in Nat /\ l2 >= from2
        /\ h.t2[l2] # <<>>
    BY <1>1, <1>3, <2>1, <2>2
  <2>4. Leaves(h, it, ToSet(h.t2[l2]) \cup From(h, 2, l2 + 1))
    <3>1. l2 \in Indices(h, 2) /\ List(h, 2, l2) = h.t2[l2]
      BY <2>3 DEF Indices, List
    <3>2. it = Iterator(2, l2, {Head(h.t2[l2])})
      BY <1>4, <1>9
    <3>3. QED BY <2>3, <3>1, <3>2, EnterLemma
  <2>5. \A j \in 0 .. h.n2 - 1 : j >= from2 /\ h.t2[j] # <<>> => j = l2 \/ j >= l2 + 1
    BY <1>3, <2>1, <2>2, <2>3
  <2>6. \A j \in 0 .. h.n2 - 1 : j >= l2 + 1 => j >= from2
    BY <1>1, <1>5, <2>3
  <2>7. tab = 1 => \A j \in 0 .. h.n1 - 1 : j >= bkt => h.t1[j] = <<>>
    BY <1>2, <1>9
  <2>8. \A e : e \in From(h, tab, bkt)
               <=> e \in Elem /\ \E j \in 0 .. h.n2 - 1 : j >= from2 /\ e \in ToSet(h.t2[j])
    <3>1. CASE tab = 1
      BY <1>5, <1>6, <2>7, <3>1 DEF From
    <3>2. CASE tab = 2
      BY <1>5, <3>2 DEF From
    <3>3. QED BY <3>1, <3>2
  <2>9. \A e : e \in From(h, 2, l2 + 1)
               <=> e \in Elem /\ \E j \in 0 .. h.n2 - 1 : j >= l2 + 1 /\ e \in ToSet(h.t2[j])
    BY DEF From
  <2>10. From(h, tab, bkt) = ToSet(h.t2[l2]) \cup From(h, 2, l2 + 1)
    BY <1>7, <2>3, <2>5, <2>6, <2>8, <2>9
  <2>11. QED BY <2>4, <2>10 DEF it
<1>10. CASE full1 = {} /\ full2 = {}
  <2>1. it = AtEnd
    BY <1>4, <1>10
  <2>2. tab = 1 => \A j \in 0 .. h.n1 - 1 : j >= bkt => h.t1[j] = <<>>
    BY <1>2, <1>10
  <2>3. \A j \in 0 .. h.n2 - 1 : j >= from2 => h.t2[j] = <<>>
    BY <1>3, <1>10
  <2>4. From(h, tab, bkt) = {}
    <3>1. CASE tab = 1
      BY <1>5, <1>6, <1>7, <2>2, <2>3, <3>1 DEF From
    <3>2. CASE tab = 2
      BY <1>5, <1>7, <2>3, <3>2 DEF From
    <3>3. QED BY <3>1, <3>2
  <2>5. QED BY <2>1, <2>4 DEF Leaves, it
<1>11. QED BY <1>8, <1>9, <1>10

\* What comes after a bucket is not in it.
LEMMA FromLater ==
  ASSUME NEW h, HInv(h), NEW tab \in {1, 2}, NEW bkt \in Indices(h, tab),
         NEW e \in ToSet(List(h, tab, bkt))
  PROVE  e \notin From(h, tab, bkt + 1)
<1> SUFFICES ASSUME e \in From(h, tab, bkt + 1) PROVE FALSE
  OBVIOUS
<1>1. bkt \in Nat
  BY DEF Indices
<1>2. \E m \in {1, 2} : \E n \in Indices(h, m) :
          e \in ToSet(List(h, m, n)) /\ (m = tab => n >= bkt + 1)
  <2>1. CASE tab = 1 /\ \E j \in 0 .. h.n1 - 1 : j >= bkt + 1 /\ e \in ToSet(h.t1[j])
    <3>1. PICK j \in 0 .. h.n1 - 1 : j >= bkt + 1 /\ e \in ToSet(h.t1[j])
      BY <2>1
    <3>2. j \in Indices(h, 1) /\ e \in ToSet(List(h, 1, j))
      BY <3>1 DEF Indices, List
    <3>3. QED BY <3>1, <3>2
  <2>2. CASE \E j \in 0 .. h.n2 - 1 : (tab = 1 \/ j >= bkt + 1) /\ e \in ToSet(h.t2[j])
    <3>1. PICK j \in 0 .. h.n2 - 1 : (tab = 1 \/ j >= bkt + 1) /\ e \in ToSet(h.t2[j])
      BY <2>2
    <3>2. j \in Indices(h, 2) /\ e \in ToSet(List(h, 2, j))
      BY <3>1 DEF Indices, List
    <3>3. QED BY <3>1, <3>2
  <2>3. QED BY <2>1, <2>2 DEF From
<1>3. PICK m \in {1, 2} : \E n \in Indices(h, m) :
          e \in ToSet(List(h, m, n)) /\ (m = tab => n >= bkt + 1)
  BY <1>2
<1>4. bkt >= bkt + 1
  <2>1. PICK n \in Indices(h, m) : e \in ToSet(List(h, m, n)) /\ (m = tab => n >= bkt + 1)
    BY <1>3
  <2>2. tab = m /\ bkt = n
    BY <2>1, OneList
  <2>3. QED BY <2>1, <2>2
<1>5. QED BY <1>1, <1>4

\* A step gives one of the nodes that are left.
LEMMA IncrementLemma ==
  ASSUME NEW h, HInv(h), NEW it, NEW T, Leaves(h, it, T), it.slot # {}
  PROVE  \E e \in T : it.slot = {e} /\ Leaves(h, Increment(h, it), T \ {e})
<1> DEFINE L == List(h, it.tab, it.bkt)
           next == UNION {NextOf(h, x) : x \in it.slot}
           later == From(h, it.tab, it.bkt + 1)
<1>1. it # AtEnd
  BY IteratorFields DEF AtEnd
<1>2. PICK p \in Nat : PointsAt(h, it, p) /\ T = Behind(L, p) \cup later
  BY <1>1 DEF Leaves
<1>3. /\ it.tab \in {1, 2} /\ it.bkt \in Indices(h, it.tab) /\ p \in 1 .. Len(L)
      /\ it.slot = {L[p]}
  BY <1>2 DEF PointsAt
<1>4. L \in Seq(Elem) /\ Distinct(L) /\ Len(L) \in Nat /\ it.bkt + 1 \in Nat
  <2>1. L \in Seq(Elem) /\ Distinct(L)
    BY <1>3, ListLemma
  <2> HIDE DEF L
  <2>2. Len(L) \in Nat
    BY <2>1, LenProperties
  <2>3. it.bkt \in Nat
    <3>1. Indices(h, it.tab) \subseteq Nat
      BY DEF Indices
    <3>2. QED BY <1>3, <3>1
  <2>4. QED BY <2>1, <2>2, <2>3
<1>5. next = IF p = Len(L) THEN {} ELSE {L[p + 1]}
  <2>1. next = NextOf(h, L[p])
    BY <1>3
  <2>2. NextOf(h, L[p]) = IF p = Len(L) THEN {} ELSE {L[p + 1]}
    <3>1. it.tab \in {1, 2} /\ it.bkt \in Indices(h, it.tab) /\ p \in 1 .. Len(List(h, it.tab, it.bkt))
      BY <1>3
    <3>2. NextIs(h, List(h, it.tab, it.bkt), p)
      BY <3>1, NextOfLemma
    <3>3. QED BY <3>2 DEF NextIs
  <2> HIDE DEF next, L
  <2>3. QED BY <2>1, <2>2
<1>6. Increment(h, it) = IF next # {} THEN Iterator(it.tab, it.bkt, next)
                         ELSE Scan(h, it.tab, it.bkt + 1)
  BY DEF Increment
<1>7. L[p] \in ToSet(L)
  BY <1>3, <1>4, ToSetMember
<1>8. L[p] \notin later
  BY <1>3, <1>7, FromLater
<1>9. L[p] \in T
  BY <1>2, <1>3 DEF Behind
<1> HIDE DEF L, later, next
<1>10. CASE p = Len(L)
  <2>1. Behind(L, p) = {L[p]}
    BY <1>3, <1>4, <1>10 DEF Behind
  <2>2. T \ {L[p]} = later
    BY <1>2, <1>8, <2>1
  <2>3. Leaves(h, Increment(h, it), later)
    BY <1>3, <1>4, <1>5, <1>6, <1>10, ScanLemma DEF later
  <2>4. QED BY <1>3, <1>9, <2>2, <2>3
<1>11. CASE p # Len(L)
  <2> DEFINE n == Iterator(it.tab, it.bkt, {L[p + 1]})
  <2>1. Increment(h, it) = n
    BY <1>5, <1>6, <1>11
  <2>2. n.tab = it.tab /\ n.bkt = it.bkt /\ n.slot = {L[p + 1]}
    BY IteratorFields
  <2> HIDE DEF n
  <2>3. p + 1 \in 1 .. Len(L) /\ p + 1 \in Nat
    BY <1>3, <1>4, <1>11
  <2>4. PointsAt(h, n, p + 1)
    BY <1>3, <2>2, <2>3 DEF PointsAt, L
  <2>5. Behind(L, p) \ {L[p]} = Behind(L, p + 1)
    <3>1. \A q \in p .. Len(L) : q = p \/ q \in p + 1 .. Len(L)
      BY <1>3, <1>4
    <3>2. \A q \in p + 1 .. Len(L) : q \in p .. Len(L) /\ q # p /\ q \in DOMAIN L
      BY <1>3, <1>4
    <3>3. \A q \in p + 1 .. Len(L) : L[q] # L[p]
      <4>1. p \in DOMAIN L
        BY <1>3, <1>4
      <4>2. QED BY <1>4, <3>2, <4>1, DistinctAt
    <3>4. QED BY <3>1, <3>2, <3>3 DEF Behind
  <2>6. T \ {L[p]} = Behind(L, p + 1) \cup later
    BY <1>2, <1>8, <2>5
  <2>7. Leaves(h, n, T \ {L[p]})
    BY <2>2, <2>3, <2>4, <2>6 DEF Leaves, L, later
  <2>8. QED BY <1>3, <1>9, <2>1, <2>7
<1>12. QED BY <1>10, <1>11

LEMMA AppendLemma ==
  ASSUME NEW S, NEW out \in Seq(S), NEW e \in S
  PROVE  /\ Append(out, e) \in Seq(S) /\ Len(Append(out, e)) = Len(out) + 1
         /\ ToSet(Append(out, e)) = ToSet(out) \cup {e}
<1> DEFINE A == Append(out, e)
<1>1. Len(out) \in Nat
  BY LenProperties
<1>2. /\ A \in Seq(S) /\ Len(A) = Len(out) + 1
      /\ \A i \in 1 .. Len(out) : A[i] = out[i]
      /\ A[Len(out) + 1] = e
  BY AppendProperties
<1> HIDE DEF A
<1>3. \A i : i \in 1 .. Len(A) <=> i \in 1 .. Len(out) \/ i = Len(out) + 1
  BY <1>1, <1>2
<1>4. DOMAIN A = 1 .. Len(A) /\ DOMAIN out = 1 .. Len(out)
  BY <1>2
<1>5. \A x : x \in ToSet(A) <=> x \in ToSet(out) \/ x = e
  BY <1>2, <1>3, <1>4 DEF ToSet
<1>6. QED BY <1>2, <1>5 DEF A

\* The state of the loop of Walk at the start, and after one more pass
WalkStart(h) == [it |-> Scan(h, 1, 0), out |-> <<>>]

WalkPass(h, w) ==
    CHOOSE r \in {IF s.it.slot = {} THEN s
                  ELSE [it  |-> Increment(h, s.it),
                        out |-> Append(s.out, CHOOSE e \in s.it.slot : TRUE)] :
                      s \in {w}} : TRUE

\* The recursive function of the loop exists.
LEMMA WalkLoop ==
  ASSUME NEW h, Steps(h) \in Nat
  PROVE  \E w : /\ w[0] = WalkStart(h) /\ Walk(h) = w[Steps(h)]
                /\ \A n \in 1 .. Steps(h) : w[n] = WalkPass(h, w[n - 1])
<1> DEFINE N == Steps(h)
           Next1(f, i) == IF i = 0 THEN WalkStart(h) ELSE WalkPass(h, f[i - 1])
           IsLoop(f, n) == f = [i \in 0 .. n |-> Next1(f, i)]
           A == {n \in Nat : \E f : IsLoop(f, n)}
           w == CHOOSE f : IsLoop(f, N)
<1>1. Walk(h) = w[N]
  BY DEF Walk, WalkStart, WalkPass
<1>2. 0 \in A
  <2>1. IsLoop([i \in 0 .. 0 |-> WalkStart(h)], 0)
    OBVIOUS
  <2>2. QED BY <2>1
<1>3. ASSUME NEW n \in A PROVE n + 1 \in A
  <2>1. n \in Nat
    OBVIOUS
  <2>2. PICK f : IsLoop(f, n)
    OBVIOUS
  <2> DEFINE g == [i \in 0 .. n + 1 |-> Next1(f, i)]
  <2>3. ASSUME NEW i \in 0 .. n PROVE g[i] = f[i]
    <3> HIDE DEF Next1
    <3>1. g[i] = Next1(f, i)
      BY <2>1
    <3>2. f[i] = Next1(f, i)
      BY <2>2
    <3>3. QED BY <3>1, <3>2
  <2>4. ASSUME NEW i \in 0 .. n + 1 PROVE Next1(g, i) = Next1(f, i)
    <3>1. CASE i = 0
      BY <3>1
    <3>2. CASE i # 0
      <4>1. i - 1 \in 0 .. n
        BY <2>1, <3>2
      <4>2. g[i - 1] = f[i - 1]
        BY <2>3, <4>1
      <4> HIDE DEF g
      <4>3. QED BY <3>2, <4>2
    <3>3. QED BY <3>1, <3>2
  <2>5. g = [i \in 0 .. n + 1 |-> Next1(f, i)]
    OBVIOUS
  <2> HIDE DEF g, Next1
  <2>6. IsLoop(g, n + 1)
    BY <2>4, <2>5
  <2>7. QED BY <2>1, <2>6
<1> HIDE DEF A, N
<1>4. N \in A
  BY <1>2, <1>3, SetInduction DEF N
<1>5. IsLoop(w, N)
  <2>1. PICK f : IsLoop(f, N)
    BY <1>4 DEF A
  <2> HIDE DEF IsLoop
  <2>2. QED BY <2>1
<1> HIDE DEF w
<1>6. N \in Nat
  BY DEF N
<1>7. w[0] = WalkStart(h) /\ \A n \in 1 .. N : w[n] = WalkPass(h, w[n - 1])
  BY <1>5, <1>6
<1>8. QED BY <1>1, <1>7 DEF N

LEMMA WalkPassIs ==
  ASSUME NEW h, NEW s
  PROVE  WalkPass(h, s) = IF s.it.slot = {} THEN s
                          ELSE [it  |-> Increment(h, s.it),
                                out |-> Append(s.out, CHOOSE e \in s.it.slot : TRUE)]
BY DEF WalkPass

\* Everything is left at begin().
LEMMA StartLemma ==
  ASSUME NEW h, HInv(h)
  PROVE  Leaves(h, Scan(h, 1, 0), Stored(h))
<1>1. \A e : e \in From(h, 1, 0) <=> e \in Stored(h)
  <2>1. Shape(h) /\ Stored(h) \subseteq Elem
    BY StoredElem DEF HInv
  <2>2. \A j : j \in 0 .. h.n1 - 1 => j >= 0
    OBVIOUS
  <2>3. \A e : e \in Stored(h) <=> \/ \E j \in 0 .. h.n1 - 1 : e \in ToSet(h.t1[j])
                                  \/ \E j \in 0 .. h.n2 - 1 : e \in ToSet(h.t2[j])
    BY <2>1, StoredMember
  <2>4. QED BY <2>1, <2>2, <2>3 DEF From
<1>2. From(h, 1, 0) = Stored(h)
  BY <1>1
<1>3. QED BY <1>2, ScanLemma

LEMMA SlotLemma ==
  ASSUME NEW h, NEW it, NEW T, Leaves(h, it, T), it.slot = {}
  PROVE  it = AtEnd /\ T = {}
BY DEF Leaves, PointsAt

\* The values given so far and those left are the elements of the table.
LEMMA WalkLemma ==
  ASSUME NEW h, HInv(h), IsFiniteSet(Stored(h))
  PROVE  /\ Walk(h).it = AtEnd /\ Walk(h).out \in Seq(Elem)
         /\ ToSet(Walk(h).out) = Stored(h) /\ Len(Walk(h).out) = Cardinality(Stored(h))
<1> DEFINE S == Stored(h)
           N == Steps(h)
<1>1. N = Cardinality(S) /\ N \in Nat /\ S \subseteq Elem
  BY FS_CardinalityType, StoredElem DEF Steps, HInv
<1>2. PICK w : /\ w[0] = WalkStart(h) /\ Walk(h) = w[N]
               /\ \A n \in 1 .. N : w[n] = WalkPass(h, w[n - 1])
  BY <1>1, WalkLoop
<1> HIDE DEF N, S
<1> DEFINE Left(n, T) == /\ T \subseteq S /\ Leaves(h, w[n].it, T) /\ IsFiniteSet(T)
                         /\ Cardinality(T) = N - n
                         /\ w[n].out \in Seq(Elem) /\ Len(w[n].out) = n
                         /\ ToSet(w[n].out) \cup T = S
           A == {n \in Nat : n <= N => \E T : Left(n, T)}
<1>3. 0 \in A
  <2>1. w[0].it = Scan(h, 1, 0) /\ w[0].out = <<>>
    BY <1>2 DEF WalkStart
  <2>2. <<>> \in Seq(Elem) /\ Len(<<>>) = 0 /\ ToSet(<<>>) = {}
    BY DEF ToSet
  <2>3. Leaves(h, w[0].it, S)
    BY <2>1, StartLemma DEF S
  <2>4. IsFiniteSet(S) /\ Cardinality(S) = N - 0
    BY <1>1 DEF S
  <2>5. Left(0, S)
    BY <2>1, <2>2, <2>3, <2>4
  <2> HIDE DEF Left
  <2>6. QED BY <2>5
<1>4. ASSUME NEW n \in A PROVE n + 1 \in A
  <2> SUFFICES ASSUME n + 1 <= N PROVE \E T : Left(n + 1, T)
    OBVIOUS
  <2>1. n \in Nat /\ n <= N /\ n + 1 \in 1 .. N /\ (n + 1) - 1 = n /\ N - n > 0
        /\ (N - n) - 1 = N - (n + 1)
    BY <1>1
  <2>2. PICK T : Left(n, T)
    BY <2>1
  <2>3. w[n].it.slot # {}
    <3> SUFFICES ASSUME w[n].it.slot = {} PROVE FALSE
      OBVIOUS
    <3>1. T = {}
      BY <2>2, SlotLemma
    <3>2. Cardinality(T) = 0
      BY <3>1, FS_EmptySet
    <3>3. QED BY <2>1, <2>2, <3>2
  <2>4. PICK e \in T : w[n].it.slot = {e} /\ Leaves(h, Increment(h, w[n].it), T \ {e})
    BY <2>2, <2>3, IncrementLemma
  <2>5. w[n + 1] = [it  |-> Increment(h, w[n].it), out |-> Append(w[n].out, e)]
    <3>1. w[n + 1] = WalkPass(h, w[n])
      BY <1>2, <2>1
    <3>2. (CHOOSE x \in w[n].it.slot : TRUE) = e
      BY <2>4
    <3>3. QED BY <2>3, <3>1, <3>2, WalkPassIs
  <2>6. w[n + 1].it = Increment(h, w[n].it) /\ w[n + 1].out = Append(w[n].out, e)
    BY <2>5
  <2>7. e \in Elem
    BY <1>1, <2>2
  <2>8. /\ w[n + 1].out \in Seq(Elem) /\ Len(w[n + 1].out) = n + 1
        /\ ToSet(w[n + 1].out) = ToSet(w[n].out) \cup {e}
    BY <2>2, <2>6, <2>7, AppendLemma
  <2>9. IsFiniteSet(T \ {e}) /\ Cardinality(T \ {e}) = Cardinality(T) - 1
    BY <2>2, FS_RemoveElement
  <2>10. Left(n + 1, T \ {e})
    <3>1. Cardinality(T \ {e}) = N - (n + 1)
      BY <2>1, <2>2, <2>9
    <3>2. Leaves(h, w[n + 1].it, T \ {e})
      BY <2>4, <2>6
    <3>3. ToSet(w[n + 1].out) \cup (T \ {e}) = S
      BY <2>2, <2>8
    <3>4. T \ {e} \subseteq S
      BY <2>2
    <3>5. QED BY <2>8, <2>9, <3>1, <3>2, <3>3, <3>4
  <2> HIDE DEF Left
  <2>11. QED BY <2>10
<1> HIDE DEF A
<1>5. N \in A
  BY <1>1, <1>3, <1>4, SetInduction
<1>6. PICK T : Left(N, T)
  <2>1. N <= N
    BY <1>1
  <2> HIDE DEF Left
  <2>2. QED BY <1>5, <2>1 DEF A
<1>7. T = {}
  <2>1. Cardinality(T) = 0
    BY <1>1, <1>6
  <2>2. QED BY <1>6, <2>1, FS_EmptySet
<1>8. w[N].it = AtEnd
  <2>1. w[N].it.slot = {}
    <3> SUFFICES ASSUME w[N].it.slot # {} PROVE FALSE
      OBVIOUS
    <3>1. PICK it : it = w[N].it
      OBVIOUS
    <3>2. Leaves(h, it, T) /\ it.slot # {}
      BY <1>6, <3>1
    <3>3. \E e \in T : it.slot = {e}
      BY <3>2, IncrementLemma
    <3>4. QED BY <1>7, <3>3
  <2>2. QED BY <1>6, <2>1, SlotLemma
<1>9. ToSet(w[N].out) = S /\ Len(w[N].out) = N /\ w[N].out \in Seq(Elem)
  BY <1>6, <1>7
<1>10. QED BY <1>1, <1>2, <1>8, <1>9 DEF S

\* A loop from begin() to end() gives every element once, in the middle of a
\* rehash too, when it has to go from the old array to the new one.
THEOREM IterationTheorem == Spec => []IterationExact
<1>1. Inv => IterationExact
  BY WalkLemma DEF Inv, IterationExact
<1>2. QED BY <1>1, Invariance, PTL

-----------------------------------------------------------------------------
(* Union, Intersection and Difference                                       *)

\* A lookup in any table answers with the element of the key and moves nodes,
\* but the table holds what it held.
LEMMA FoundIs ==
  ASSUME NEW t, HInv(t), NEW k \in Key
  PROVE  /\ HInv(Found(t, k).h) /\ Stored(Found(t, k).h) = Stored(t)
         /\ Found(t, k).out = WithKey(Stored(t), k)
<1> DEFINE h == IncrementalRehash(t)
           i == FirstWith(h, TablesInUse(h), k)
           B == Bucket(h, i, k)
           j == Index(h, i, k)
           x == Node(h, i, k)
           r == Found(t, k)
<1>1. HInv(h) /\ Stored(h) = Stored(t)
  BY IncrementalRehashLemma
<1>2. /\ r.h = IF i = 0 THEN h ELSE Relinked(h, i, j, ToFront(B, k))
      /\ r.out = IF i = 0 THEN {} ELSE {x}
  <2>1. CASE i = 0
    BY <2>1 DEF Found
  <2>2. CASE i # 0
    BY <2>2 DEF Found
  <2>3. QED BY <2>1, <2>2
<1> HIDE DEF h, r
<1>3. CASE i = 0
  <2>1. WithKey(Stored(h), k) = {}
    BY <1>1, <1>3, LookupLemma
  <2>2. QED BY <1>1, <1>2, <1>3, <2>1 DEF r
<1>4. CASE i # 0
  <2>1. /\ i \in {1, 2} /\ j \in Indices(h, i)
        /\ B = List(h, i, j) /\ B \in Seq(Elem) /\ Distinct(B) /\ Search(B, k) # 0
        /\ ToSet(B) \subseteq Stored(h) /\ WithKey(Stored(h), k) = {x}
    BY <1>1, <1>4, FoundLemma
  <2>2. r.h = Relinked(h, i, j, ToFront(B, k)) /\ r.out = {x}
    BY <1>2, <1>4
  <2> DEFINE N == ToFront(B, k)
  <2> HIDE DEF i, B, j, x
  <2>3. N \in Seq(Elem) /\ Distinct(N) /\ ToSet(N) = ToSet(B)
    BY <2>1, ToFrontLemma
  <2> HIDE DEF N
  <2>4. HInv(r.h) /\ Stored(r.h) = (Stored(h) \ ToSet(B)) \cup ToSet(N)
    <3>1. ToSet(N) \subseteq ToSet(List(h, i, j))
      BY <2>1, <2>3
    <3>2. QED BY <1>1, <2>1, <2>2, <2>3, <3>1, SublistLemma DEF N
  <2>5. Stored(r.h) = Stored(t)
    BY <1>1, <2>1, <2>3, <2>4
  <2>6. QED BY <1>1, <2>1, <2>2, <2>4, <2>5 DEF r
<1>5. QED BY <1>3, <1>4

\* The state of a loop of HashSet at the start, and after one more pass
LoopStart(a, b, out) == [a |-> a, b |-> b, it |-> Scan(a, 1, 0), out |-> out]

LoopPass(same, wanted, w) ==
    CHOOSE r \in {IF s.it.slot = {} THEN s ELSE Step(s, same, wanted) : s \in {w}} : TRUE

LEMMA LoopPassIs ==
  ASSUME NEW same, NEW wanted, NEW s
  PROVE  LoopPass(same, wanted, s) = IF s.it.slot = {} THEN s ELSE Step(s, same, wanted)
BY DEF LoopPass

\* The recursive function of the loop exists.
LEMMA FilteredLoop ==
  ASSUME NEW a, NEW b, NEW same, NEW wanted, NEW out, Steps(a) \in Nat
  PROVE  \E w : /\ w[0] = LoopStart(a, b, out)
                /\ Filtered(a, b, same, wanted, out) = w[Steps(a)]
                /\ \A n \in 1 .. Steps(a) : w[n] = LoopPass(same, wanted, w[n - 1])
<1> DEFINE N == Steps(a)
           Next1(f, i) == IF i = 0 THEN LoopStart(a, b, out)
                                   ELSE LoopPass(same, wanted, f[i - 1])
           IsLoop(f, n) == f = [i \in 0 .. n |-> Next1(f, i)]
           A == {n \in Nat : \E f : IsLoop(f, n)}
           w == CHOOSE f : IsLoop(f, N)
<1>1. Filtered(a, b, same, wanted, out) = w[N]
  BY DEF Filtered, LoopStart, LoopPass
<1>2. 0 \in A
  <2>1. IsLoop([i \in 0 .. 0 |-> LoopStart(a, b, out)], 0)
    OBVIOUS
  <2>2. QED BY <2>1
<1>3. ASSUME NEW n \in A PROVE n + 1 \in A
  <2>1. n \in Nat
    OBVIOUS
  <2>2. PICK f : IsLoop(f, n)
    OBVIOUS
  <2> DEFINE g == [i \in 0 .. n + 1 |-> Next1(f, i)]
  <2>3. ASSUME NEW i \in 0 .. n PROVE g[i] = f[i]
    <3> HIDE DEF Next1
    <3>1. g[i] = Next1(f, i)
      BY <2>1
    <3>2. f[i] = Next1(f, i)
      BY <2>2
    <3>3. QED BY <3>1, <3>2
  <2>4. ASSUME NEW i \in 0 .. n + 1 PROVE Next1(g, i) = Next1(f, i)
    <3>1. CASE i = 0
      BY <3>1
    <3>2. CASE i # 0
      <4>1. i - 1 \in 0 .. n
        BY <2>1, <3>2
      <4>2. g[i - 1] = f[i - 1]
        BY <2>3, <4>1
      <4> HIDE DEF g
      <4>3. QED BY <3>2, <4>2
    <3>3. QED BY <3>1, <3>2
  <2>5. g = [i \in 0 .. n + 1 |-> Next1(f, i)]
    OBVIOUS
  <2> HIDE DEF g, Next1
  <2>6. IsLoop(g, n + 1)
    BY <2>4, <2>5
  <2>7. QED BY <2>1, <2>6
<1> HIDE DEF A, N
<1>4. N \in A
  BY <1>2, <1>3, SetInduction DEF N
<1>5. IsLoop(w, N)
  <2>1. PICK f : IsLoop(f, N)
    BY <1>4 DEF A
  <2> HIDE DEF IsLoop
  <2>2. QED BY <2>1
<1> HIDE DEF w
<1>6. N \in Nat
  BY DEF N
<1>7. /\ w[0] = LoopStart(a, b, out)
      /\ \A n \in 1 .. N : w[n] = LoopPass(same, wanted, w[n - 1])
  BY <1>5, <1>6
<1>8. QED BY <1>1, <1>7 DEF N

\* The fields of the state after a step that looked m up with the result r
Stepped(s, same, wanted, m, r, w) ==
    /\ w.b = r.h /\ w.a = IF same THEN r.h ELSE s.a
    /\ w.it = Increment(w.a, s.it)
    /\ w.out = IF (r.out # {}) = wanted THEN Append(s.out, m) ELSE s.out

LEMMA StepFields ==
  ASSUME NEW s, NEW same, NEW wanted, NEW m, s.it.slot = {m}, NEW w,
         w = Step(s, same, wanted)
  PROVE  Stepped(s, same, wanted, m, Found(s.b, GetKey[m]), w)
<1> DEFINE r == Found(s.b, GetKey[m])
           a == IF same THEN r.h ELSE s.a
<1>1. (CHOOSE e \in s.it.slot : TRUE) = m
  OBVIOUS
<1>2. w = [a   |-> a, b |-> r.h, it |-> Increment(a, s.it),
           out |-> IF (r.out # {}) = wanted THEN Append(s.out, m) ELSE s.out]
  BY <1>1 DEF Step
<1> HIDE DEF a, r
<1>3. /\ w.a = a /\ w.b = r.h /\ w.it = Increment(a, s.it)
      /\ w.out = IF (r.out # {}) = wanted THEN Append(s.out, m) ELSE s.out
  BY <1>2
<1>4. QED BY <1>3 DEF a, r, Stepped

\* The keys of some elements, and of what a loop gave its callback
KeysIn(S) == {GetKey[e] : e \in S}

\* The callback was given each of the keys K once.
Gave(out, K) == /\ out \in Seq(Elem) /\ KeysIn(ToSet(out)) = K
                /\ IsFiniteSet(K) /\ Len(out) = Cardinality(K)

LEMMA GaveMore ==
  ASSUME NEW out, NEW K, Gave(out, K), NEW e \in Elem, GetKey[e] \notin K
  PROVE  Gave(Append(out, e), K \cup {GetKey[e]})
<1> DEFINE A == Append(out, e)
           k == GetKey[e]
<1>1. /\ out \in Seq(Elem) /\ KeysIn(ToSet(out)) = K
      /\ IsFiniteSet(K) /\ Len(out) = Cardinality(K)
  BY DEF Gave
<1>2. A \in Seq(Elem) /\ Len(A) = Len(out) + 1 /\ ToSet(A) = ToSet(out) \cup {e}
  BY <1>1, AppendLemma
<1> HIDE DEF A
<1>3. KeysIn(ToSet(A)) = K \cup {k}
  BY <1>1, <1>2 DEF KeysIn
<1> HIDE DEF k
<1>4. IsFiniteSet(K \cup {k}) /\ Cardinality(K \cup {k}) = Cardinality(K) + 1
  BY <1>1, FS_AddElement DEF k
<1>5. QED BY <1>1, <1>2, <1>3, <1>4 DEF Gave, A, k

\* The elements of a whose keys are in b, or those whose keys are not
Chosen(a, b, wanted) == {e \in Stored(a) : (GetKey[e] \in KeysOf(b)) = wanted}

\* No lookup changes the table.
Still(t) == \A k \in Key : Found(t, k).h = t

\* The loop has the elements T of a to go.
StillToDo(a, b, same, wanted, out, s, T) ==
    /\ T \subseteq Stored(a) /\ IsFiniteSet(T) /\ Leaves(a, s.it, T)
    /\ s.a = a /\ HInv(s.b) /\ Stored(s.b) = Stored(b) /\ (same => s.b = a)
    /\ Gave(s.out, KeysIn(ToSet(out)) \cup KeysIn(Chosen(a, b, wanted) \ T))

\* None of them was given before.
NewKeys(a, b, wanted, out) ==
    \A e \in Chosen(a, b, wanted) : GetKey[e] \notin KeysIn(ToSet(out))

\* What a loop over a relies on: with one set on both sides, no lookup changes it.
Loopable(a, b, same, wanted, out) ==
    /\ HInv(a) /\ IsFiniteSet(Stored(a)) /\ HInv(b)
    /\ same \in BOOLEAN /\ wanted \in BOOLEAN /\ (same => a = b /\ Still(a))
    /\ Gave(out, KeysIn(ToSet(out))) /\ NewKeys(a, b, wanted, out)

\* A pass of the loop looks one more element of a up.
LEMMA LoopStep ==
  ASSUME NEW a, NEW b, NEW same, NEW wanted, NEW out, Loopable(a, b, same, wanted, out),
         NEW s, NEW T, StillToDo(a, b, same, wanted, out, s, T), T # {},
         NEW w, w = LoopPass(same, wanted, s)
  PROVE  \E e \in T : StillToDo(a, b, same, wanted, out, w, T \ {e})
<1>0. /\ HInv(a) /\ same \in BOOLEAN /\ wanted \in BOOLEAN /\ (same => Still(a))
      /\ NewKeys(a, b, wanted, out)
  BY DEF Loopable
<1>1. /\ T \subseteq Stored(a) /\ IsFiniteSet(T) /\ Leaves(a, s.it, T)
      /\ s.a = a /\ HInv(s.b) /\ Stored(s.b) = Stored(b) /\ (same => s.b = a)
      /\ Gave(s.out, KeysIn(ToSet(out)) \cup KeysIn(Chosen(a, b, wanted) \ T))
  BY DEF StillToDo
<1>2. s.it.slot # {}
  BY <1>1, SlotLemma
<1>3. PICK m \in T : s.it.slot = {m} /\ Leaves(a, Increment(a, s.it), T \ {m})
  BY <1>0, <1>1, <1>2, IncrementLemma
<1> DEFINE k == GetKey[m]
           r == Found(s.b, k)
           C == Chosen(a, b, wanted)
           K == KeysIn(ToSet(out)) \cup KeysIn(C \ T)
<1>4. m \in Stored(a) /\ m \in Elem /\ k \in Key
  BY <1>0, <1>1, <1>3, StoredElem, GetKeyAssumption DEF HInv
<1>5. /\ w.b = r.h /\ w.a = IF same THEN r.h ELSE s.a
      /\ w.it = Increment(w.a, s.it)
      /\ w.out = IF (r.out # {}) = wanted THEN Append(s.out, m) ELSE s.out
  <2>1. w = Step(s, same, wanted)
    BY <1>2, LoopPassIs
  <2>2. Stepped(s, same, wanted, m, Found(s.b, GetKey[m]), w)
    BY <1>3, <2>1, StepFields
  <2>3. QED BY <2>2 DEF Stepped
<1>6. HInv(r.h) /\ Stored(r.h) = Stored(b) /\ r.out = WithKey(Stored(b), k)
  BY <1>1, <1>4, FoundIs
<1>7. w.a = a /\ (same => w.b = a)
  <2>1. CASE same
    <3>1. r.h = a
      BY <1>0, <1>1, <1>4, <2>1 DEF Still
    <3>2. QED BY <1>5, <2>1, <3>1
  <2>2. CASE ~same
    BY <1>0, <1>1, <1>5, <2>2
  <2>3. QED BY <2>1, <2>2
<1>8. (r.out # {}) <=> k \in KeysOf(b)
  BY <1>6 DEF WithKey, KeysOf
<1>9. m \in C <=> (r.out # {}) = wanted
  BY <1>0, <1>4, <1>8 DEF Chosen
<1> HIDE DEF r, C
<1>10. Gave(w.out, KeysIn(ToSet(out)) \cup KeysIn(C \ (T \ {m})))
  <2>1. CASE m \in C
    <3>1. w.out = Append(s.out, m)
      BY <1>5, <1>9, <2>1
    <3>2. KeysIn(C \ (T \ {m})) = KeysIn(C \ T) \cup {k}
      BY <2>1, <1>3 DEF KeysIn
    <3>3. k \notin KeysIn(C \ T)
      <4> SUFFICES ASSUME NEW e \in C \ T, GetKey[e] = k PROVE FALSE
        BY DEF KeysIn
      <4>1. e \in Stored(a)
        BY DEF C, Chosen
      <4>2. e = m
        BY <1>0, <1>4, <4>1, OnePerKey
      <4>3. QED BY <1>3, <4>2
    <3>4. k \notin KeysIn(ToSet(out))
      BY <1>0, <2>1 DEF C, NewKeys
    <3>5. Gave(s.out, K)
      BY <1>1 DEF C
    <3> HIDE DEF K
    <3>6. k \notin K
      BY <3>3, <3>4 DEF K
    <3>7. Gave(Append(s.out, m), K \cup {k})
      BY <1>4, <3>5, <3>6, GaveMore
    <3>8. K \cup {k} = KeysIn(ToSet(out)) \cup KeysIn(C \ (T \ {m}))
      BY <3>2 DEF K
    <3>9. QED BY <3>1, <3>7, <3>8
  <2>2. CASE m \notin C
    <3>1. w.out = s.out
      BY <1>5, <1>9, <2>2
    <3>2. C \ (T \ {m}) = C \ T
      BY <2>2
    <3>3. QED BY <1>1, <3>1, <3>2 DEF C
  <2>3. QED BY <2>1, <2>2
<1>11. Leaves(a, w.it, T \ {m})
  BY <1>3, <1>5, <1>7
<1>12. IsFiniteSet(T \ {m}) /\ T \ {m} \subseteq Stored(a)
  BY <1>1, FS_RemoveElement
<1>13. HInv(w.b) /\ Stored(w.b) = Stored(b)
  BY <1>5, <1>6
<1>14. StillToDo(a, b, same, wanted, out, w, T \ {m})
  BY <1>7, <1>10, <1>11, <1>12, <1>13 DEF StillToDo, C
<1>15. QED BY <1>14

LEMMA FilteredLemma ==
  ASSUME NEW a, NEW b, NEW same, NEW wanted, NEW out, Loopable(a, b, same, wanted, out)
  PROVE  Exactly(Filtered(a, b, same, wanted, out),
                 KeysIn(ToSet(out)) \cup KeysIn(Chosen(a, b, wanted)), b)
<1> DEFINE S == Stored(a)
           N == Steps(a)
           C == Chosen(a, b, wanted)
           K == KeysIn(ToSet(out))
<1>0. /\ HInv(a) /\ IsFiniteSet(S) /\ HInv(b) /\ (same => a = b)
      /\ Gave(out, KeysIn(ToSet(out)))
  BY DEF Loopable
<1>1. N = Cardinality(S) /\ N \in Nat
  BY <1>0, FS_CardinalityType DEF Steps
<1>2. PICK w : /\ w[0] = LoopStart(a, b, out)
               /\ Filtered(a, b, same, wanted, out) = w[N]
               /\ \A n \in 1 .. N : w[n] = LoopPass(same, wanted, w[n - 1])
  BY <1>1, FilteredLoop
<1> HIDE DEF N
<1> DEFINE Left(n, T) == StillToDo(a, b, same, wanted, out, w[n], T)
           A == {n \in Nat : n <= N => \E T : Left(n, T) /\ Cardinality(T) = N - n}
<1>3. 0 \in A
  <2>1. /\ w[0].a = a /\ w[0].b = b /\ w[0].it = Scan(a, 1, 0) /\ w[0].out = out
    BY <1>2 DEF LoopStart
  <2>2. Leaves(a, w[0].it, S)
    BY <1>0, <2>1, StartLemma
  <2>3. KeysIn(C \ S) = {}
    BY DEF KeysIn, Chosen
  <2> HIDE DEF S, C
  <2>4. Gave(out, K \cup KeysIn(C \ S))
    BY <1>0, <2>3
  <2>5. IsFiniteSet(S) /\ Cardinality(S) = N - 0
    BY <1>0, <1>1 DEF S
  <2>6. Left(0, S)
    BY <1>0, <2>1, <2>2, <2>4, <2>5 DEF StillToDo, S, C
  <2> HIDE DEF Left
  <2>7. QED BY <2>5, <2>6
<1>4. ASSUME NEW n \in A PROVE n + 1 \in A
  <2> SUFFICES ASSUME n + 1 <= N
               PROVE  \E T : Left(n + 1, T) /\ Cardinality(T) = N - (n + 1)
    OBVIOUS
  <2>1. n \in Nat /\ n <= N /\ n + 1 \in 1 .. N /\ (n + 1) - 1 = n /\ N - n > 0
        /\ (N - n) - 1 = N - (n + 1)
    BY <1>1
  <2>2. PICK T : Left(n, T) /\ Cardinality(T) = N - n
    BY <2>1
  <2>3. T # {}
    <3> SUFFICES ASSUME T = {} PROVE FALSE
      OBVIOUS
    <3>1. Cardinality(T) = 0
      BY FS_EmptySet
    <3>2. QED BY <2>1, <2>2, <3>1
  <2>4. w[n + 1] = LoopPass(same, wanted, w[n])
    BY <1>2, <2>1
  <2>5. PICK e \in T : Left(n + 1, T \ {e})
    <3>1. StillToDo(a, b, same, wanted, out, w[n], T)
      BY <2>2
    <3>2. \E e \in T : StillToDo(a, b, same, wanted, out, w[n + 1], T \ {e})
      BY <2>3, <2>4, <3>1, LoopStep, Zenon
    <3>3. QED BY <3>2
  <2>6. IsFiniteSet(T)
    BY <2>2 DEF StillToDo
  <2> HIDE DEF Left
  <2>7. Cardinality(T \ {e}) = Cardinality(T) - 1
    BY <2>6, FS_RemoveElement
  <2>8. QED BY <2>1, <2>2, <2>5, <2>7
<1> HIDE DEF A
<1>5. N \in A
  BY <1>1, <1>3, <1>4, SetInduction
<1>6. PICK T : Left(N, T) /\ Cardinality(T) = N - N
  <2>1. N <= N
    BY <1>1
  <2> HIDE DEF Left
  <2>2. QED BY <1>5, <2>1 DEF A
<1> DEFINE r == w[N]
<1>7. T = {}
  <2>1. IsFiniteSet(T)
    BY <1>6 DEF StillToDo
  <2>2. Cardinality(T) = 0
    BY <1>1, <1>6
  <2>3. QED BY <2>1, <2>2, FS_EmptySet
<1>8. StillToDo(a, b, same, wanted, out, r, {})
  BY <1>6, <1>7
<1> HIDE DEF r
<1>9. /\ Leaves(a, r.it, {}) /\ HInv(r.b) /\ Stored(r.b) = Stored(b)
      /\ Gave(r.out, K \cup KeysIn(C))
  <2>1. C \ {} = C
    OBVIOUS
  <2>2. QED BY <1>8, <2>1 DEF StillToDo
<1>10. r.it.slot = {}
  <2> SUFFICES ASSUME r.it.slot # {} PROVE FALSE
    OBVIOUS
  <2>1. QED BY <1>0, <1>9, IncrementLemma
<1>11. Exactly(r, K \cup KeysIn(C), b)
  BY <1>9, <1>10 DEF Exactly, Gave, KeysIn, HInv
<1>12. QED BY <1>2, <1>11 DEF r

\* A set that was built by insertions is as good as the one under test.
LEMMA BuiltLemma ==
  ASSUME NEW seq \in Seq(Elem)
  PROVE  HInv(Built(seq)) /\ IsFiniteSet(Stored(Built(seq)))
<1> DEFINE N == Len(seq)
           Next1(f, i) == IF i = 0 THEN Empty ELSE Inserted(f[i - 1], seq[i]).h
           IsLoop(f, n) == f = [i \in 0 .. n |-> Next1(f, i)]
           A == {n \in Nat : \E f : IsLoop(f, n)}
           w == CHOOSE f : IsLoop(f, N)
<1>0. N \in Nat
  BY LenProperties
<1>1. Built(seq) = w[N]
  BY DEF Built
<1>2. 0 \in A
  <2>1. IsLoop([i \in 0 .. 0 |-> Empty], 0)
    OBVIOUS
  <2>2. QED BY <2>1
<1>3. ASSUME NEW n \in A PROVE n + 1 \in A
  <2>1. n \in Nat
    OBVIOUS
  <2>2. PICK f : IsLoop(f, n)
    OBVIOUS
  <2> DEFINE g == [i \in 0 .. n + 1 |-> Next1(f, i)]
  <2>3. ASSUME NEW i \in 0 .. n PROVE g[i] = f[i]
    <3> HIDE DEF Next1
    <3>1. g[i] = Next1(f, i)
      BY <2>1
    <3>2. f[i] = Next1(f, i)
      BY <2>2
    <3>3. QED BY <3>1, <3>2
  <2>4. ASSUME NEW i \in 0 .. n + 1 PROVE Next1(g, i) = Next1(f, i)
    <3>1. CASE i = 0
      BY <3>1
    <3>2. CASE i # 0
      <4>1. i - 1 \in 0 .. n
        BY <2>1, <3>2
      <4>2. g[i - 1] = f[i - 1]
        BY <2>3, <4>1
      <4> HIDE DEF g
      <4>3. QED BY <3>2, <4>2
    <3>3. QED BY <3>1, <3>2
  <2>5. g = [i \in 0 .. n + 1 |-> Next1(f, i)]
    OBVIOUS
  <2> HIDE DEF g, Next1
  <2>6. IsLoop(g, n + 1)
    BY <2>4, <2>5
  <2>7. QED BY <2>1, <2>6
<1> HIDE DEF A, N
<1>4. N \in A
  BY <1>0, <1>2, <1>3, SetInduction
<1>5. IsLoop(w, N)
  <2>1. PICK f : IsLoop(f, N)
    BY <1>4 DEF A
  <2> HIDE DEF IsLoop
  <2>2. QED BY <2>1
<1> HIDE DEF w
<1>6. w[0] = Empty /\ \A n \in 1 .. N : w[n] = Inserted(w[n - 1], seq[n]).h
  BY <1>0, <1>5
<1> DEFINE C == {n \in Nat : n <= N => HInv(w[n]) /\ IsFiniteSet(Stored(w[n]))}
<1>7. 0 \in C
  BY <1>6, EmptyLemma, FS_EmptySet DEF Empty
<1>8. ASSUME NEW n \in C PROVE n + 1 \in C
  <2> SUFFICES ASSUME n + 1 <= N PROVE HInv(w[n + 1]) /\ IsFiniteSet(Stored(w[n + 1]))
    OBVIOUS
  <2>1. n \in Nat /\ n <= N /\ n + 1 \in 1 .. N /\ (n + 1) - 1 = n
    BY <1>0
  <2>2. HInv(w[n]) /\ IsFiniteSet(Stored(w[n]))
    BY <2>1
  <2>3. seq[n + 1] \in Elem
    BY <2>1 DEF N
  <2>4. w[n + 1] = Inserted(w[n], seq[n + 1]).h
    BY <1>6, <2>1
  <2>5. InsertedInto(w[n], seq[n + 1], Inserted(w[n], seq[n + 1]))
    BY <2>2, <2>3, InsertedLemma
  <2>6. /\ HInv(w[n + 1])
        /\ \/ Stored(w[n + 1]) = Stored(w[n]) \cup {seq[n + 1]}
           \/ Stored(w[n + 1]) = Stored(w[n])
    BY <2>4, <2>5 DEF InsertedInto
  <2>7. QED BY <2>2, <2>6, FS_AddElement
<1> HIDE DEF C
<1>9. N \in C
  BY <1>0, <1>7, <1>8, SetInduction
<1>10. HInv(w[N]) /\ IsFiniteSet(Stored(w[N]))
  <2>1. N <= N
    BY <1>0
  <2>2. QED BY <1>9, <2>1 DEF C
<1>11. QED BY <1>1, <1>10

\* A loop that changes nothing gives each key once.
LEMMA WalkGave ==
  ASSUME NEW h, HInv(h), IsFiniteSet(Stored(h))
  PROVE  Gave(Walk(h).out, KeysOf(h)) /\ KeysIn(ToSet(Walk(h).out)) = KeysOf(h)
<1> DEFINE S == Stored(h)
           K == KeysOf(h)
           f == [e \in S |-> GetKey[e]]
           out == Walk(h).out
<1>1. out \in Seq(Elem) /\ ToSet(out) = S /\ Len(out) = Cardinality(S)
  BY WalkLemma
<1>2. KeysIn(S) = K
  BY DEF KeysIn, KeysOf
<1>3. f \in Bijection(S, K)
  <2>1. f \in [S -> K]
    BY DEF KeysOf
  <2>2. \A e, g \in S : f[e] = f[g] => e = g
    BY OnePerKey
  <2>3. \A k \in K : \E e \in S : f[e] = k
    BY DEF KeysOf
  <2> HIDE DEF f, S, K
  <2>4. QED BY <2>1, <2>2, <2>3 DEF Bijection, Injection, Surjection, IsInjective
<1> HIDE DEF f, out, K
<1>4. IsFiniteSet(K) /\ Cardinality(K) = Cardinality(S)
  BY <1>3, FS_Bijection DEF ExistsBijection
<1>5. QED BY <1>1, <1>2, <1>4 DEF Gave, out, K

LEMMA NothingGiven == Gave(<<>>, {}) /\ KeysIn(ToSet(<<>>)) = {}
<1>1. ToSet(<<>>) = {} /\ KeysIn({}) = {} /\ <<>> \in Seq(Elem) /\ Len(<<>>) = 0
  BY DEF ToSet, KeysIn
<1>2. IsFiniteSet({}) /\ Cardinality({}) = 0
  BY FS_EmptySet
<1>3. QED BY <1>1, <1>2 DEF Gave

\* Operations on a table that is what it should be, and on one that may be the
\* same if no lookup changes it.
Operands(a, b, same) ==
    /\ HInv(a) /\ IsFiniteSet(Stored(a)) /\ HInv(b) /\ IsFiniteSet(Stored(b))
    /\ same \in BOOLEAN /\ (same => a = b /\ Still(a))

\* The operations on keys, whatever size() says of the sets
LEMMA UnionLemma ==
  ASSUME NEW a, NEW b, NEW same, Operands(a, b, same)
  PROVE  Exactly(Filtered(a, b, same, FALSE, Walk(b).out), KeysOf(a) \cup KeysOf(b), b)
<1> DEFINE out == Walk(b).out
           C == Chosen(a, b, FALSE)
<1>1. Gave(out, KeysOf(b)) /\ KeysIn(ToSet(out)) = KeysOf(b)
  BY WalkGave DEF Operands
<1> HIDE DEF out
<1>2. NewKeys(a, b, FALSE, out)
  BY <1>1 DEF NewKeys, Chosen
<1>3. Loopable(a, b, same, FALSE, out)
  BY <1>1, <1>2 DEF Loopable, Operands
<1>4. KeysOf(b) \cup KeysIn(C) = KeysOf(a) \cup KeysOf(b)
  BY DEF Chosen, KeysIn, KeysOf
<1> HIDE DEF C
<1>5. Exactly(Filtered(a, b, same, FALSE, out), KeysIn(ToSet(out)) \cup KeysIn(C), b)
  BY <1>3, FilteredLemma DEF C
<1>6. QED BY <1>1, <1>4, <1>5 DEF out

LEMMA IntersectionLemma ==
  ASSUME NEW a, NEW b, NEW same, Operands(a, b, same)
  PROVE  Exactly(Filtered(a, b, same, TRUE, <<>>), KeysOf(a) \cap KeysOf(b), b)
<1> DEFINE C == Chosen(a, b, TRUE)
<1>1. Gave(<<>>, {}) /\ KeysIn(ToSet(<<>>)) = {}
  BY NothingGiven
<1>2. NewKeys(a, b, TRUE, <<>>)
  BY <1>1 DEF NewKeys
<1>3. Loopable(a, b, same, TRUE, <<>>)
  BY <1>1, <1>2 DEF Loopable, Operands
<1>4. {} \cup KeysIn(C) = KeysOf(a) \cap KeysOf(b)
  BY DEF Chosen, KeysIn, KeysOf
<1> HIDE DEF C
<1>5. Exactly(Filtered(a, b, same, TRUE, <<>>), KeysIn(ToSet(<<>>)) \cup KeysIn(C), b)
  BY <1>3, FilteredLemma DEF C
<1>6. QED BY <1>1, <1>4, <1>5

LEMMA DifferenceLemma ==
  ASSUME NEW a, NEW b, NEW same, Operands(a, b, same)
  PROVE  Exactly(Filtered(a, b, same, FALSE, <<>>), KeysOf(a) \ KeysOf(b), b)
<1> DEFINE C == Chosen(a, b, FALSE)
<1>1. Gave(<<>>, {}) /\ KeysIn(ToSet(<<>>)) = {}
  BY NothingGiven
<1>2. NewKeys(a, b, FALSE, <<>>)
  BY <1>1 DEF NewKeys
<1>3. Loopable(a, b, same, FALSE, <<>>)
  BY <1>1, <1>2 DEF Loopable, Operands
<1>4. {} \cup KeysIn(C) = KeysOf(a) \ KeysOf(b)
  BY DEF Chosen, KeysIn, KeysOf
<1> HIDE DEF C
<1>5. Exactly(Filtered(a, b, same, FALSE, <<>>), KeysIn(ToSet(<<>>)) \cup KeysIn(C), b)
  BY <1>3, FilteredLemma DEF C
<1>6. QED BY <1>1, <1>4, <1>5

\* Whichever set is counted as the one with more elements
LEMMA OperationsLemma ==
  ASSUME NEW a, NEW b, NEW same, Operands(a, b, same)
  PROVE  /\ Exactly(Union(a, b, same), KeysOf(a) \cup KeysOf(b), More(a, b))
         /\ Exactly(Intersection(a, b, same), KeysOf(a) \cap KeysOf(b), More(a, b))
         /\ Exactly(Difference(a, b, same), KeysOf(a) \ KeysOf(b), b)
<1> DEFINE m == More(a, b)
           l == Less(a, b)
<1>1. \/ m = a /\ l = b
      \/ m = b /\ l = a
  BY DEF More, Less
<1>2. Operands(l, m, same)
  BY <1>1 DEF Operands
<1>3. /\ KeysOf(l) \cup KeysOf(m) = KeysOf(a) \cup KeysOf(b)
      /\ KeysOf(l) \cap KeysOf(m) = KeysOf(a) \cap KeysOf(b)
  BY <1>1
<1> HIDE DEF l, m
<1>4. Exactly(Union(a, b, same), KeysOf(a) \cup KeysOf(b), m)
  <2>1. Exactly(Filtered(l, m, same, FALSE, Walk(m).out), KeysOf(l) \cup KeysOf(m), m)
    BY <1>2, UnionLemma
  <2>2. QED BY <1>3, <2>1 DEF Union, l, m
<1>5. Exactly(Intersection(a, b, same), KeysOf(a) \cap KeysOf(b), m)
  <2>1. Exactly(Filtered(l, m, same, TRUE, <<>>), KeysOf(l) \cap KeysOf(m), m)
    BY <1>2, IntersectionLemma
  <2>2. QED BY <1>3, <2>1 DEF Intersection, l, m
<1>6. Exactly(Difference(a, b, same), KeysOf(a) \ KeysOf(b), b)
  BY DifferenceLemma DEF Difference
<1>7. QED BY <1>4, <1>5, <1>6 DEF m

\* Union, Intersection and Difference of two sets are those of their keys,
\* although the loops look elements up in a set that every lookup reorders and
\* rehashes, and although size() may be wrong.
THEOREM SetOperationsTheorem == Spec => []SetOperationsExact
<1>1. ASSUME Inv PROVE SetOperationsExact
  <2>1. ASSUME NEW seq \in Others PROVE Operands(ht, Built(seq), FALSE)
    <3>1. seq \in Seq(Elem)
      BY OthersAssumption
    <3>2. QED BY <1>1, <3>1, BuiltLemma DEF Inv, Operands
  <2>2. QED BY <2>1, OperationsLemma DEF SetOperationsExact
<1>2. QED BY <1>1, Invariance, PTL

-----------------------------------------------------------------------------
(* A set combined with itself                                               *)

\* A table is what its fields are: then one with the same fields is the same.
IsTable(h) == h = Table(h.t1, h.n1, h.t2, h.n2, h.used, h.idx)

LEMMA TableIsTable ==
  ASSUME NEW t1, NEW n1, NEW t2, NEW n2, NEW used, NEW idx
  PROVE  IsTable(Table(t1, n1, t2, n2, used, idx))
BY DEF IsTable, Table

LEMMA OperationsMakeTables ==
  ASSUME NEW h, IsTable(h)
  PROVE  /\ IsTable(Rehash(h)) /\ IsTable(IncrementalRehash(h))
         /\ \A i, j, B : IsTable(Relinked(h, i, j, B))
         /\ \A d : IsTable(Counted(h, d))
<1>1. IsTable(Rehash(h))
  BY TableIsTable DEF Rehash
<1>2. IsTable(IncrementalRehash(h))
  <2>1. CASE ~InRehashing(h)
    BY <2>1 DEF IncrementalRehash
  <2>2. CASE InRehashing(h)
    <3> DEFINE m == MoveBucket(h)
    <3>1. IsTable(m)
      BY TableIsTable DEF MoveBucket
    <3> HIDE DEF m
    <3>2. IsTable(EndRehash(m))
      BY TableIsTable DEF EndRehash
    <3>3. IncrementalRehash(h) = IF m.idx = m.n1 THEN EndRehash(m) ELSE m
      BY <2>2 DEF IncrementalRehash, m
    <3>4. QED BY <3>1, <3>2, <3>3
  <2>3. QED BY <2>1, <2>2
<1>3. ASSUME NEW i, NEW j, NEW B PROVE IsTable(Relinked(h, i, j, B))
  BY TableIsTable DEF Relinked
<1>4. ASSUME NEW d PROVE IsTable(Counted(h, d))
  BY TableIsTable DEF Counted
<1>5. QED BY <1>1, <1>2, <1>3, <1>4

\* Every operation leaves a table.
LEMMA TableInvariance == Spec => []IsTable(ht)
<1>1. Init => IsTable(ht)
  BY TableIsTable DEF Init, Empty
<1>2. ASSUME IsTable(ht), [Next]_vars PROVE IsTable(ht)'
  <2>1. ASSUME NEW e \in Elem, Insert(e) PROVE IsTable(ht')
    <3> DEFINE h == IncrementalRehash(Rehash(ht))
               k == GetKey[e]
               dup == FirstWith(h, InsertTables(h, k), k)
               own == IF 2 \in InsertTables(h, k) THEN 2 ELSE 1
               r == Relinked(h, own, Index(h, own, k), <<e>> \o Bucket(h, own, k))
    <3>1. ht' = IF dup = 0 THEN Counted(r, 1) ELSE h
      BY <2>1 DEF Insert, Inserted
    <3>2. IsTable(h)
      BY <1>2, OperationsMakeTables
    <3> HIDE DEF h, k, dup, own
    <3>3. IsTable(r)
      BY <3>2, OperationsMakeTables
    <3> HIDE DEF r
    <3>4. IsTable(Counted(r, 1))
      BY <3>3, OperationsMakeTables
    <3>5. QED BY <3>1, <3>2, <3>4
  <2>2. ASSUME NEW k \in Key, Find(k) PROVE IsTable(ht')
    <3> DEFINE h == IncrementalRehash(ht)
               i == FirstWith(h, TablesInUse(h), k)
    <3>1. ht' = IF i = 0 THEN h
                ELSE Relinked(h, i, Index(h, i, k), ToFront(Bucket(h, i, k), k))
      <4>1. CASE i = 0
        BY <2>2, <4>1 DEF Find, Found
      <4>2. CASE i # 0
        BY <2>2, <4>2 DEF Find, Found
      <4>3. QED BY <4>1, <4>2
    <3>2. IsTable(h)
      BY <1>2, OperationsMakeTables
    <3> HIDE DEF h, i
    <3>3. IsTable(Relinked(h, i, Index(h, i, k), ToFront(Bucket(h, i, k), k)))
      BY <3>2, OperationsMakeTables
    <3>4. QED BY <3>1, <3>2, <3>3
  <2>3. ASSUME NEW k \in Key, Extract(k) PROVE IsTable(ht')
    <3> DEFINE h == IncrementalRehash(ht)
               i == FirstWith(h, TablesInUse(h), k)
               r == Relinked(h, i, Index(h, i, k), Without(Bucket(h, i, k), k))
    <3>1. ht' = IF i = 0 THEN h ELSE Counted(r, -1)
      BY <2>3 DEF Extract
    <3>2. IsTable(h)
      BY <1>2, OperationsMakeTables
    <3> HIDE DEF h, i
    <3>3. IsTable(r)
      BY <3>2, OperationsMakeTables
    <3> HIDE DEF r
    <3>4. IsTable(Counted(r, -1))
      BY <3>3, OperationsMakeTables
    <3>5. QED BY <3>1, <3>2, <3>4
  <2>4. ASSUME EraseAfterFindSlot PROVE IsTable(ht')
    <3>1. \E i, j, B : ht' = Relinked(ht, i, j, B)
      BY <2>4 DEF EraseAfterFindSlot
    <3>2. QED BY <1>2, <3>1, OperationsMakeTables
  <2>5. ASSUME EraseRandom PROVE IsTable(ht')
    <3> DEFINE h == IncrementalRehash(ht)
    <3>1. ht' = h \/ \E i, j, B : ht' = Relinked(h, i, j, B)
      BY <2>5 DEF EraseRandom
    <3>2. IsTable(h)
      BY <1>2, OperationsMakeTables
    <3> HIDE DEF h
    <3>3. QED BY <3>1, <3>2, OperationsMakeTables
  <2>6. ASSUME Clear PROVE IsTable(ht')
    BY <2>6, TableIsTable DEF Clear
  <2>7. CASE UNCHANGED vars
    BY <1>2, <2>7 DEF vars
  <2>8. QED BY <1>2, <2>1, <2>2, <2>3, <2>4, <2>5, <2>6, <2>7 DEF Next
<1>3. QED BY <1>1, <1>2, PTL DEF Spec

\* Moving a node to the front takes none away.
LEMMA ToFrontLen ==
  ASSUME NEW B \in Seq(Elem), Distinct(B), NEW k, Search(B, k) # 0
  PROVE  /\ Len(ToFront(B, k)) = Len(B)
         /\ Len(B) = 1 => ToFront(B, k) = B
<1> DEFINE p == Search(B, k)
           A == SubSeq(B, 1, p - 1)
           C == SubSeq(B, p + 1, Len(B))
           x == B[p]
<1>1. p \in 1 .. Len(B) /\ Len(B) \in Nat /\ x \in Elem
  BY SearchLemma, LenProperties, ToSetElem
<1>2. ToFront(B, k) = <<x>> \o (A \o C)
  BY DEF ToFront, Without, RemoveAt
<1> HIDE DEF p, x
<1>3. A \in Seq(Elem) /\ Len(A) = p - 1
  BY <1>1
<1>4. C \in Seq(Elem) /\ Len(C) = Len(B) - p
  BY <1>1
<1> HIDE DEF A, C
<1>5. A \o C \in Seq(Elem) /\ Len(A \o C) = Len(B) - 1
  BY <1>1, <1>3, <1>4, ConcatProperties
<1> DEFINE D == A \o C
           E == <<x>> \o D
<1>6. <<x>> \in Seq(Elem) /\ Len(<<x>>) = 1 /\ <<x>>[1] = x
  BY <1>1
<1> HIDE DEF D
<1>7. E \in Seq(Elem) /\ Len(E) = 1 + Len(D) /\ (E[1] = <<x>>[1])
  <2>1. 1 <= Len(<<x>>) /\ 1 \in 1 .. Len(<<x>>) + Len(D)
    BY <1>1, <1>5, <1>6 DEF D
  <2> DEFINE X == <<x>>
  <2>2. X \in Seq(Elem) /\ D \in Seq(Elem) /\ Len(X) = 1
    BY <1>5, <1>6 DEF D
  <2> HIDE DEF X
  <2>3. /\ X \o D \in Seq(Elem) /\ Len(X \o D) = Len(X) + Len(D)
        /\ \A i \in 1 .. Len(X) + Len(D) : (X \o D)[i] = IF i <= Len(X) THEN X[i] ELSE D[i - Len(X)]
    BY <2>2, ConcatProperties
  <2>4. QED BY <2>1, <2>2, <2>3 DEF X
<1> HIDE DEF E
<1>8. Len(E) = Len(B)
  BY <1>1, <1>5, <1>7 DEF D
<1>9. ASSUME Len(B) = 1 PROVE E = B
  <2>1. p = 1 /\ B[1] = x /\ E[1] = x
    BY <1>1, <1>6, <1>7, <1>9 DEF x
  <2>2. \A i \in 1 .. 1 : i = 1
    OBVIOUS
  <2>3. QED BY <1>7, <1>8, <1>9, <2>1, <2>2
<1>10. QED BY <1>2, <1>8, <1>9 DEF E, D

\* Outside a rehash a lookup of a node puts it at the front of its bucket, which
\* keeps its length; with one node there, nothing changes.
AtFront(h, b, x, r) ==
    /\ ~InRehashing(r) /\ r.n1 = h.n1 /\ r.t1[b][1] = x
    /\ \A j \in 0 .. h.n1 - 1 : Len(r.t1[j]) = Len(h.t1[j])
    /\ IsTable(h) /\ Len(h.t1[b]) = 1 => r = h

LEMMA FoundAtFront ==
  ASSUME NEW h, HInv(h), ~InRehashing(h), NEW b \in 0 .. h.n1 - 1,
         NEW x \in ToSet(h.t1[b]), NEW r, r = Found(h, GetKey[x]).h
  PROVE  AtFront(h, b, x, r)
<1> DEFINE k == GetKey[x]
           i == FirstWith(h, TablesInUse(h), k)
           B == Bucket(h, i, k)
           j == Index(h, i, k)
           N == ToFront(B, k)
<1>1. /\ h.t1 \in [0 .. h.n1 - 1 -> Seq(Elem)] /\ DOMAIN h.t1 = 0 .. h.n1 - 1
  BY DEF HInv, Shape
<1>2. x \in Elem /\ k \in Key /\ x \in Stored(h) /\ bucket_index(h.n1, k) = b
  <2>1. x \in Stored(h)
    BY StoredMember DEF HInv
  <2>2. bucket_index(h.n1, k) = b
    BY <1>1 DEF HInv, Placed
  <2>3. QED BY <2>1, <2>2, StoredElem, GetKeyAssumption DEF HInv
<1>3. IncrementalRehash(h) = h
  BY DEF IncrementalRehash
<1>4. i # 0
  <2> SUFFICES ASSUME i = 0 PROVE FALSE
    OBVIOUS
  <2>1. WithKey(Stored(h), k) = {}
    BY <1>2, LookupLemma
  <2>2. QED BY <1>2, <2>1 DEF WithKey
<1>5. r = Relinked(h, i, j, N)
  BY <1>3, <1>4 DEF Found
<1> HIDE DEF k
<1>6. /\ i \in TablesInUse(h) /\ B \in Seq(Elem) /\ Distinct(B) /\ Search(B, k) # 0
      /\ WithKey(Stored(h), k) = {B[Search(B, k)]}
  BY <1>2, <1>4, FoundLemma
<1> HIDE DEF i
<1>7. i = 1
  BY <1>6 DEF TablesInUse
<1>8. j = b /\ B = h.t1[b]
  BY <1>2, <1>7 DEF Bucket, Index, List
<1>9. B[Search(B, k)] = x
  BY <1>2, <1>6 DEF WithKey, k
<1> HIDE DEF B, j
<1>10. /\ N \in Seq(Elem) /\ N[1] = x /\ Len(N) = Len(B) /\ (Len(B) = 1 => N = B)
  BY <1>6, <1>9, ToFrontLemma, ToFrontLen
<1> HIDE DEF N
<1>11. r = Table([h.t1 EXCEPT ![b] = N], h.n1, h.t2, h.n2, h.used, h.idx)
  BY <1>5, <1>7, <1>8 DEF Relinked
<1>12. r.t1 = [h.t1 EXCEPT ![b] = N] /\ r.n1 = h.n1 /\ r.idx = h.idx
  BY <1>11, TableFields
<1>13. r.t1[b] = N /\ \A n \in 0 .. h.n1 - 1 : n # b => r.t1[n] = h.t1[n]
  BY <1>1, <1>12
<1>14. \A n \in 0 .. h.n1 - 1 : Len(r.t1[n]) = Len(h.t1[n])
  BY <1>8, <1>10, <1>13
<1>15. ASSUME IsTable(h), Len(h.t1[b]) = 1 PROVE r = h
  <2>1. N = h.t1[b]
    BY <1>8, <1>10, <1>15
  <2>2. [h.t1 EXCEPT ![b] = N] = h.t1
    BY <1>1, <2>1
  <2>3. QED BY <1>11, <1>15, <2>2 DEF IsTable
<1>16. ~InRehashing(r)
  BY <1>12 DEF InRehashing
<1>17. QED BY <1>10, <1>12, <1>13, <1>14, <1>15, <1>16 DEF AtFront

LEMMA OneOrMore ==
  ASSUME NEW m \in Nat
  PROVE  /\ m <= 1 /\ m # 0 => m = 1
         /\ m > 0 /\ m # 1 => 2 \in 1 .. m
         /\ m >= 2 => m # 1
OBVIOUS

\* With one node at most in every bucket no lookup changes anything.
LEMMA StillLemma ==
  ASSUME NEW h, HInv(h), IsTable(h), ~InRehashing(h),
         \A j \in DOMAIN h.t1 : Len(h.t1[j]) <= 1
  PROVE  Still(h)
<1> SUFFICES ASSUME NEW k \in Key PROVE Found(h, k).h = h
  BY DEF Still
<1>1. h.t1 \in [0 .. h.n1 - 1 -> Seq(Elem)] /\ h.n2 = 0
  BY DEF HInv, Shape, InRehashing, NoIndex
<1>2. CASE WithKey(Stored(h), k) = {}
  <2>1. FirstWith(h, TablesInUse(h), k) = 0
    BY <1>2, LookupLemma
  <2>2. IncrementalRehash(h) = h
    BY DEF IncrementalRehash
  <2>3. QED BY <2>1, <2>2 DEF Found
<1>3. CASE WithKey(Stored(h), k) # {}
  <2>1. PICK x \in Stored(h) : GetKey[x] = k
    BY <1>3 DEF WithKey
  <2>2. PICK b \in 0 .. h.n1 - 1 : x \in ToSet(h.t1[b])
    <3>1. \A b \in 0 .. h.n2 - 1 : FALSE
      BY <1>1
    <3>2. QED BY <2>1, <3>1, StoredMember DEF HInv
  <2>3. Len(h.t1[b]) = 1
    <3> DEFINE B == h.t1[b]
    <3>1. B \in Seq(Elem) /\ Len(B) <= 1 /\ Len(B) \in Nat
      BY <1>1, LenProperties
    <3>2. x \in ToSet(B)
      BY <2>2
    <3> HIDE DEF B
    <3>3. Len(B) # 0
      <4>1. PICK n \in 1 .. Len(B) : x = B[n]
        BY <3>1, <3>2, ToSetMember
      <4>2. QED BY <3>1, <4>1
    <3>4. Len(B) = 1
      BY <3>1, <3>3, OneOrMore
    <3>5. QED BY <3>4 DEF B
  <2>4. AtFront(h, b, x, Found(h, GetKey[x]).h)
    BY <2>2, FoundAtFront
  <2>5. QED BY <2>1, <2>3, <2>4 DEF AtFront
<1>4. QED BY <1>2, <1>3

\* An iterator that points at a node of bucket n of table1 or of one before it
Before(h, n, it) ==
    /\ it.tab = 1 /\ it.bkt \in 0 .. n
    /\ \E x \in ToSet(h.t1[it.bkt]) : it.slot = {x}

\* The loop over a set whose lookups reorder it is at or before a bucket that
\* has more than one node, and never leaves that bucket.
Stuck(s) ==
    /\ s.a = s.b /\ HInv(s.a) /\ ~InRehashing(s.a)
    /\ \E n \in 0 .. s.a.n1 - 1 : Len(s.a.t1[n]) >= 2 /\ Before(s.a, n, s.it)

\* Where the iterator comes to from before a bucket that has nodes
LEMMA ScanStops ==
  ASSUME NEW h, HInv(h), NEW bkt \in Nat, NEW n \in 0 .. h.n1 - 1, bkt <= n,
         Len(h.t1[n]) >= 2, NEW it, it = Scan(h, 1, bkt)
  PROVE  Before(h, n, it)
<1> DEFINE full == InUse(h.t1, bkt)
           l == Lowest(full)
<1>1. h.t1 \in [0 .. h.n1 - 1 -> Seq(Elem)] /\ h.n1 \in Nat
  BY DEF HInv, Shape
<1>2. h.t1[n] # <<>>
  <2>1. Len(<<>>) = 0
    OBVIOUS
  <2>2. QED BY <2>1
<1>3. n \in full
  BY <1>1, <1>2 DEF InUse
<1>4. full \subseteq Nat /\ full \subseteq 0 .. h.n1 - 1 /\ \A j \in full : h.t1[j] # <<>>
  BY <1>1 DEF InUse
<1>5. it = Iterator(1, l, {Head(h.t1[l])})
  BY <1>3 DEF Scan
<1> HIDE DEF full
<1>6. l \in full /\ l <= n
  BY <1>3, <1>4, LowestLemma
<1> HIDE DEF l
<1>7. it.tab = 1 /\ it.bkt = l /\ it.slot = {Head(h.t1[l])}
  BY <1>5, IteratorFields
<1>8. Head(h.t1[l]) \in ToSet(h.t1[l])
  <2> DEFINE B == h.t1[l]
  <2>1. B \in Seq(Elem) /\ B # <<>>
    BY <1>1, <1>4, <1>6
  <2> HIDE DEF B
  <2>2. Len(B) \in Nat /\ 1 \in 1 .. Len(B) /\ Head(B) = B[1]
    BY <2>1, LenProperties
  <2>3. QED BY <2>1, <2>2, ToSetMember DEF B
<1>9. l \in 0 .. n
  <2>1. l \in Nat /\ n \in Nat
    BY <1>4, <1>6
  <2>2. QED BY <1>6, <2>1
<1>10. QED BY <1>7, <1>8, <1>9 DEF Before

\* The next pointer of the node at the front of its bucket is followed, or the
\* next bucket is looked for: neither passes a bucket of two nodes.
AtFirst(h, n, it) ==
    /\ it.tab = 1 /\ it.bkt \in 0 .. n
    /\ Len(h.t1[it.bkt]) > 0 /\ it.slot = {h.t1[it.bkt][1]}

LEMMA MoveOn ==
  ASSUME NEW r, HInv(r), NEW n \in 0 .. r.n1 - 1, Len(r.t1[n]) >= 2,
         NEW it, AtFirst(r, n, it)
  PROVE  Before(r, n, Increment(r, it))
<1>0. PICK b, B, v : b = it.bkt /\ B = r.t1[b] /\ v = Increment(r, it)
  OBVIOUS
<1>1. /\ r.n1 \in Nat /\ b \in 0 .. r.n1 - 1 /\ b \in Nat /\ n \in Nat /\ b <= n
      /\ r.t1 \in [0 .. r.n1 - 1 -> Seq(Elem)]
  BY <1>0 DEF HInv, Shape, AtFirst
<1>2. B \in Seq(Elem) /\ B = List(r, 1, b) /\ b \in Indices(r, 1)
  BY <1>0, <1>1 DEF List, Indices
<1>3. Len(B) \in Nat /\ Len(B) > 0 /\ it.slot = {B[1]} /\ it.tab = 1
  BY <1>0, <1>2, LenProperties DEF AtFirst
<1> DEFINE next == UNION {NextOf(r, e) : e \in it.slot}
<1>4. next = IF 1 = Len(B) THEN {} ELSE {B[2]}
  <2>1. next = NextOf(r, B[1])
    BY <1>3
  <2>2. 1 \in 1 .. Len(List(r, 1, b))
    BY <1>2, <1>3
  <2>3. NextIs(r, List(r, 1, b), 1)
    BY <1>2, <2>2, NextOfLemma
  <2>4. NextIs(r, B, 1)
    BY <1>2, <2>3
  <2> HIDE DEF next
  <2>5. QED BY <2>1, <2>4 DEF NextIs
<1>5. v = IF next # {} THEN Iterator(1, b, next) ELSE Scan(r, 1, b + 1)
  BY <1>0, <1>3 DEF Increment
<1> HIDE DEF next
<1>6. CASE Len(B) = 1
  <2>1. b # n
    <3>1. Len(B) # Len(r.t1[n])
      <4>1. Len(r.t1[n]) \in Nat
        BY <1>1, LenProperties
      <4>2. Len(r.t1[n]) # 1
        BY <4>1, OneOrMore
      <4>3. QED BY <1>6, <4>2
    <3>2. QED BY <1>0, <3>1
  <2>2. b + 1 \in Nat /\ b + 1 <= n
    BY <1>1, <2>1
  <2>3. v = Scan(r, 1, b + 1)
    BY <1>4, <1>5, <1>6
  <2>4. QED BY <1>0, <2>2, <2>3, ScanStops
<1>7. CASE Len(B) # 1
  <2>1. v = Iterator(1, b, {B[2]})
    BY <1>4, <1>5, <1>7
  <2>2. v.tab = 1 /\ v.bkt = b /\ v.slot = {B[2]}
    BY <2>1, IteratorFields
  <2>3. 2 \in 1 .. Len(B)
    BY <1>3, <1>7, OneOrMore
  <2>4. B[2] \in ToSet(B)
    BY <1>2, <2>3, ToSetMember
  <2>5. b \in 0 .. n
    BY <1>0 DEF AtFirst
  <2>6. QED BY <1>0, <2>2, <2>4, <2>5 DEF Before
<1>8. QED BY <1>6, <1>7

LEMMA StuckStep ==
  ASSUME NEW s, Stuck(s), NEW wanted, NEW w, w = LoopPass(TRUE, wanted, s)
  PROVE  Stuck(w)
<1>1. PICK h : h = s.a
  OBVIOUS
<1>2. PICK it : it = s.it
  OBVIOUS
<1>3. s.b = h /\ HInv(h) /\ ~InRehashing(h)
  BY <1>1 DEF Stuck
<1>4. PICK n \in 0 .. h.n1 - 1 : Len(h.t1[n]) >= 2 /\ Before(h, n, it)
  BY <1>1, <1>2 DEF Stuck
<1>5. PICK b : b = it.bkt
  OBVIOUS
<1>6. it.tab = 1 /\ b \in 0 .. n /\ \E x \in ToSet(h.t1[b]) : it.slot = {x}
  BY <1>4, <1>5 DEF Before
<1>7. PICK x \in ToSet(h.t1[b]) : it.slot = {x}
  BY <1>6
<1>8. PICK r : r = Found(h, GetKey[x]).h
  OBVIOUS
<1>9. h.n1 \in Nat /\ h.t1 \in [0 .. h.n1 - 1 -> Seq(Elem)]
  BY <1>3 DEF HInv, Shape
<1>10. b \in 0 .. h.n1 - 1
  BY <1>4, <1>6, <1>9
<1>11. Stepped(s, TRUE, wanted, x, Found(s.b, GetKey[x]), w)
  <2>1. w = Step(s, TRUE, wanted)
    BY <1>2, <1>7, LoopPassIs
  <2>2. QED BY <1>2, <1>7, <2>1, StepFields
<1>12. w.b = r /\ w.a = r /\ w.it = Increment(r, it)
  BY <1>2, <1>3, <1>8, <1>11 DEF Stepped
<1>13. PICK L : L = h.t1[b]
  OBVIOUS
<1>14. L \in Seq(Elem) /\ x \in ToSet(L)
  BY <1>7, <1>9, <1>10, <1>13
<1>15. Len(L) > 0
  <2>1. PICK m \in 1 .. Len(L) : x = L[m]
    BY <1>14, ToSetMember
  <2>2. Len(L) \in Nat
    BY <1>14, LenProperties
  <2>3. QED BY <2>1, <2>2
<1>16. HInv(r)
  <2>1. x \in Elem /\ GetKey[x] \in Key
    BY <1>14, ToSetElem, GetKeyAssumption
  <2>2. QED BY <1>3, <1>8, <2>1, FoundIs
<1>17. AtFront(h, b, x, r)
  BY <1>3, <1>7, <1>8, <1>10, FoundAtFront
<1>18. /\ ~InRehashing(r) /\ n \in 0 .. r.n1 - 1 /\ Len(r.t1[n]) >= 2
       /\ Len(r.t1[b]) > 0 /\ r.t1[b][1] = x
  BY <1>4, <1>10, <1>13, <1>15, <1>17 DEF AtFront
<1>19. Before(r, n, w.it)
  <2>1. AtFirst(r, n, it)
    BY <1>5, <1>6, <1>7, <1>18 DEF AtFirst
  <2>2. QED BY <1>12, <1>16, <1>18, <2>1, MoveOn
<1>20. QED BY <1>12, <1>16, <1>18, <1>19 DEF Stuck

\* Two nodes in one bucket: the loop gets no further, however often it is run.
LEMMA StuckLemma ==
  ASSUME NEW h, HInv(h), IsFiniteSet(Stored(h)), ~InRehashing(h),
         NEW n \in 0 .. h.n1 - 1, Len(h.t1[n]) >= 2, NEW wanted, NEW out
  PROVE  Filtered(h, h, TRUE, wanted, out).it.slot # {}
<1>0. PICK N : N = Steps(h)
  OBVIOUS
<1>1. N \in Nat
  BY <1>0, FS_CardinalityType DEF Steps
<1>2. PICK w : /\ w[0] = LoopStart(h, h, out)
               /\ Filtered(h, h, TRUE, wanted, out) = w[N]
               /\ \A m \in 1 .. N : w[m] = LoopPass(TRUE, wanted, w[m - 1])
  <2>1. \E w : /\ w[0] = LoopStart(h, h, out)
               /\ Filtered(h, h, TRUE, wanted, out) = w[Steps(h)]
               /\ \A m \in 1 .. Steps(h) : w[m] = LoopPass(TRUE, wanted, w[m - 1])
    <3>1. Steps(h) \in Nat
      BY <1>0, <1>1
    <3>2. ASSUME NEW same
          PROVE  \E w : /\ w[0] = LoopStart(h, h, out)
                        /\ Filtered(h, h, same, wanted, out) = w[Steps(h)]
                        /\ \A m \in 1 .. Steps(h) : w[m] = LoopPass(same, wanted, w[m - 1])
      BY <3>1, FilteredLoop
    <3>3. QED BY <3>2, Zenon
  <2>2. QED BY <1>0, <2>1
<1> DEFINE A == {m \in Nat : m <= N => Stuck(w[m])}
<1>3. 0 \in A
  <2>1. w[0].a = h /\ w[0].b = h /\ w[0].it = Scan(h, 1, 0)
    BY <1>2 DEF LoopStart
  <2>2. 0 \in Nat /\ 0 <= n
    OBVIOUS
  <2>3. Before(h, n, w[0].it)
    BY <2>1, <2>2, ScanStops
  <2>4. Stuck(w[0])
    BY <2>1, <2>3 DEF Stuck
  <2>5. QED BY <2>4
<1>4. ASSUME NEW m \in A PROVE m + 1 \in A
  <2> SUFFICES ASSUME m + 1 <= N PROVE Stuck(w[m + 1])
    OBVIOUS
  <2>1. m \in Nat /\ m <= N /\ m + 1 \in 1 .. N /\ (m + 1) - 1 = m
    BY <1>1
  <2>2. Stuck(w[m])
    BY <2>1
  <2>3. w[m + 1] = LoopPass(TRUE, wanted, w[m])
    BY <1>2, <2>1
  <2>4. QED BY <2>2, <2>3, StuckStep
<1> HIDE DEF A
<1>5. N \in A
  BY <1>1, <1>3, <1>4, SetInduction
<1>6. Stuck(w[N])
  <2>1. N <= N
    BY <1>1
  <2>2. QED BY <1>5, <2>1 DEF A
<1>7. w[N].it.slot # {}
  BY <1>6 DEF Stuck, Before
<1>8. QED BY <1>2, <1>7

\* A set combined with itself, outside a rehash: the loop ends, with the right
\* answer, exactly when no bucket has two nodes; with two, each lookup moves one
\* of them in front of the other, and the loop goes from one to the other.
THEOREM SelfTheorem == Spec => []SelfOperations
<1>1. ASSUME Inv, IsTable(ht), ~InRehashing(ht),
             \A j \in DOMAIN ht.t1 : Len(ht.t1[j]) <= 1
      PROVE  /\ Exactly(Union(ht, ht, TRUE), KeysOf(ht), ht)
             /\ Exactly(Intersection(ht, ht, TRUE), KeysOf(ht), ht)
             /\ Exactly(Difference(ht, ht, TRUE), {}, ht)
  <2>1. Still(ht)
    BY <1>1, StillLemma DEF Inv
  <2>2. Operands(ht, ht, TRUE)
    BY <1>1, <2>1 DEF Operands, Inv
  <2>3. /\ Exactly(Union(ht, ht, TRUE), KeysOf(ht) \cup KeysOf(ht), More(ht, ht))
        /\ Exactly(Intersection(ht, ht, TRUE), KeysOf(ht) \cap KeysOf(ht), More(ht, ht))
        /\ Exactly(Difference(ht, ht, TRUE), KeysOf(ht) \ KeysOf(ht), ht)
    BY <2>2, OperationsLemma
  <2>4. More(ht, ht) = ht
    BY DEF More
  <2> DEFINE K == KeysOf(ht)
  <2>5. K \cup K = K /\ K \cap K = K /\ K \ K = {}
    OBVIOUS
  <2> HIDE DEF K
  <2>6. QED BY <2>3, <2>4, <2>5 DEF K
<1>2. ASSUME Inv, ~InRehashing(ht), Exactly(Intersection(ht, ht, TRUE), KeysOf(ht), ht),
             NEW j \in DOMAIN ht.t1
      PROVE  Len(ht.t1[j]) <= 1
  <2>1. ht.t1 \in [0 .. ht.n1 - 1 -> Seq(Elem)] /\ HInv(ht)
    BY <1>2 DEF Inv, HInv, Shape
  <2>2. j \in 0 .. ht.n1 - 1 /\ Len(ht.t1[j]) \in Nat
    BY <1>2, <2>1, LenProperties
  <2> SUFFICES ASSUME Len(ht.t1[j]) >= 2 PROVE FALSE
    BY <2>2
  <2>3. Less(ht, ht) = ht /\ More(ht, ht) = ht
    BY DEF Less, More
  <2>4. Filtered(ht, ht, TRUE, TRUE, <<>>).it.slot # {}
    BY <1>2, <2>2, StuckLemma DEF Inv
  <2>5. Filtered(ht, ht, TRUE, TRUE, <<>>).it.slot = {}
    BY <1>2, <2>3 DEF Intersection, Exactly
  <2>6. QED BY <2>4, <2>5
<1>3. Inv /\ IsTable(ht) => SelfOperations
  BY <1>1, <1>2 DEF SelfOperations
<1>4. QED BY <1>3, Invariance, TableInvariance, PTL
=============================================================================
