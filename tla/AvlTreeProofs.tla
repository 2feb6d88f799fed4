---------------------------- MODULE AvlTreeProofs ----------------------------
(***************************************************************************)
(* Proofs about AvlTree, for any number of nodes, any keys and whatever    *)
(* the heights are: the links stay those of a search tree, bounds and the  *)
(* walks are exact, the caller sees a set of unique keys.  And while no    *)
(* node came back with a stale height, the tree stays balanced.            *)
(*                                                                         *)
(* The first part is about the links as a binary search tree and about the *)
(* elementary changes of the code, rotation, linking, cutting out and      *)
(* taking the place of a node, which keep them one; then about the         *)
(* heights: what makes a node balanced, and that FixupLeftHeavy and        *)
(* FixupRigtHeavy balance a node that is off by two, with heights lower by *)
(* one at most.                                                            *)
(*                                                                         *)
(* The second part takes the loops.  A loop of the code is Loop(F, s), the *)
(* state after as many passes of the function F as there are nodes and     *)
(* one (Run).  A set of states that the pass keeps is its invariant, a     *)
(* function mu into the naturals its measure.                              *)
(***************************************************************************)
EXTENDS AvlTree, FiniteSetTheorems, SequenceTheorems, NaturalsInduction,
        WellFoundedInduction, TLAPS

-----------------------------------------------------------------------------
(* Loops: a function F applied M times, from a state s on.  A set I that F *)
(* maps into itself is the loop's invariant.  Induction is over a set of    *)
(* naturals, so that the lemmas have sets and functions for parameters.     *)

\* A set with 0 that is closed under successor has every natural number.
LEMMA SetInduction ==
  ASSUME NEW S, 0 \in S, \A n \in S : n + 1 \in S
  PROVE  Nat \subseteq S
<1> DEFINE R == {ss \in Nat \X Nat : ss[1] < ss[2]}
<1>1. IsWellFoundedOn(R, Nat)
  BY NatLessThanWellFounded, Zenon DEF OpToRel
<1> SUFFICES ASSUME NEW b \in Nat, b \notin S PROVE FALSE
  OBVIOUS
<1>2. PICK x \in Nat \ S : \A y \in Nat \ S : ~(<<y, x>> \in R)
  <2>1. Nat \ S \subseteq Nat /\ Nat \ S # {}
    OBVIOUS
  <2> HIDE DEF R
  <2>2. QED BY <1>1, <2>1, WFMin, Zenon
<1>3. x # 0
  OBVIOUS
<1>4. x - 1 \in Nat /\ x = (x - 1) + 1 /\ <<x - 1, x>> \in R
  BY <1>3
<1>5. x - 1 \in S
  BY <1>2, <1>4
<1>6. QED BY <1>4, <1>5

\* F maps I into itself.
Closed(F, I) == \A x \in I : F[x] \in I

\* g is the sequence of states of M passes of F from s on, all in I.
IsRun(g, F, s, M, I) == /\ g \in [0 .. M -> I] /\ g[0] = s
                        /\ \A n \in 1 .. M : g[n] = F[g[n - 1]]

\* There is a sequence of states that the passes run through.
LEMMA RunExists ==
  ASSUME NEW I, NEW F, NEW s \in I, Closed(F, I), NEW M \in Nat
  PROVE  \E g : IsRun(g, F, s, M, I)
<1> USE DEF IsRun
<1> DEFINE A == {m \in Nat : \E g \in [0 .. m -> I] : g[0] = s /\ \A n \in 1 .. m : g[n] = F[g[n - 1]]}
<1>1. 0 \in A
  <2>1. [n \in 0 .. 0 |-> s] \in [0 .. 0 -> I]
    OBVIOUS
  <2>2. [n \in 0 .. 0 |-> s][0] = s
    OBVIOUS
  <2>3. 1 .. 0 = {}
    OBVIOUS
  <2>4. QED BY <2>1, <2>2, <2>3
<1>2. ASSUME NEW m \in A PROVE m + 1 \in A
  <2>1. m \in Nat
    BY <1>2
  <2>2. PICK g \in [0 .. m -> I] : g[0] = s /\ \A n \in 1 .. m : g[n] = F[g[n - 1]]
    BY <1>2
  <2> DEFINE h == [n \in 0 .. m + 1 |-> IF n <= m THEN g[n] ELSE F[g[m]]]
  <2>3. g[m] \in I /\ F[g[m]] \in I
    BY <2>1, <2>2 DEF Closed
  <2>4. h \in [0 .. m + 1 -> I]
    BY <2>1, <2>2, <2>3
  <2>5. h[0] = s
    BY <2>1, <2>2
  <2>6. \A n \in 1 .. m + 1 : h[n] = F[h[n - 1]]
    BY <2>1, <2>2
  <2> HIDE DEF h
  <2>7. QED BY <2>1, <2>4, <2>5, <2>6
<1> HIDE DEF A
<1>3. Nat \subseteq A
  BY <1>1, <1>2, SetInduction
<1>4. QED BY <1>3 DEF A

\* The function f after M passes
Run(F, s, M) == CHOOSE f : f = [n \in 0 .. M |-> IF n = 0 THEN s ELSE F[f[n - 1]]]

\* What the recursive function of a loop computes: every state satisfies the
\* invariant, and each is one pass after the one before.
LEMMA RunLemma ==
  ASSUME NEW I, NEW F, NEW s \in I, Closed(F, I), NEW M \in Nat
  PROVE  IsRun(Run(F, s, M), F, s, M, I)
<1>0. PICK g : IsRun(g, F, s, M, I)
  BY RunExists
<1>1. g \in [0 .. M -> I] /\ g[0] = s /\ \A n \in 1 .. M : g[n] = F[g[n - 1]]
  BY <1>0 DEF IsRun
<1> DEFINE D(f) == f = [n \in 0 .. M |-> IF n = 0 THEN s ELSE F[f[n - 1]]]
           h == Run(F, s, M)
<1>2. D(g)
  <2>1. \A n \in 0 .. M : g[n] = IF n = 0 THEN s ELSE F[g[n - 1]]
    BY <1>1
  <2>2. g = [n \in 0 .. M |-> g[n]]
    BY <1>1
  <2>3. QED BY <2>1, <2>2
<1>3. D(h)
  <2>1. h = CHOOSE f : D(f)
    BY Zenon DEF Run
  <2> HIDE DEF D, h
  <2> QED BY <1>2, <2>1, Zenon
<1> HIDE DEF h
<1>4. h[0] = s /\ \A n \in 1 .. M : h[n] = F[h[n - 1]]
  BY <1>3
<1>5. \A n \in 0 .. M : h[n] = g[n]
  <2> DEFINE A == {n \in Nat : n \in 0 .. M => h[n] = g[n]}
  <2>1. 0 \in A
    BY <1>1, <1>4
  <2>2. ASSUME NEW n \in A PROVE n + 1 \in A
    <3>1. CASE n + 1 \in 0 .. M
      <4>1. n \in 0 .. M /\ n + 1 \in 1 .. M /\ n + 1 - 1 = n
        BY <2>2, <3>1
      <4>2. h[n] = g[n]
        BY <2>2, <4>1
      <4>3. h[n + 1] = F[h[n]] /\ g[n + 1] = F[g[n]]
        BY <1>1, <1>4, <4>1
      <4>4. QED BY <2>2, <4>2, <4>3
    <3>2. CASE n + 1 \notin 0 .. M
      BY <2>2, <3>2
    <3>3. QED BY <3>1, <3>2
  <2> HIDE DEF A
  <2>3. Nat \subseteq A
    BY <2>1, <2>2, SetInduction
  <2>4. QED BY <2>3 DEF A
<1>6. h = g
  BY <1>1, <1>3, <1>5
<1>7. QED BY <1>0, <1>6 DEF h

\* The measure goes down with every pass until it is 0, where it stays.
LEMMA RunMeasure ==
  ASSUME NEW I, NEW F, NEW s \in I, Closed(F, I), NEW M \in Nat,
         NEW mu \in [I -> Nat],
         \A x \in I : mu[F[x]] < mu[x] \/ mu[F[x]] = 0
  PROVE  mu[Run(F, s, M)[M]] = 0 \/ mu[Run(F, s, M)[M]] <= mu[s] - M
<1> DEFINE h == Run(F, s, M)
           A == {n \in Nat : n <= M => mu[h[n]] = 0 \/ mu[h[n]] <= mu[s] - n}
<1>1. h \in [0 .. M -> I] /\ h[0] = s /\ \A n \in 1 .. M : h[n] = F[h[n - 1]]
  <2>1. IsRun(Run(F, s, M), F, s, M, I)
    BY RunLemma
  <2>2. QED BY <2>1 DEF IsRun
<1> HIDE DEF h
<1>2. 0 \in A
  BY <1>1
<1>3. ASSUME NEW n \in A PROVE n + 1 \in A
  <2>1. CASE n + 1 <= M
    <3>1. n \in 0 .. M /\ n + 1 \in 1 .. M /\ n + 1 - 1 = n
      BY <1>3, <2>1
    <3>2. h[n] \in I /\ h[n + 1] = F[h[n]] /\ F[h[n]] \in I
      BY <1>1, <3>1 DEF Closed
    <3>3. mu[h[n]] \in Nat /\ mu[h[n + 1]] \in Nat /\ mu[s] \in Nat
      BY <3>2
    <3>4. mu[h[n]] = 0 \/ mu[h[n]] <= mu[s] - n
      BY <1>3, <3>1
    <3>5. mu[h[n + 1]] < mu[h[n]] \/ mu[h[n + 1]] = 0
      BY <3>2
    <3>6. mu[h[n + 1]] = 0 \/ mu[h[n + 1]] <= mu[s] - (n + 1)
      BY <3>1, <3>3, <3>4, <3>5
    <3>7. QED BY <1>3, <3>6
  <2>2. CASE ~(n + 1 <= M)
    BY <1>3, <2>2
  <2>3. QED BY <2>1, <2>2
<1> HIDE DEF A
<1>4. Nat \subseteq A
  BY <1>2, <1>3, SetInduction
<1>5. M \in A
  BY <1>4
<1>6. QED BY <1>5 DEF A, h

\* Some member of a set has the least measure.
LEMMA Smallest ==
  ASSUME NEW T, T # {}, NEW mu \in [T -> Nat]
  PROVE  \E x \in T : \A y \in T : mu[x] <= mu[y]
<1> DEFINE M == {mu[x] : x \in T}
           A == {n \in Nat : \A m \in M : m >= n}
<1> SUFFICES ASSUME \A x \in T : \E y \in T : mu[y] < mu[x] PROVE FALSE
  <2>1. \A x, y \in T : mu[x] \in Nat /\ mu[y] \in Nat
    OBVIOUS
  <2>2. QED BY <2>1
<1>1. 0 \in A
  OBVIOUS
<1>2. ASSUME NEW n \in A PROVE n + 1 \in A
  <2>1. ASSUME NEW x \in T PROVE mu[x] >= n + 1
    <3>1. PICK y \in T : mu[y] < mu[x]
      OBVIOUS
    <3>2. mu[y] >= n /\ mu[y] \in Nat /\ mu[x] \in Nat /\ n \in Nat
      OBVIOUS
    <3>3. QED BY <3>1, <3>2
  <2>2. QED BY <2>1
<1>3. PICK x \in T : TRUE
  OBVIOUS
<1>4. mu[x] + 1 \in Nat /\ mu[x] \in Nat
  OBVIOUS
<1>5. mu[x] + 1 \in A
  <2> HIDE DEF A
  <2>1. Nat \subseteq A
    BY <1>1, <1>2, SetInduction
  <2>2. QED BY <1>4, <2>1
<1>6. mu[x] >= mu[x] + 1
  <2>1. mu[x] \in M
    OBVIOUS
  <2> HIDE DEF M
  <2>2. QED BY <1>5, <2>1
<1>7. QED BY <1>4, <1>6

\* g is such a sequence if each of its states that is in I is followed by F's.
LEMMA RunIs ==
  ASSUME NEW I, NEW F, NEW s \in I, Closed(F, I), NEW M \in Nat,
         NEW g, g = [n \in 0 .. M |-> g[n]], g[0] = s,
         \A n \in 1 .. M : g[n - 1] \in I => g[n] = F[g[n - 1]]
  PROVE  IsRun(g, F, s, M, I)
<1> DEFINE A == {n \in Nat : n \in 0 .. M => g[n] \in I}
<1>1. 0 \in A
  OBVIOUS
<1>2. ASSUME NEW n \in A PROVE n + 1 \in A
  <2> SUFFICES ASSUME n + 1 \in 0 .. M PROVE g[n + 1] \in I
    OBVIOUS
  <2>1. n \in 0 .. M /\ n + 1 \in 1 .. M /\ (n + 1) - 1 = n
    OBVIOUS
  <2>2. g[n] \in I
    BY <2>1
  <2>3. g[n + 1] = F[g[n]]
    BY <2>1, <2>2
  <2>4. QED BY <2>2, <2>3 DEF Closed
<1> HIDE DEF A
<1>3. Nat \subseteq A
  BY <1>1, <1>2, SetInduction
<1>4. \A n \in 0 .. M : g[n] \in I
  BY <1>3 DEF A
<1>5. \A n \in 1 .. M : g[n - 1] \in I
  <2>1. \A n \in 1 .. M : n - 1 \in 0 .. M
    OBVIOUS
  <2>2. QED BY <1>4, <2>1
<1>6. g \in [0 .. M -> I]
  BY <1>4
<1>7. QED BY <1>5, <1>6 DEF IsRun

-----------------------------------------------------------------------------
(* Links and heights *)

\* The parts of IsTree.  V are the nodes, S[n] the nodes of the subtree of n.
Typed(root, L, R, P, V, S, K) ==
    /\ V \subseteq Elem /\ Null \notin V
    /\ S \in [V \cup {Null} -> SUBSET V] /\ S[Null] = {}
    /\ root \in V \cup {Null} /\ S[root] = V
    /\ L \in [Elem -> Links] /\ R \in [Elem -> Links] /\ P \in [Elem -> Links]
    /\ K \in [Elem -> Int]
    /\ \A n \in V : L[n] \in V \cup {Null} /\ R[n] \in V \cup {Null}

Unfolds(L, R, V, S) == \A n \in V : S[n] = {n} \cup S[L[n]] \cup S[R[n]]

Sorted(L, R, V, S, K) ==
    \A n \in V : /\ \A x \in S[L[n]] : K[x] < K[n]
                 /\ \A x \in S[R[n]] : K[n] < K[x]

Parents(root, L, R, P, V) ==
    /\ root # Null => P[root] = Null
    /\ \A n \in V : (L[n] # Null => P[L[n]] = n) /\ (R[n] # Null => P[R[n]] = n)
    /\ \A n \in V : n # root => P[n] \in V /\ (n = L[P[n]] \/ n = R[P[n]])

\* A subtree that has a node has its children; one that has a node other than
\* its own root has its parent.
Nested(root, P, V, S) ==
    \A n, m \in V : n # root /\ n # m => (n \in S[m] <=> P[n] \in S[m])

\* Links of a binary search tree
IsTree(root, L, R, P, V, S, K) ==
    /\ Typed(root, L, R, P, V, S, K)
    /\ Unfolds(L, R, V, S) /\ Sorted(L, R, V, S, K)
    /\ Parents(root, L, R, P, V) /\ Nested(root, P, V, S)

\* A tree and its mirror image
LEMMA Mirror ==
  ASSUME NEW root, NEW L, NEW R, NEW P, NEW V, NEW S, NEW K,
         IsTree(root, L, R, P, V, S, K)
  PROVE  IsTree(root, R, L, P, V, S, [e \in Elem |-> 0 - K[e]])
<1> DEFINE K2 == [e \in Elem |-> 0 - K[e]]
<1>1. K \in [Elem -> Int] /\ V \subseteq Elem
  BY DEF IsTree, Typed
<1>2. K2 \in [Elem -> Int] /\ \A x, y \in Elem : K[x] < K[y] <=> K2[y] < K2[x]
  BY <1>1
<1> HIDE DEF K2
<1>3. Typed(root, R, L, P, V, S, K2)
  BY <1>2 DEF IsTree, Typed
<1>4. Unfolds(R, L, V, S)
  BY DEF IsTree, Unfolds
<1>5. Sorted(R, L, V, S, K2)
  <2>1. \A n \in V : S[L[n]] \subseteq Elem /\ S[R[n]] \subseteq Elem /\ n \in Elem
    BY DEF IsTree, Typed
  <2>2. QED BY <1>2, <2>1 DEF IsTree, Sorted
<1>6. Parents(root, R, L, P, V) /\ Nested(root, P, V, S)
  BY DEF IsTree, Parents, Nested
<1>7. QED BY <1>3, <1>4, <1>5, <1>6 DEF IsTree, K2

LEMMA MirrorBack ==
  ASSUME NEW root, NEW L, NEW R, NEW P, NEW V, NEW S, NEW K \in [Elem -> Int],
         IsTree(root, R, L, P, V, S, [e \in Elem |-> 0 - K[e]])
  PROVE  IsTree(root, L, R, P, V, S, K)
<1> DEFINE K2 == [e \in Elem |-> 0 - K[e]]
<1>1. IsTree(root, L, R, P, V, S, [e \in Elem |-> 0 - K2[e]])
  BY Mirror
<1>2. [e \in Elem |-> 0 - K2[e]] = K
  <2>1. \A e \in Elem : 0 - K2[e] = K[e]
    OBVIOUS
  <2> HIDE DEF K2
  <2>2. QED BY <2>1
<1>3. QED BY <1>1, <1>2

\* What a link to a child says, for a left child
LEMMA LeftChild ==
  ASSUME NEW root, NEW L, NEW R, NEW P, NEW V, NEW S, NEW K,
         IsTree(root, L, R, P, V, S, K), NEW n \in V, L[n] # Null
  PROVE  /\ L[n] \in V /\ L[n] # n /\ L[n] # R[n] /\ L[n] # root /\ P[L[n]] = n
         /\ L[n] \in S[L[n]] /\ n \in S[n] /\ S[L[n]] \subseteq S[n]
         /\ n \notin S[L[n]] /\ P[n] # L[n]
<1> DEFINE c == L[n]
<1>1. c \in V /\ n \in Elem /\ Null \notin Elem /\ K[n] \in Int
  BY NullAssumption DEF IsTree, Typed
<1>2. S[c] = {c} \cup S[L[c]] \cup S[R[c]] /\ S[n] = {n} \cup S[L[n]] \cup S[R[n]]
  BY <1>1 DEF IsTree, Unfolds
<1>3. /\ \A x \in S[L[n]] : K[x] < K[n]
      /\ \A x \in S[R[n]] : K[n] < K[x]
  BY DEF IsTree, Sorted
<1>4. c \in S[c] /\ n \in S[n] /\ S[c] \subseteq S[n]
  BY <1>2
<1>5. n \notin S[c] /\ c # n
  BY <1>1, <1>3, <1>4
<1>6. c # R[n]
  <2> SUFFICES ASSUME c = R[n] PROVE FALSE
    OBVIOUS
  <2>1. K[c] < K[n] /\ K[n] < K[c] /\ K[c] \in Int
    BY <1>1, <1>3, <1>4 DEF IsTree, Typed
  <2>2. QED BY <1>1, <2>1
<1>7. P[c] = n /\ c # root
  BY <1>1 DEF IsTree, Parents
<1>8. P[n] # c
  <2> SUFFICES ASSUME P[n] = c PROVE FALSE
    OBVIOUS
  <2>1. n # root
    BY <1>1 DEF IsTree, Parents, Typed
  <2>2. P[n] \in S[c]
    BY <1>4
  <2>3. n \in S[c]
    BY <1>1, <1>5, <2>1, <2>2 DEF IsTree, Nested
  <2>4. QED BY <1>5, <2>3
<1>9. QED BY <1>1, <1>4, <1>5, <1>6, <1>7, <1>8

LEMMA RightChild ==
  ASSUME NEW root, NEW L, NEW R, NEW P, NEW V, NEW S, NEW K,
         IsTree(root, L, R, P, V, S, K), NEW n \in V, R[n] # Null
  PROVE  /\ R[n] \in V /\ R[n] # n /\ R[n] # L[n] /\ R[n] # root /\ P[R[n]] = n
         /\ R[n] \in S[R[n]] /\ n \in S[n] /\ S[R[n]] \subseteq S[n]
         /\ n \notin S[R[n]] /\ P[n] # R[n]
<1>1. IsTree(root, R, L, P, V, S, [e \in Elem |-> 0 - K[e]])
  BY Mirror
<1>2. QED BY <1>1, LeftChild

\* The link to old, in its parent p or root_, becomes a link to new.
Replaced(root, L, R, root2, L2, R2, p, old, new) ==
    \/ p = Null /\ root2 = new
    \/ /\ p # Null /\ root2 = root
       /\ \/ L[p] = old /\ L2[p] = new /\ R2[p] = R[p]
          \/ R[p] = old /\ R2[p] = new /\ L2[p] = L[p]

\* What RotateLeft does to the links: r, the right child of n, takes its place.
Rotated(root, L, R, P, V, root2, L2, R2, P2, n, r) ==
    /\ r = R[n] /\ r # Null
    /\ L2 \in [Elem -> Links] /\ R2 \in [Elem -> Links] /\ P2 \in [Elem -> Links]
    /\ L2[n] = L[n] /\ R2[n] = L[r] /\ L2[r] = n /\ R2[r] = R[r]
    /\ P2[r] = P[n] /\ P2[n] = r /\ (L[r] # Null => P2[L[r]] = n)
    /\ \A x \in V \ {n, r, L[r]} : P2[x] = P[x]
    /\ \A x \in V \ {n, r, P[n]} : L2[x] = L[x] /\ R2[x] = R[x]
    /\ Replaced(root, L, R, root2, L2, R2, P[n], n, r)

\* The subtrees after the rotation
RotatedSets(L, V, S, n, r) ==
    [x \in V \cup {Null} |-> IF x = n THEN {n} \cup S[L[n]] \cup S[L[r]]
                            ELSE IF x = r THEN S[n] ELSE S[x]]

LEMMA RotateShape ==
  ASSUME NEW root, NEW L, NEW R, NEW P, NEW V, NEW S, NEW K,
         IsTree(root, L, R, P, V, S, K), NEW n \in V,
         NEW root2, NEW L2, NEW R2, NEW P2, NEW r,
         Rotated(root, L, R, P, V, root2, L2, R2, P2, n, r)
  PROVE  IsTree(root2, L2, R2, P2, V, RotatedSets(L, V, S, n, r), K)
<1> DEFINE S2 == RotatedSets(L, V, S, n, r)
           a == L[n]
           b == L[r]
           c == R[r]
           p == P[n]
<1>1. /\ V \subseteq Elem /\ Null \notin V /\ S \in [V \cup {Null} -> SUBSET V]
      /\ S[Null] = {} /\ root \in V \cup {Null} /\ S[root] = V
      /\ K \in [Elem -> Int] /\ Null \notin Elem
      /\ \A x \in V : L[x] \in V \cup {Null} /\ R[x] \in V \cup {Null}
  BY NullAssumption DEF IsTree, Typed
<1>2. /\ r \in V /\ r # n /\ r # a /\ r # root /\ P[r] = n /\ r \in S[r] /\ n \in S[n]
      /\ S[r] \subseteq S[n] /\ n \notin S[r] /\ p # r /\ r = R[n]
  BY RightChild DEF Rotated
<1>3. a \in V \cup {Null} /\ b \in V \cup {Null} /\ c \in V \cup {Null} /\ n # Null /\ r # Null
  BY <1>1, <1>2
<1>4. /\ p \in V \cup {Null} /\ (p = Null <=> n = root) /\ root # Null
      /\ n # root => n = L[p] \/ n = R[p]
  BY <1>1 DEF IsTree, Parents
<1>5. b # Null => /\ b # n /\ b # r /\ b # c /\ b # root /\ P[b] = r /\ b \in S[b]
                  /\ r \notin S[b] /\ S[b] \subseteq S[r]
  BY <1>2, LeftChild
<1>6. c # Null => c # n /\ c # r /\ P[c] = r
  BY <1>2, RightChild
<1>7. a # Null => a # n /\ a # r /\ P[a] = n /\ a \in S[a] /\ n \notin S[a]
  BY <1>2, LeftChild
<1>8. p # n /\ (b # Null => p # b)
  <2>1. p # n
    BY <1>1, <1>4, LeftChild, RightChild
  <2>2. b # Null => p # b
    <3> SUFFICES ASSUME p = b, b # Null PROVE FALSE
      OBVIOUS
    <3>1. n \in S[b]
      BY <1>1, <1>3, <1>4, <1>5 DEF IsTree, Nested
    <3>2. QED BY <1>2, <1>5, <3>1
  <2>3. QED BY <2>1, <2>2
<1>9. S[n] = {n} \cup S[a] \cup S[r] /\ S[r] = {r} \cup S[b] \cup S[c]
  BY <1>2 DEF IsTree, Unfolds
<1>10. /\ \A x \in S[a] : K[x] < K[n]
       /\ \A x \in S[r] : K[n] < K[x]
       /\ \A x \in S[b] : K[x] < K[r]
       /\ \A x \in S[c] : K[r] < K[x]
  BY <1>2 DEF IsTree, Sorted
<1>11. /\ S2 \in [V \cup {Null} -> SUBSET V] /\ S2[n] = {n} \cup S[a] \cup S[b] /\ S2[r] = S[n]
       /\ \A x \in (V \cup {Null}) \ {n, r} : S2[x] = S[x]
  BY <1>1, <1>2, <1>3 DEF RotatedSets
<1> HIDE DEF S2
<1>12. /\ L2 \in [Elem -> Links] /\ R2 \in [Elem -> Links] /\ P2 \in [Elem -> Links]
       /\ L2[n] = a /\ R2[n] = b /\ L2[r] = n /\ R2[r] = c
       /\ P2[r] = p /\ P2[n] = r /\ (b # Null => P2[b] = n)
       /\ \A x \in V \ {n, r, b} : P2[x] = P[x]
       /\ \A x \in V \ {n, r, p} : L2[x] = L[x] /\ R2[x] = R[x]
  BY DEF Rotated
<1>13. \/ p = Null /\ root2 = r
       \/ /\ p # Null /\ root2 = root
          /\ \/ L[p] = n /\ L2[p] = r /\ R2[p] = R[p]
             \/ R[p] = n /\ R2[p] = r /\ L2[p] = L[p]
  BY DEF Rotated, Replaced
\* the children of the other nodes
<1>14. \A x \in V \ {n, r, p} : L[x] \notin {n, r} /\ R[x] \notin {n, r}
  <2>1. \A x \in V : (L[x] # Null => P[L[x]] = x) /\ (R[x] # Null => P[R[x]] = x)
    BY DEF IsTree, Parents
  <2>2. QED BY <1>1, <1>2, <1>3, <2>1
<1>15. p # Null => /\ p \in V \ {n, r}
                   /\ L[p] = n => R[p] \notin {n, r}
                   /\ R[p] = n => L[p] \notin {n, r}
  <2>1. p # Null => (L[p] # Null => P[L[p]] = p) /\ (R[p] # Null => P[R[p]] = p)
    BY <1>4 DEF IsTree, Parents
  <2>2. p # Null /\ L[p] = n => R[p] # n
    BY <1>3, <1>4, LeftChild
  <2>3. QED BY <1>2, <1>3, <1>4, <1>8, <2>1, <2>2
<1>16. Typed(root2, L2, R2, P2, V, S2, K)
  <2>1. \A x \in V : L2[x] \in V \cup {Null} /\ R2[x] \in V \cup {Null}
    BY <1>1, <1>2, <1>3, <1>12, <1>13
  <2>2. root2 \in V \cup {Null} /\ S2[root2] = V
    BY <1>1, <1>2, <1>4, <1>11, <1>13
  <2>3. S2[Null] = {}
    BY <1>1, <1>3, <1>11
  <2>4. QED BY <1>1, <1>11, <1>12, <2>1, <2>2, <2>3 DEF Typed
<1>17. Unfolds(L2, R2, V, S2)
  <2> SUFFICES ASSUME NEW x \in V PROVE S2[x] = {x} \cup S2[L2[x]] \cup S2[R2[x]]
    BY DEF Unfolds
  <2>0. S[x] = {x} \cup S[L[x]] \cup S[R[x]] /\ L[x] \in V \cup {Null} /\ R[x] \in V \cup {Null}
    BY <1>1 DEF IsTree, Unfolds
  <2>1. CASE x = n
    <3>1. S2[a] = S[a] /\ S2[b] = S[b]
      BY <1>2, <1>3, <1>5, <1>7, <1>11
    <3>2. QED BY <1>11, <1>12, <2>1, <3>1
  <2>2. CASE x = r
    <3>1. S2[c] = S[c]
      BY <1>2, <1>3, <1>6, <1>11
    <3>2. QED BY <1>9, <1>11, <1>12, <2>2, <3>1
  <2>3. CASE x = p
    <3>1. S2[p] = S[p] /\ S2[r] = S[n]
      BY <1>3, <1>11, <1>15, <2>3
    <3>2. CASE L[p] = n /\ L2[p] = r /\ R2[p] = R[p]
      <4>1. S2[R[p]] = S[R[p]]
        BY <1>1, <1>11, <1>15, <2>0, <2>3, <3>2
      <4>2. QED BY <2>0, <2>3, <3>1, <3>2, <4>1
    <3>3. CASE R[p] = n /\ R2[p] = r /\ L2[p] = L[p]
      <4>1. S2[L[p]] = S[L[p]]
        BY <1>1, <1>11, <1>15, <2>0, <2>3, <3>3
      <4>2. QED BY <2>0, <2>3, <3>1, <3>3, <4>1
    <3>4. QED BY <1>1, <1>13, <2>3, <3>2, <3>3
  <2>4. CASE x \notin {n, r, p}
    <3>1. L2[x] = L[x] /\ R2[x] = R[x] /\ L[x] \notin {n, r} /\ R[x] \notin {n, r}
      BY <1>12, <1>14, <2>4
    <3>2. S2[L[x]] = S[L[x]] /\ S2[R[x]] = S[R[x]] /\ S2[x] = S[x]
      BY <1>11, <2>0, <2>4, <3>1
    <3>3. QED BY <2>0, <3>1, <3>2
  <2>5. QED BY <2>1, <2>2, <2>3, <2>4
<1>18. Sorted(L2, R2, V, S2, K)
  <2> SUFFICES ASSUME NEW x \in V
               PROVE  /\ \A y \in S2[L2[x]] : K[y] < K[x]
                      /\ \A y \in S2[R2[x]] : K[x] < K[y]
    BY DEF Sorted
  <2>0. /\ L[x] \in V \cup {Null} /\ R[x] \in V \cup {Null}
        /\ \A y \in S[L[x]] : K[y] < K[x]
        /\ \A y \in S[R[x]] : K[x] < K[y]
    BY <1>1 DEF IsTree, Sorted
  <2>1. CASE x = n
    <3>1. S2[a] = S[a] /\ S2[b] = S[b] /\ S[b] \subseteq S[r]
      BY <1>1, <1>2, <1>3, <1>5, <1>7, <1>11
    <3>2. QED BY <1>10, <1>12, <2>1, <3>1
  <2>2. CASE x = r
    <3>1. S2[c] = S[c] /\ S2[n] = {n} \cup S[a] \cup S[b]
      BY <1>2, <1>3, <1>6, <1>11
    <3>2. K[n] < K[r] /\ K[n] \in Int /\ K[r] \in Int
      BY <1>1, <1>2, <1>10
    <3>3. \A y \in S[a] : K[y] \in Int /\ K[y] < K[r]
      <4>1. S[a] \subseteq Elem
        BY <1>1, <1>3
      <4>2. \A y \in S[a] : K[y] \in Int
        BY <1>1, <4>1
      <4>3. QED BY <1>10, <3>2, <4>2
    <3>4. QED BY <1>10, <1>12, <2>2, <3>1, <3>2, <3>3
  <2>3. CASE x = p
    <3>1. S2[r] = S[n]
      BY <1>11
    <3>2. CASE L[p] = n /\ L2[p] = r /\ R2[p] = R[p]
      <4>1. S2[R[p]] = S[R[p]]
        BY <1>1, <1>11, <1>15, <2>0, <2>3, <3>2
      <4>2. QED BY <2>0, <2>3, <3>1, <3>2, <4>1
    <3>3. CASE R[p] = n /\ R2[p] = r /\ L2[p] = L[p]
      <4>1. S2[L[p]] = S[L[p]]
        BY <1>1, <1>11, <1>15, <2>0, <2>3, <3>3
      <4>2. QED BY <2>0, <2>3, <3>1, <3>3, <4>1
    <3>4. QED BY <1>1, <1>13, <2>3, <3>2, <3>3
  <2>4. CASE x \notin {n, r, p}
    <3>1. L2[x] = L[x] /\ R2[x] = R[x] /\ L[x] \notin {n, r} /\ R[x] \notin {n, r}
      BY <1>12, <1>14, <2>4
    <3>2. S2[L[x]] = S[L[x]] /\ S2[R[x]] = S[R[x]]
      BY <1>11, <2>0, <3>1
    <3>3. QED BY <2>0, <3>1, <3>2
  <2>5. QED BY <2>1, <2>2, <2>3, <2>4
<1>19. Parents(root2, L2, R2, P2, V)
  <2>0. /\ \A x \in V : (L[x] # Null => P[L[x]] = x) /\ (R[x] # Null => P[R[x]] = x)
        /\ \A x \in V : x # root => P[x] \in V /\ (x = L[P[x]] \/ x = R[P[x]])
        /\ root # Null => P[root] = Null
    BY DEF IsTree, Parents
  <2>1. root2 # Null => P2[root2] = Null
    <3>1. CASE p = Null
      BY <1>12, <1>13, <3>1
    <3>2. CASE p # Null
      <4>1. root2 = root /\ root \notin {n, r, b}
        BY <1>2, <1>3, <1>4, <1>5, <1>13, <3>2
      <4>2. QED BY <1>1, <1>12, <2>0, <4>1
    <3>3. QED BY <3>1, <3>2
  <2>2. ASSUME NEW x \in V
        PROVE  (L2[x] # Null => P2[L2[x]] = x) /\ (R2[x] # Null => P2[R2[x]] = x)
    <3>1. CASE x = n
      BY <1>2, <1>3, <1>7, <1>5, <1>12, <3>1
    <3>2. CASE x = r
      <4>1. c # Null => c \in V \ {n, r, b}
        BY <1>3, <1>5, <1>6
      <4>2. QED BY <1>6, <1>12, <3>2, <4>1
    <3>3. CASE x = p
      <4>1. \A y \in {L[p], R[p]} : y # n /\ y # Null => y \in V \ {n, r, b} /\ P2[y] = p
        <5>1. \A y \in {L[p], R[p]} : y # Null => y \in V /\ P[y] = p
          BY <1>1, <2>0, <3>3
        <5>2. p # n /\ p # r
          BY <1>2, <1>8
        <5>3. \A y \in {L[p], R[p]} : y # n /\ y # Null => y \in V \ {n, r, b}
          BY <1>2, <1>5, <5>1, <5>2
        <5>4. QED BY <1>12, <5>1, <5>3
      <4>2. P2[r] = p
        BY <1>12
      <4>3. QED BY <1>1, <1>13, <1>15, <3>3, <4>1, <4>2
    <3>4. CASE x \notin {n, r, p}
      <4>1. \A y \in {L[x], R[x]} : y # Null => y \in V /\ P[y] = x /\ y \notin {n, r, b}
        BY <1>1, <1>2, <1>5, <2>0, <3>4
      <4>2. QED BY <1>12, <3>4, <4>1
    <3>5. QED BY <3>1, <3>2, <3>3, <3>4
  <2>3. ASSUME NEW x \in V, x # root2
        PROVE  P2[x] \in V /\ (x = L2[P2[x]] \/ x = R2[P2[x]])
    <3>1. CASE x = n
      BY <1>2, <1>12, <3>1
    <3>2. CASE x = r
      <4>1. p # Null /\ p \in V
        BY <1>4, <1>13, <2>3, <3>2
      <4>2. QED BY <1>12, <1>13, <3>2, <4>1
    <3>3. CASE x = b
      BY <1>1, <1>12, <2>3, <3>3
    <3>4. CASE x \notin {n, r, b}
      <4>1. P2[x] = P[x]
        BY <1>12, <3>4
      <4>2. x # root
        BY <1>4, <1>13, <2>3, <3>4
      <4>3. P[x] \in V /\ (x = L[P[x]] \/ x = R[P[x]])
        BY <2>0, <4>2
      <4>4. CASE P[x] = n
        BY <1>2, <1>12, <3>4, <4>1, <4>3, <4>4
      <4>5. CASE P[x] = r
        BY <1>2, <1>12, <3>4, <4>1, <4>3, <4>5
      <4>6. CASE P[x] = p
        BY <1>1, <1>13, <3>4, <4>1, <4>3, <4>6
      <4>7. CASE P[x] \notin {n, r, p}
        BY <1>12, <4>1, <4>3, <4>7
      <4>8. QED BY <4>4, <4>5, <4>6, <4>7
    <3>5. QED BY <3>1, <3>2, <3>3, <3>4
  <2>4. QED BY <2>1, <2>2, <2>3 DEF Parents
<1>20. Nested(root2, P2, V, S2)
  <2> SUFFICES ASSUME NEW x \in V, NEW m \in V, x # root2, x # m
               PROVE  x \in S2[m] <=> P2[x] \in S2[m]
    BY DEF Nested
  <2>0. \A y, z \in V : y # root /\ y # z => (y \in S[z] <=> P[y] \in S[z])
    BY DEF IsTree, Nested
  <2>1. \A z \in V \ {n, r} : S2[z] = S[z] /\ (r \in S[z] <=> n \in S[z])
    BY <1>2, <1>11, <2>0
  <2>2. CASE x = n
    <3>1. CASE m = r
      BY <1>2, <1>11, <1>12, <2>2, <3>1
    <3>2. CASE m # r
      BY <1>12, <2>1, <2>2, <3>2
    <3>3. QED BY <3>1, <3>2
  <2>3. CASE x = r
    <3>1. n # root /\ p # Null /\ p \in V
      BY <1>4, <1>13, <2>3
    <3>2. CASE m = n
      <4>1. r \notin S2[n]
        BY <1>1, <1>2, <1>3, <1>5, <1>7, <1>10, <1>11
      <4>2. p \notin S2[n]
        <5>1. p \notin S[a]
          BY <1>1, <1>3, <1>7, <2>0, <3>1
        <5>2. p \notin S[b]
          BY <1>1, <1>2, <1>3, <1>5, <2>0, <3>1
        <5>3. QED BY <1>8, <1>11, <5>1, <5>2
      <4>3. QED BY <1>12, <2>3, <3>2, <4>1, <4>2
    <3>3. CASE m # n
      BY <1>12, <2>0, <2>1, <2>3, <3>1, <3>3
    <3>4. QED BY <3>2, <3>3
  <2>4. CASE x = b
    <3>0. b # Null /\ P2[b] = n /\ b \in S[b] /\ b \in S[r]
      BY <1>1, <1>5, <1>12, <2>4
    <3>1. CASE m = n
      BY <1>11, <2>4, <3>0, <3>1
    <3>2. CASE m = r
      BY <1>2, <1>11, <2>4, <3>0, <3>2
    <3>3. CASE m \notin {n, r}
      BY <1>5, <2>0, <2>1, <2>4, <3>0, <3>3
    <3>4. QED BY <3>1, <3>2, <3>3
  <2>5. CASE x \notin {n, r, b}
    <3>0. P2[x] = P[x] /\ x # root
      BY <1>4, <1>12, <1>13, <2>5
    <3>1. CASE m = n
      <4>1. x \in S[a] <=> P[x] \in S[a] \/ x = a
        BY <1>1, <1>3, <1>7, <2>0, <3>0
      <4>2. x \in S[b] <=> P[x] \in S[b]
        BY <1>1, <1>3, <1>5, <2>0, <2>5, <3>0
      <4>3. x = a => P[x] = n
        BY <1>1, <1>7
      <4>4. P[x] = n => x = a
        <5>1. P[x] = n => x = L[n] \/ x = R[n]
          BY <3>0 DEF IsTree, Parents
        <5>2. QED BY <1>2, <2>5, <5>1
      <4>5. QED BY <1>11, <2>5, <3>0, <3>1, <4>1, <4>2, <4>3, <4>4
    <3>2. CASE m = r
      BY <1>2, <1>11, <2>0, <2>5, <3>0, <3>2
    <3>3. CASE m \notin {n, r}
      BY <2>0, <2>1, <3>0, <3>3
    <3>4. QED BY <3>1, <3>2, <3>3
  <2>6. QED BY <2>2, <2>3, <2>4, <2>5
<1>21. QED BY <1>16, <1>17, <1>18, <1>19, <1>20 DEF IsTree, S2

\* The subtrees once n is linked below p
LinkedSets(V, S, n, p) ==
    [x \in V \cup {n, Null} |-> IF x = n THEN {n} ELSE IF p \in S[x] THEN S[x] \cup {n} ELSE S[x]]

\* Node n belongs below p: every node above p sends its key that way.
Fits(L, R, V, S, K, n, p) ==
    \A m \in V : /\ p \in S[L[m]] => K[n] < K[m]
                 /\ p \in S[R[m]] => K[m] < K[n]

LEMMA LinkShape ==
  ASSUME NEW root, NEW L, NEW R, NEW P, NEW V, NEW S, NEW K,
         IsTree(root, L, R, P, V, S, K), NEW p \in V, NEW n \in Elem \ V,
         L[p] = Null, K[n] < K[p], L[n] = Null, R[n] = Null,
         Fits(L, R, V, S, K, n, p)
  PROVE  IsTree(root, [L EXCEPT ![p] = n], R, [P EXCEPT ![n] = p], V \cup {n},
                LinkedSets(V, S, n, p), K)
<1> DEFINE S2 == LinkedSets(V, S, n, p)
           L2 == [L EXCEPT ![p] = n]
           P2 == [P EXCEPT ![n] = p]
           V2 == V \cup {n}
<1>1. /\ V \subseteq Elem /\ Null \notin V /\ S \in [V \cup {Null} -> SUBSET V]
      /\ S[Null] = {} /\ root \in V \cup {Null} /\ S[root] = V /\ Null \notin Elem
      /\ K \in [Elem -> Int] /\ n # Null /\ n # p /\ n \notin V
      /\ \A x \in V : L[x] \in V \cup {Null} /\ R[x] \in V \cup {Null}
      /\ L \in [Elem -> Links] /\ R \in [Elem -> Links] /\ P \in [Elem -> Links]
  BY NullAssumption DEF IsTree, Typed
<1>2. root \in V /\ p \in S[p] /\ p \notin S[R[p]]
  <2>1. root \in V
    BY <1>1
  <2>2. p \in S[p]
    BY DEF IsTree, Unfolds
  <2>3. p \notin S[R[p]]
    BY <1>1, RightChild
  <2>4. QED BY <2>1, <2>2, <2>3
<1>3. /\ S2 \in [V2 \cup {Null} -> SUBSET V2] /\ S2[n] = {n} /\ S2[Null] = {}
      /\ \A x \in V \cup {Null} : S2[x] = IF p \in S[x] THEN S[x] \cup {n} ELSE S[x]
  BY <1>1 DEF LinkedSets
<1>4. /\ L2 \in [Elem -> Links] /\ P2 \in [Elem -> Links]
      /\ L2[p] = n /\ P2[n] = p /\ L2[n] = Null
      /\ \A x \in V \ {p} : L2[x] = L[x]
      /\ \A x \in V : P2[x] = P[x]
  BY <1>1 DEF Links
<1> HIDE DEF S2, L2, P2
<1>5. Typed(root, L2, R, P2, V2, S2, K)
  <2>1. \A x \in V2 : L2[x] \in V2 \cup {Null} /\ R[x] \in V2 \cup {Null}
    BY <1>1, <1>4
  <2>2. S2[root] = V2 /\ root \in V2 \cup {Null}
    BY <1>1, <1>2, <1>3
  <2>3. V2 \subseteq Elem /\ Null \notin V2
    BY <1>1
  <2>4. QED BY <1>1, <1>3, <1>4, <2>1, <2>2, <2>3 DEF Typed
<1>6. Unfolds(L2, R, V2, S2)
  <2> SUFFICES ASSUME NEW x \in V2 PROVE S2[x] = {x} \cup S2[L2[x]] \cup S2[R[x]]
    BY DEF Unfolds
  <2>1. CASE x = n
    BY <1>3, <1>4, <2>1
  <2>2. CASE x = p
    <3>1. S[p] = {p} \cup S[L[p]] \cup S[R[p]]
      BY DEF IsTree, Unfolds
    <3>2. S2[R[p]] = S[R[p]]
      BY <1>1, <1>2, <1>3
    <3>3. S2[p] = S[p] \cup {n} /\ S2[L2[p]] = {n}
      BY <1>2, <1>3, <1>4
    <3>4. QED BY <1>1, <2>2, <3>1, <3>2, <3>3
  <2>3. CASE x \in V \ {p}
    <3>1. S[x] = {x} \cup S[L[x]] \cup S[R[x]]
      BY <2>3 DEF IsTree, Unfolds
    <3>2. L2[x] = L[x] /\ L[x] \in V \cup {Null} /\ R[x] \in V \cup {Null}
      BY <1>1, <1>4, <2>3
    <3>3. p \in S[x] <=> p \in S[L[x]] \/ p \in S[R[x]]
      BY <2>3, <3>1
    <3>4. /\ S2[x] = IF p \in S[x] THEN S[x] \cup {n} ELSE S[x]
          /\ S2[L[x]] = IF p \in S[L[x]] THEN S[L[x]] \cup {n} ELSE S[L[x]]
          /\ S2[R[x]] = IF p \in S[R[x]] THEN S[R[x]] \cup {n} ELSE S[R[x]]
      BY <1>3, <2>3, <3>2
    <3>5. S2[x] = {x} \cup S2[L[x]] \cup S2[R[x]]
      <4>1. CASE p \in S[x]
        BY <3>1, <3>3, <3>4, <4>1
      <4>2. CASE p \notin S[x]
        BY <3>1, <3>3, <3>4, <4>2
      <4>3. QED BY <4>1, <4>2
    <3>6. QED BY <3>2, <3>5
  <2>4. QED BY <2>1, <2>2, <2>3
<1>7. Sorted(L2, R, V2, S2, K)
  <2> SUFFICES ASSUME NEW x \in V2
               PROVE  /\ \A y \in S2[L2[x]] : K[y] < K[x]
                      /\ \A y \in S2[R[x]] : K[x] < K[y]
    BY DEF Sorted
  <2>1. CASE x = n
    BY <1>3, <1>4, <2>1
  <2>2. CASE x = p
    <3>1. S2[R[p]] = S[R[p]] /\ S2[L2[p]] = {n}
      BY <1>1, <1>2, <1>3, <1>4
    <3>2. QED BY <2>2, <3>1 DEF IsTree, Sorted
  <2>3. CASE x \in V \ {p}
    <3>1. L2[x] = L[x] /\ L[x] \in V \cup {Null} /\ R[x] \in V \cup {Null}
      BY <1>1, <1>4, <2>3
    <3>2. \A y \in S2[L[x]] : y \in S[L[x]] \/ (y = n /\ p \in S[L[x]])
      BY <1>3, <3>1
    <3>3. \A y \in S2[R[x]] : y \in S[R[x]] \/ (y = n /\ p \in S[R[x]])
      BY <1>3, <3>1
    <3>4. QED BY <2>3, <3>1, <3>2, <3>3 DEF IsTree, Sorted, Fits
  <2>4. QED BY <2>1, <2>2, <2>3
<1>8. Parents(root, L2, R, P2, V2)
  <2>0. /\ \A x \in V : (L[x] # Null => P[L[x]] = x) /\ (R[x] # Null => P[R[x]] = x)
        /\ \A x \in V : x # root => P[x] \in V /\ (x = L[P[x]] \/ x = R[P[x]])
        /\ root # Null => P[root] = Null
    BY DEF IsTree, Parents
  <2>1. root # Null => P2[root] = Null
    BY <1>2, <1>4, <2>0
  <2>2. ASSUME NEW x \in V2
        PROVE  (L2[x] # Null => P2[L2[x]] = x) /\ (R[x] # Null => P2[R[x]] = x)
    <3>1. CASE x = n
      BY <1>4, <3>1
    <3>2. CASE x = p
      BY <1>1, <1>4, <2>0, <3>2
    <3>3. CASE x \in V \ {p}
      BY <1>1, <1>4, <2>0, <3>3
    <3>4. QED BY <3>1, <3>2, <3>3
  <2>3. ASSUME NEW x \in V2, x # root
        PROVE  P2[x] \in V2 /\ (x = L2[P2[x]] \/ x = R[P2[x]])
    <3>1. CASE x = n
      BY <1>4, <3>1
    <3>2. CASE x \in V
      <4>1. P2[x] = P[x] /\ P[x] \in V /\ (x = L[P[x]] \/ x = R[P[x]])
        BY <1>4, <2>0, <2>3, <3>2
      <4>2. QED BY <1>1, <1>4, <3>2, <4>1
    <3>3. QED BY <3>1, <3>2
  <2>4. QED BY <2>1, <2>2, <2>3 DEF Parents
<1>9. Nested(root, P2, V2, S2)
  <2> SUFFICES ASSUME NEW x \in V2, NEW m \in V2, x # root, x # m
               PROVE  x \in S2[m] <=> P2[x] \in S2[m]
    BY DEF Nested
  <2>0. \A z \in V : (n \in S2[z] <=> p \in S[z]) /\ \A y \in V : y \in S2[z] <=> y \in S[z]
    <3> TAKE z \in V
    <3>1. S2[z] = IF p \in S[z] THEN S[z] \cup {n} ELSE S[z]
      BY <1>3
    <3>2. S[z] \subseteq V
      BY <1>1
    <3>3. QED BY <1>1, <3>1, <3>2
  <2>1. CASE x = n
    BY <1>4, <2>0, <2>1
  <2>2. CASE x \in V
    <3>1. P2[x] = P[x] /\ P[x] \in V
      BY <1>4, <2>2 DEF IsTree, Parents
    <3>2. CASE m = n
      BY <1>1, <1>3, <2>2, <3>1, <3>2
    <3>3. CASE m \in V
      <4>1. x \in S[m] <=> P[x] \in S[m]
        BY <2>2, <3>3 DEF IsTree, Nested
      <4>2. QED BY <2>0, <2>2, <3>1, <3>3, <4>1
    <3>4. QED BY <3>2, <3>3
  <2>3. QED BY <2>1, <2>2
<1>10. QED BY <1>5, <1>6, <1>7, <1>8, <1>9 DEF IsTree, S2, L2, P2

\* The same for the right link
LEMMA LinkShapeRight ==
  ASSUME NEW root, NEW L, NEW R, NEW P, NEW V, NEW S, NEW K,
         IsTree(root, L, R, P, V, S, K), NEW p \in V, NEW n \in Elem \ V,
         R[p] = Null, K[p] < K[n], L[n] = Null, R[n] = Null,
         Fits(L, R, V, S, K, n, p)
  PROVE  IsTree(root, L, [R EXCEPT ![p] = n], [P EXCEPT ![n] = p], V \cup {n},
                LinkedSets(V, S, n, p), K)
<1> DEFINE K2 == [e \in Elem |-> 0 - K[e]]
           S2 == LinkedSets(V, S, n, p)
<1>1. IsTree(root, R, L, P, V, S, K2)
  BY Mirror
<1>2. K \in [Elem -> Int] /\ V \subseteq Elem
  BY DEF IsTree, Typed
<1>3. \A x, y \in Elem : K[x] < K[y] <=> K2[y] < K2[x]
  BY <1>2
<1> HIDE DEF K2, S2
<1>4. K2[n] < K2[p]
  BY <1>2, <1>3
<1>5. Fits(R, L, V, S, K2, n, p)
  BY <1>2, <1>3 DEF Fits
<1>6. IsTree(root, [R EXCEPT ![p] = n], L, [P EXCEPT ![n] = p], V \cup {n}, S2, K2)
  BY <1>1, <1>4, <1>5, LinkShape DEF S2
<1>7. QED BY <1>2, <1>6, MirrorBack DEF K2, S2

\* Node n, which has no child but c, is cut out: c takes its place.
Cut(root, L, R, P, V, root2, L2, R2, P2, n, c) ==
    /\ (L[n] = Null /\ R[n] = c) \/ (R[n] = Null /\ L[n] = c)
    /\ L2 \in [Elem -> Links] /\ R2 \in [Elem -> Links] /\ P2 \in [Elem -> Links]
    /\ c # Null => P2[c] = P[n]
    /\ \A x \in V \ {n, c} : P2[x] = P[x]
    /\ \A x \in V \ {n, P[n]} : L2[x] = L[x] /\ R2[x] = R[x]
    /\ Replaced(root, L, R, root2, L2, R2, P[n], n, c)

CutSets(V, S, n) == [x \in (V \ {n}) \cup {Null} |-> S[x] \ {n}]

LEMMA CutShape ==
  ASSUME NEW root, NEW L, NEW R, NEW P, NEW V, NEW S, NEW K,
         IsTree(root, L, R, P, V, S, K), NEW n \in V,
         NEW root2, NEW L2, NEW R2, NEW P2, NEW c,
         Cut(root, L, R, P, V, root2, L2, R2, P2, n, c)
  PROVE  IsTree(root2, L2, R2, P2, V \ {n}, CutSets(V, S, n), K)
<1> DEFINE S2 == CutSets(V, S, n)
           V2 == V \ {n}
           p == P[n]
<1>1. /\ V \subseteq Elem /\ Null \notin V /\ S \in [V \cup {Null} -> SUBSET V]
      /\ S[Null] = {} /\ root \in V \cup {Null} /\ S[root] = V
      /\ K \in [Elem -> Int] /\ Null \notin Elem
      /\ \A x \in V : L[x] \in V \cup {Null} /\ R[x] \in V \cup {Null}
  BY NullAssumption DEF IsTree, Typed
<1>2. c # Null => /\ c \in V /\ c # n /\ c # root /\ P[c] = n /\ n \notin S[c] /\ p # c
  BY LeftChild, RightChild DEF Cut
<1>3. S[n] = {n} \cup S[c] /\ n \notin S[c] /\ c \in V \cup {Null} /\ c # n
  <2>1. S[n] = {n} \cup S[L[n]] \cup S[R[n]]
    BY DEF IsTree, Unfolds
  <2>2. QED BY <1>1, <1>2, <2>1 DEF Cut
<1>4. /\ p \in V \cup {Null} /\ (p = Null <=> n = root) /\ root # Null
      /\ p # n /\ n # Null
  <2>1. p \in V \cup {Null} /\ (p = Null <=> n = root) /\ root # Null
    BY <1>1 DEF IsTree, Parents
  <2>2. n # root => n = L[p] \/ n = R[p]
    BY DEF IsTree, Parents
  <2>3. p # n
    BY <1>1, <2>1, <2>2, LeftChild, RightChild
  <2>4. QED BY <1>1, <2>1, <2>3
<1>5. /\ S2 \in [V2 \cup {Null} -> SUBSET V2]
      /\ \A x \in V2 \cup {Null} : S2[x] = S[x] \ {n}
  BY <1>1 DEF CutSets
<1> HIDE DEF S2
<1>6. /\ L2 \in [Elem -> Links] /\ R2 \in [Elem -> Links] /\ P2 \in [Elem -> Links]
      /\ c # Null => P2[c] = p
      /\ \A x \in V \ {n, c} : P2[x] = P[x]
      /\ \A x \in V \ {n, p} : L2[x] = L[x] /\ R2[x] = R[x]
  BY DEF Cut
<1>7. \/ p = Null /\ root2 = c
      \/ /\ p # Null /\ root2 = root
         /\ \/ L[p] = n /\ L2[p] = c /\ R2[p] = R[p]
            \/ R[p] = n /\ R2[p] = c /\ L2[p] = L[p]
  BY DEF Cut, Replaced
<1>8. /\ \A x \in V : (L[x] # Null => P[L[x]] = x) /\ (R[x] # Null => P[R[x]] = x)
      /\ \A x \in V : x # root => P[x] \in V /\ (x = L[P[x]] \/ x = R[P[x]])
      /\ root # Null => P[root] = Null
  BY DEF IsTree, Parents
<1>9. \A x \in V \ {n, p} : L[x] # n /\ R[x] # n
  BY <1>1, <1>4, <1>8
<1>10. p # Null => (L[p] = n => R[p] # n) /\ (R[p] = n => L[p] # n)
  BY <1>4, LeftChild
<1>11. Typed(root2, L2, R2, P2, V2, S2, K)
  <2>1. \A x \in V2 : L2[x] \in V2 \cup {Null} /\ R2[x] \in V2 \cup {Null}
    <3> TAKE x \in V2
    <3>1. CASE x = p
      BY <1>1, <1>3, <1>4, <1>7, <1>10, <3>1
    <3>2. CASE x # p
      BY <1>1, <1>6, <1>9, <3>2
    <3>3. QED BY <3>1, <3>2
  <2>2. root2 \in V2 \cup {Null} /\ S2[root2] = V2
    <3>1. CASE p = Null
      BY <1>1, <1>3, <1>4, <1>5, <1>7, <3>1
    <3>2. CASE p # Null
      BY <1>1, <1>4, <1>5, <1>7, <3>2
    <3>3. QED BY <3>1, <3>2
  <2>3. S2[Null] = {}
    BY <1>1, <1>5
  <2>4. QED BY <1>1, <1>5, <1>6, <2>1, <2>2, <2>3 DEF Typed
\* the subtrees of the children
<1>12. \A x \in V2 : S2[L2[x]] = S[L[x]] \ {n} /\ S2[R2[x]] = S[R[x]] \ {n}
  <2> TAKE x \in V2
  <2>1. CASE x = p
    <3>1. S2[c] = S[c] /\ S[n] \ {n} = S[c]
      <4>1. S2[c] = S[c] \ {n}
        BY <1>3, <1>5
      <4>2. QED BY <1>3, <4>1
    <3>2. CASE L[p] = n /\ L2[p] = c /\ R2[p] = R[p]
      <4>1. R[p] \in V2 \cup {Null}
        BY <1>1, <1>10, <2>1, <3>2
      <4>2. QED BY <1>5, <2>1, <3>1, <3>2, <4>1
    <3>3. CASE R[p] = n /\ R2[p] = c /\ L2[p] = L[p]
      <4>1. L[p] \in V2 \cup {Null}
        BY <1>1, <1>10, <2>1, <3>3
      <4>2. QED BY <1>5, <2>1, <3>1, <3>3, <4>1
    <3>4. QED BY <1>1, <1>7, <2>1, <3>2, <3>3
  <2>2. CASE x # p
    BY <1>1, <1>5, <1>6, <1>9, <2>2
  <2>3. QED BY <2>1, <2>2
<1>13. Unfolds(L2, R2, V2, S2)
  <2> SUFFICES ASSUME NEW x \in V2 PROVE S2[x] = {x} \cup S2[L2[x]] \cup S2[R2[x]]
    BY DEF Unfolds
  <2>1. S[x] = {x} \cup S[L[x]] \cup S[R[x]] /\ x # n
    BY DEF IsTree, Unfolds
  <2>2. S2[x] = S[x] \ {n}
    BY <1>5
  <2>3. S2[L2[x]] = S[L[x]] \ {n} /\ S2[R2[x]] = S[R[x]] \ {n}
    BY <1>12
  <2>4. QED BY <2>1, <2>2, <2>3
<1>14. Sorted(L2, R2, V2, S2, K)
  BY <1>12 DEF Sorted, IsTree
<1>15. Parents(root2, L2, R2, P2, V2)
  <2>1. root2 # Null => P2[root2] = Null
    <3>1. CASE p = Null
      BY <1>6, <1>7, <3>1
    <3>2. CASE p # Null
      BY <1>1, <1>2, <1>4, <1>6, <1>7, <1>8, <3>2
    <3>3. QED BY <3>1, <3>2
  <2>2. ASSUME NEW x \in V2
        PROVE  (L2[x] # Null => P2[L2[x]] = x) /\ (R2[x] # Null => P2[R2[x]] = x)
    <3>1. \A y \in {L[x], R[x]} : y # Null /\ y # n => y # c /\ P2[y] = x
      <4> TAKE y \in {L[x], R[x]}
      <4> HAVE y # Null /\ y # n
      <4>1. P[y] = x /\ y \in V
        BY <1>1, <1>8
      <4>2. y # c
        BY <1>2, <4>1
      <4>3. QED BY <1>6, <4>1, <4>2
    <3>2. CASE x = p
      BY <1>1, <1>6, <1>7, <1>10, <3>1, <3>2
    <3>3. CASE x # p
      BY <1>6, <1>9, <3>1, <3>3
    <3>4. QED BY <3>2, <3>3
  <2>3. ASSUME NEW x \in V2, x # root2
        PROVE  P2[x] \in V2 /\ (x = L2[P2[x]] \/ x = R2[P2[x]])
    <3>1. CASE x = c
      <4>1. p # Null /\ p \in V2
        BY <1>4, <1>7, <2>3, <3>1
      <4>2. QED BY <1>1, <1>6, <1>7, <3>1, <4>1
    <3>2. CASE x # c
      <4>1. P2[x] = P[x] /\ x # root
        BY <1>4, <1>6, <1>7, <2>3, <3>2
      <4>2. P[x] \in V /\ (x = L[P[x]] \/ x = R[P[x]])
        BY <1>8, <4>1
      <4>3. P[x] # n
        BY <1>1, <3>2, <4>2 DEF Cut
      <4>4. CASE P[x] = p
        BY <1>1, <1>7, <4>1, <4>2, <4>3, <4>4
      <4>5. CASE P[x] # p
        BY <1>6, <4>1, <4>2, <4>3, <4>5
      <4>6. QED BY <4>4, <4>5
    <3>3. QED BY <3>1, <3>2
  <2>4. QED BY <2>1, <2>2, <2>3 DEF Parents
<1>16. Nested(root2, P2, V2, S2)
  <2> SUFFICES ASSUME NEW x \in V2, NEW m \in V2, x # root2, x # m
               PROVE  x \in S2[m] <=> P2[x] \in S2[m]
    BY DEF Nested
  <2>0. \A y, z \in V : y # root /\ y # z => (y \in S[z] <=> P[y] \in S[z])
    BY DEF IsTree, Nested
  <2>1. S2[m] = S[m] \ {n}
    BY <1>5
  <2>2. CASE x = c
    <3>1. p # Null /\ n # root
      BY <1>4, <1>7, <2>2
    <3>2. c # Null
      BY <1>1, <2>2
    <3>3. c \in S[m] <=> n \in S[m]
      BY <1>2, <2>0, <2>2, <3>2
    <3>4. n \in S[m] <=> p \in S[m]
      BY <2>0, <3>1
    <3>5. QED BY <1>4, <1>6, <2>1, <2>2, <3>2, <3>3, <3>4
  <2>3. CASE x # c
    <3>1. P2[x] = P[x] /\ x # root
      BY <1>4, <1>6, <1>7, <2>3
    <3>2. P[x] # n
      BY <1>1, <1>8, <2>3, <3>1 DEF Cut
    <3>3. QED BY <2>0, <2>1, <3>1, <3>2
  <2>4. QED BY <2>2, <2>3
<1>17. QED BY <1>11, <1>13, <1>14, <1>15, <1>16 DEF IsTree, S2

\* Node s takes the place of node n: its children, its parent and the link to it.
InPlaceOf(root, L, R, P, V, root2, L2, R2, P2, n, s) ==
    /\ L2 \in [Elem -> Links] /\ R2 \in [Elem -> Links] /\ P2 \in [Elem -> Links]
    /\ L2[s] = L[n] /\ R2[s] = R[n] /\ P2[s] = P[n]
    /\ (L[n] # Null => P2[L[n]] = s) /\ (R[n] # Null => P2[R[n]] = s)
    /\ \A x \in V \ {n, L[n], R[n]} : P2[x] = P[x]
    /\ \A x \in V \ {n, P[n]} : L2[x] = L[x] /\ R2[x] = R[x]
    /\ Replaced(root, L, R, root2, L2, R2, P[n], n, s)

\* Its key fits there.
Between(L, R, V, S, K, n, s) ==
    /\ \A x \in S[L[n]] : K[x] < K[s]
    /\ \A x \in S[R[n]] : K[s] < K[x]
    /\ Fits(L, R, V, S, K, s, n)

Renamed(T, n, s) == IF n \in T THEN (T \ {n}) \cup {s} ELSE T

RenamedSets(V, S, n, s) ==
    [x \in ((V \ {n}) \cup {s}) \cup {Null} |-> Renamed(S[IF x = s THEN n ELSE x], n, s)]

LEMMA RenameShape ==
  ASSUME NEW root, NEW L, NEW R, NEW P, NEW V, NEW S, NEW K,
         IsTree(root, L, R, P, V, S, K), NEW n \in V, NEW s \in Elem \ V,
         NEW root2, NEW L2, NEW R2, NEW P2,
         InPlaceOf(root, L, R, P, V, root2, L2, R2, P2, n, s),
         Between(L, R, V, S, K, n, s)
  PROVE  IsTree(root2, L2, R2, P2, (V \ {n}) \cup {s}, RenamedSets(V, S, n, s), K)
<1> DEFINE S2 == RenamedSets(V, S, n, s)
           V2 == (V \ {n}) \cup {s}
           p == P[n]
<1>1. /\ V \subseteq Elem /\ Null \notin V /\ S \in [V \cup {Null} -> SUBSET V]
      /\ S[Null] = {} /\ root \in V \cup {Null} /\ S[root] = V
      /\ K \in [Elem -> Int] /\ Null \notin Elem /\ s # Null /\ s # n /\ n # Null /\ s \notin V
      /\ \A x \in V : L[x] \in V \cup {Null} /\ R[x] \in V \cup {Null}
  BY NullAssumption DEF IsTree, Typed
<1>2. /\ L[n] # Null => L[n] \in V \ {n} /\ L[n] # R[n] /\ L[n] # root /\ n \notin S[L[n]] /\ p # L[n]
      /\ R[n] # Null => R[n] \in V \ {n} /\ R[n] # root /\ n \notin S[R[n]] /\ p # R[n]
  BY <1>1, LeftChild, RightChild
<1>3. S[n] = {n} \cup S[L[n]] \cup S[R[n]] /\ n \notin S[L[n]] /\ n \notin S[R[n]]
  BY <1>1, <1>2 DEF IsTree, Unfolds
<1>4. /\ p \in V \cup {Null} /\ (p = Null <=> n = root) /\ root # Null /\ p # n
  <2>1. p \in V \cup {Null} /\ (p = Null <=> n = root) /\ root # Null
    BY <1>1 DEF IsTree, Parents
  <2>2. n # root => n = L[p] \/ n = R[p]
    BY DEF IsTree, Parents
  <2>3. p # n
    BY <1>1, <2>1, <2>2, LeftChild, RightChild
  <2>4. QED BY <2>1, <2>3
<1>5. /\ S2 \in [V2 \cup {Null} -> SUBSET V2]
      /\ \A x \in (V \ {n}) \cup {Null} : S2[x] = Renamed(S[x], n, s)
      /\ S2[s] = Renamed(S[n], n, s)
  <2>1. \A T \in SUBSET V : Renamed(T, n, s) \in SUBSET V2
    BY DEF Renamed
  <2>2. \A x \in V2 \cup {Null} : S[IF x = s THEN n ELSE x] \in SUBSET V
    BY <1>1
  <2>3. QED BY <1>1, <2>1, <2>2 DEF RenamedSets
<1> HIDE DEF S2
<1>6. /\ L2 \in [Elem -> Links] /\ R2 \in [Elem -> Links] /\ P2 \in [Elem -> Links]
      /\ L2[s] = L[n] /\ R2[s] = R[n] /\ P2[s] = p
      /\ (L[n] # Null => P2[L[n]] = s) /\ (R[n] # Null => P2[R[n]] = s)
      /\ \A x \in V \ {n, L[n], R[n]} : P2[x] = P[x]
      /\ \A x \in V \ {n, p} : L2[x] = L[x] /\ R2[x] = R[x]
  BY DEF InPlaceOf
<1>7. \/ p = Null /\ root2 = s
      \/ /\ p # Null /\ root2 = root
         /\ \/ L[p] = n /\ L2[p] = s /\ R2[p] = R[p]
            \/ R[p] = n /\ R2[p] = s /\ L2[p] = L[p]
  BY DEF InPlaceOf, Replaced
<1>8. /\ \A x \in V : (L[x] # Null => P[L[x]] = x) /\ (R[x] # Null => P[R[x]] = x)
      /\ \A x \in V : x # root => P[x] \in V /\ (x = L[P[x]] \/ x = R[P[x]])
      /\ root # Null => P[root] = Null
  BY DEF IsTree, Parents
<1>9. \A x \in V \ {n, p} : L[x] # n /\ R[x] # n
  BY <1>1, <1>4, <1>8
<1>10. p # Null => (L[p] = n => R[p] # n) /\ (R[p] = n => L[p] # n)
  BY <1>1, <1>4, LeftChild
<1>11. Typed(root2, L2, R2, P2, V2, S2, K)
  <2>1. \A x \in V2 : L2[x] \in V2 \cup {Null} /\ R2[x] \in V2 \cup {Null}
    <3> TAKE x \in V2
    <3>1. CASE x = p
      BY <1>1, <1>4, <1>7, <1>10, <3>1
    <3>2. CASE x = s
      BY <1>1, <1>2, <1>6, <3>2
    <3>3. CASE x \notin {p, s}
      BY <1>1, <1>6, <1>9, <3>3
    <3>4. QED BY <3>1, <3>2, <3>3
  <2>2. root2 \in V2 \cup {Null} /\ S2[root2] = V2
    <3>1. CASE p = Null
      BY <1>1, <1>4, <1>5, <1>7, <3>1 DEF Renamed
    <3>2. CASE p # Null
      <4>1. root2 = root /\ root \in V \ {n}
        BY <1>1, <1>4, <1>7, <3>2
      <4>2. S2[root] = Renamed(V, n, s)
        BY <1>1, <1>5, <4>1
      <4>3. QED BY <4>1, <4>2 DEF Renamed
    <3>3. QED BY <3>1, <3>2
  <2>3. S2[Null] = {}
    BY <1>1, <1>5 DEF Renamed
  <2>4. V2 \subseteq Elem /\ Null \notin V2
    BY <1>1
  <2>5. QED BY <1>1, <1>5, <1>6, <2>1, <2>2, <2>3, <2>4 DEF Typed
\* the subtrees of the children
<1>12. \A x \in V \ {n} : /\ S2[L2[x]] = Renamed(S[L[x]], n, s)
                          /\ S2[R2[x]] = Renamed(S[R[x]], n, s)
  <2> TAKE x \in V \ {n}
  <2>1. CASE x = p
    <3>1. CASE L[p] = n /\ L2[p] = s /\ R2[p] = R[p]
      <4>1. R[p] \in (V \ {n}) \cup {Null}
        BY <1>1, <1>10, <2>1, <3>1
      <4>2. QED BY <1>5, <2>1, <3>1, <4>1
    <3>2. CASE R[p] = n /\ R2[p] = s /\ L2[p] = L[p]
      <4>1. L[p] \in (V \ {n}) \cup {Null}
        BY <1>1, <1>10, <2>1, <3>2
      <4>2. QED BY <1>5, <2>1, <3>2, <4>1
    <3>3. QED BY <1>1, <1>7, <2>1, <3>1, <3>2
  <2>2. CASE x # p
    <3>1. L2[x] = L[x] /\ R2[x] = R[x]
      BY <1>6, <2>2
    <3>2. L[x] \in (V \ {n}) \cup {Null} /\ R[x] \in (V \ {n}) \cup {Null}
      BY <1>1, <1>9, <2>2
    <3>3. QED BY <1>5, <3>1, <3>2
  <2>3. QED BY <2>1, <2>2
<1>13. S2[L2[s]] = S[L[n]] /\ S2[R2[s]] = S[R[n]]
  <2>1. L[n] \in (V \ {n}) \cup {Null} /\ R[n] \in (V \ {n}) \cup {Null}
    BY <1>1, <1>2
  <2>2. /\ S2[L[n]] = Renamed(S[L[n]], n, s)
        /\ S2[R[n]] = Renamed(S[R[n]], n, s)
    BY <1>5, <2>1
  <2>3. QED BY <1>3, <1>6, <2>2 DEF Renamed
<1>14. Unfolds(L2, R2, V2, S2)
  <2> SUFFICES ASSUME NEW x \in V2 PROVE S2[x] = {x} \cup S2[L2[x]] \cup S2[R2[x]]
    BY DEF Unfolds
  <2>1. CASE x = s
    BY <1>3, <1>5, <1>13, <2>1 DEF Renamed
  <2>2. CASE x # s
    <3>1. S[x] = {x} \cup S[L[x]] \cup S[R[x]] /\ x # n /\ x \in V \ {n}
      BY <1>1, <2>2 DEF IsTree, Unfolds
    <3>2. S2[x] = Renamed(S[x], n, s)
      BY <1>5, <3>1
    <3>3. S2[L2[x]] = Renamed(S[L[x]], n, s) /\ S2[R2[x]] = Renamed(S[R[x]], n, s)
      BY <1>12, <3>1
    <3>4. QED BY <3>1, <3>2, <3>3 DEF Renamed
  <2>3. QED BY <2>1, <2>2
<1>15. Sorted(L2, R2, V2, S2, K)
  <2> SUFFICES ASSUME NEW x \in V2
               PROVE  /\ \A y \in S2[L2[x]] : K[y] < K[x]
                      /\ \A y \in S2[R2[x]] : K[x] < K[y]
    BY DEF Sorted
  <2>1. CASE x = s
    BY <1>13, <2>1 DEF Between
  <2>2. CASE x # s
    <3>1. x \in V \ {n}
      BY <2>2
    <3>2. S2[L2[x]] = Renamed(S[L[x]], n, s) /\ S2[R2[x]] = Renamed(S[R[x]], n, s)
      BY <1>12, <3>1
    <3>3. /\ \A y \in S[L[x]] : K[y] < K[x]
          /\ \A y \in S[R[x]] : K[x] < K[y]
      BY <3>1 DEF IsTree, Sorted
    <3>4. (n \in S[L[x]] => K[s] < K[x]) /\ (n \in S[R[x]] => K[x] < K[s])
      BY <3>1 DEF Between, Fits
    <3>5. QED BY <3>2, <3>3, <3>4 DEF Renamed
  <2>3. QED BY <2>1, <2>2
<1>16. Parents(root2, L2, R2, P2, V2)
  <2>1. root2 # Null => P2[root2] = Null
    <3>1. CASE p = Null
      BY <1>6, <1>7, <3>1
    <3>2. CASE p # Null
      <4>1. root2 = root /\ root \in V \ {n, L[n], R[n]}
        BY <1>1, <1>2, <1>4, <1>7, <3>2
      <4>2. QED BY <1>4, <1>6, <1>8, <4>1
    <3>3. QED BY <3>1, <3>2
  <2>2. ASSUME NEW x \in V2
        PROVE  (L2[x] # Null => P2[L2[x]] = x) /\ (R2[x] # Null => P2[R2[x]] = x)
    <3>1. CASE x = s
      BY <1>6, <3>1
    <3>2. CASE x # s
      <4>1. \A y \in {L[x], R[x]} : y # Null /\ y # n => P2[y] = x
        <5> TAKE y \in {L[x], R[x]}
        <5> HAVE y # Null /\ y # n
        <5>1. P[y] = x /\ y \in V /\ x # n
          BY <1>1, <1>8, <3>2
        <5>2. y \notin {L[n], R[n]}
          BY <1>8, <5>1
        <5>3. QED BY <1>6, <5>1, <5>2
      <4>2. CASE x = p
        BY <1>1, <1>6, <1>7, <1>10, <4>1, <4>2
      <4>3. CASE x # p
        <5>1. x \in V \ {n, p}
          BY <3>2, <4>3
        <5>2. QED BY <1>6, <1>9, <4>1, <5>1
      <4>4. QED BY <4>2, <4>3
    <3>3. QED BY <3>1, <3>2
  <2>3. ASSUME NEW x \in V2, x # root2
        PROVE  P2[x] \in V2 /\ (x = L2[P2[x]] \/ x = R2[P2[x]])
    <3>1. CASE x = s
      <4>1. p # Null /\ p \in V \ {n}
        BY <1>4, <1>7, <2>3, <3>1
      <4>2. QED BY <1>6, <1>7, <3>1, <4>1
    <3>2. CASE x \in {L[n], R[n]} /\ x # s
      <4>1. x # Null
        BY <1>1
      <4>2. P2[x] = s
        BY <1>6, <3>2, <4>1
      <4>3. QED BY <1>6, <3>2, <4>2
    <3>3. CASE x \notin {s, L[n], R[n]}
      <4>1. P2[x] = P[x] /\ x # root /\ x \in V
        BY <1>4, <1>6, <1>7, <2>3, <3>3
      <4>2. P[x] \in V /\ (x = L[P[x]] \/ x = R[P[x]])
        BY <1>8, <4>1
      <4>3. P[x] # n
        BY <3>3, <4>2
      <4>4. CASE P[x] = p
        BY <1>1, <1>7, <4>1, <4>2, <4>3, <4>4
      <4>5. CASE P[x] # p
        BY <1>6, <4>1, <4>2, <4>3, <4>5
      <4>6. QED BY <4>4, <4>5
    <3>4. QED BY <3>1, <3>2, <3>3
  <2>4. QED BY <2>1, <2>2, <2>3 DEF Parents
<1>17. Nested(root2, P2, V2, S2)
  <2> SUFFICES ASSUME NEW x \in V2, NEW m \in V2, x # root2, x # m
               PROVE  x \in S2[m] <=> P2[x] \in S2[m]
    BY DEF Nested
  <2> DEFINE q == IF m = s THEN n ELSE m
  <2>0. \A y, z \in V : y # root /\ y # z => (y \in S[z] <=> P[y] \in S[z])
    BY DEF IsTree, Nested
  <2>1. q \in V /\ S2[m] = Renamed(S[q], n, s) /\ (q = n <=> m = s)
    BY <1>5
  <2> HIDE DEF q
  <2>2. /\ \A y \in V \ {n} : y \in S2[m] <=> y \in S[q]
        /\ s \in S2[m] <=> n \in S[q]
    <3>1. S[q] \subseteq V
      BY <1>1, <2>1
    <3>2. QED BY <1>1, <2>1, <3>1 DEF Renamed
  <2>3. CASE x = s
    <3>1. p # Null /\ n # root /\ p \in V \ {n}
      BY <1>4, <1>7, <2>3
    <3>2. n # q
      BY <2>1, <2>3
    <3>3. n \in S[q] <=> p \in S[q]
      BY <2>0, <2>1, <3>1, <3>2
    <3>4. QED BY <1>6, <2>2, <2>3, <3>1, <3>3
  <2>4. CASE x # s
    <3>1. x \in V \ {n} /\ x # q
      BY <2>4 DEF q
    <3>2. x # root
      BY <1>4, <1>7, <2>4, <3>1
    <3>3. x \in S[q] <=> P[x] \in S[q]
      BY <2>0, <2>1, <3>1, <3>2
    <3>4. CASE P[x] = n
      <4>1. x \in {L[n], R[n]} /\ x # Null
        BY <1>1, <1>8, <3>1, <3>2, <3>4
      <4>2. P2[x] = s
        BY <1>6, <4>1
      <4>3. QED BY <2>2, <3>1, <3>3, <3>4, <4>2
    <3>5. CASE P[x] # n
      <4>1. x \notin {L[n], R[n]}
        BY <1>1, <1>8, <3>1, <3>5
      <4>2. P2[x] = P[x] /\ P[x] \in V \ {n}
        BY <1>6, <1>8, <3>1, <3>2, <3>5, <4>1
      <4>3. QED BY <2>2, <3>1, <3>3, <4>2
    <3>6. QED BY <3>4, <3>5
  <2>5. QED BY <2>3, <2>4
<1>18. QED BY <1>11, <1>14, <1>15, <1>16, <1>17 DEF IsTree, S2

-----------------------------------------------------------------------------
\* Record t is a tree of the nodes V.
HasTree(t, V, S) ==
    t \in Trees /\ IsTree(t.root, t.left, t.right, t.parent, V, S, GetKey)

\* u has the links of t outside V.
SameOutside(t, u, V) ==
    \A x \in Elem \ V : /\ u.left[x] = t.left[x] /\ u.right[x] = t.right[x]
                        /\ u.parent[x] = t.parent[x]

LEMMA TreesFields ==
  ASSUME NEW t \in Trees
  PROVE  /\ t.root \in Links /\ t.left \in [Elem -> Links] /\ t.right \in [Elem -> Links]
         /\ t.parent \in [Elem -> Links] /\ t.height \in [Elem -> Nat]
BY DEF Trees

LEMMA HeightLemma ==
  ASSUME NEW t \in Trees, NEW n \in Elem
  PROVE  /\ LEFT_HEIGHT(t, n) \in Nat /\ RIGHT_HEIGHT(t, n) \in Nat
         /\ HeightAbove(t, n) \in Nat
         /\ LEFT_HEIGHT(t, n) > 0 => t.left[n] \in Elem
         /\ RIGHT_HEIGHT(t, n) > 0 => t.right[n] \in Elem
<1>1. LEFT_HEIGHT(t, n) \in Nat /\ (LEFT_HEIGHT(t, n) > 0 => t.left[n] \in Elem)
  BY TreesFields DEF LEFT_HEIGHT, Links
<1>2. RIGHT_HEIGHT(t, n) \in Nat /\ (RIGHT_HEIGHT(t, n) > 0 => t.right[n] \in Elem)
  BY TreesFields DEF RIGHT_HEIGHT, Links
<1>3. HeightAbove(t, n) \in Nat
  BY <1>1, <1>2 DEF HeightAbove, AVL_MAX
<1>4. QED BY <1>1, <1>2, <1>3

LEMMA UpdateHeightLemma ==
  ASSUME NEW t \in Trees, NEW n \in Elem
  PROVE  /\ UpdateHeight(t, n) \in Trees
         /\ UpdateHeight(t, n).root = t.root /\ UpdateHeight(t, n).left = t.left
         /\ UpdateHeight(t, n).right = t.right /\ UpdateHeight(t, n).parent = t.parent
         /\ UpdateHeight(t, n).height = [t.height EXCEPT ![n] = HeightAbove(t, n)]
<1>1. HeightAbove(t, n) \in Nat
  BY HeightLemma
<1>2. QED BY <1>1 DEF UpdateHeight, Trees

LEMMA SetParentLemma ==
  ASSUME NEW t \in Trees, NEW n \in Links, NEW p \in Links
  PROVE  LET u == SetParent(t, n, p)
         IN  /\ u \in Trees
             /\ u.root = t.root /\ u.left = t.left /\ u.right = t.right
             /\ u.height = t.height
             /\ u.parent = IF n = Null THEN t.parent ELSE [t.parent EXCEPT ![n] = p]
BY DEF SetParent, Trees, Links

LEMMA ChildPlaceLemma ==
  ASSUME NEW t \in Trees, NEW old, NEW new \in Links, NEW p \in Links
  PROVE  LET u == ChildPlace(t, old, new, p)
         IN  /\ u \in Trees
             /\ u.parent = t.parent /\ u.height = t.height
             /\ u.root = IF p = Null THEN new ELSE t.root
             /\ u.left = IF p # Null /\ old = t.left[p] THEN [t.left EXCEPT ![p] = new]
                        ELSE t.left
             /\ u.right = IF p # Null /\ old # t.left[p] THEN [t.right EXCEPT ![p] = new]
                         ELSE t.right
BY DEF ChildPlace, Trees, Links

LEMMA RotateLeftFields ==
  ASSUME NEW t, NEW V, NEW S, HasTree(t, V, S), NEW n \in V, t.right[n] # Null
  PROVE  LET u == RotateLeft(t, n)
         IN  /\ u \in Trees /\ u.height = t.height /\ SameOutside(t, u, V)
             /\ Rotated(t.root, t.left, t.right, t.parent, V,
                        u.root, u.left, u.right, u.parent, n, t.right[n])
<1> DEFINE r == t.right[n]
           b == t.left[r]
           p == t.parent[n]
           linked == [t EXCEPT !.right[n] = b, !.left[r] = n, !.parent[r] = p, !.parent[n] = r]
           mid == SetParent(linked, b, n)
           u == RotateLeft(t, n)
<1>1. /\ t \in Trees /\ V \subseteq Elem /\ Null \notin Elem
      /\ t.root \in Links /\ t.left \in [Elem -> Links] /\ t.right \in [Elem -> Links]
      /\ t.parent \in [Elem -> Links] /\ t.height \in [Elem -> Nat]
  BY TreesFields, NullAssumption DEF HasTree, IsTree, Typed
<1>2. IsTree(t.root, t.left, t.right, t.parent, V, S, GetKey)
  BY DEF HasTree
<1>3. r \in V /\ r # n /\ p # r /\ n \in Elem
  BY <1>1, <1>2, RightChild
<1>4. b \in V \cup {Null} /\ b # r /\ b # n
  <2>1. b \in V \cup {Null}
    BY <1>2, <1>3 DEF IsTree, Typed
  <2>2. b # Null => b # r /\ t.parent[b] = r
    BY <1>2, <1>3, LeftChild
  <2>3. QED BY <1>1, <1>3, <2>1, <2>2
<1>5. p \in V \cup {Null} /\ (p # Null => n = t.left[p] \/ n = t.right[p])
  BY <1>1, <1>2 DEF IsTree, Parents
<1>6. p # n
  BY <1>1, <1>2, <1>5, LeftChild, RightChild
<1>7. linked \in Trees /\ linked.root = t.root /\ linked.height = t.height
  BY <1>1, <1>3, <1>4, <1>5 DEF Trees, Links
<1>8. /\ linked.right = [t.right EXCEPT ![n] = b] /\ linked.left = [t.left EXCEPT ![r] = n]
      /\ linked.parent = [t.parent EXCEPT ![r] = p, ![n] = r]
  BY <1>1, <1>3 DEF Trees
<1>9. u = ChildPlace(mid, n, r, p)
  BY DEF RotateLeft
<1> HIDE DEF linked, u
<1>10. /\ mid \in Trees /\ mid.root = t.root /\ mid.left = linked.left
       /\ mid.right = linked.right /\ mid.height = t.height
       /\ mid.parent = IF b = Null THEN linked.parent ELSE [linked.parent EXCEPT ![b] = n]
  <2>1. b \in Links /\ n \in Links
    BY <1>1, <1>3, <1>4 DEF Links
  <2>2. QED BY <1>7, <2>1, SetParentLemma
<1> HIDE DEF mid, r, b, p
<1>11. /\ u \in Trees /\ u.parent = mid.parent /\ u.height = t.height
       /\ u.root = IF p = Null THEN r ELSE t.root
       /\ u.left = IF p # Null /\ n = mid.left[p] THEN [mid.left EXCEPT ![p] = r] ELSE mid.left
       /\ u.right = IF p # Null /\ n # mid.left[p] THEN [mid.right EXCEPT ![p] = r] ELSE mid.right
  <2>1. r \in Links /\ p \in Links
    BY <1>1, <1>3, <1>5 DEF Links
  <2>2. mid \in Trees /\ mid.root = t.root /\ mid.height = t.height
    BY <1>10
  <2>3. /\ u \in Trees /\ u.parent = mid.parent /\ u.height = mid.height
        /\ u.root = IF p = Null THEN r ELSE mid.root
        /\ u.left = IF p # Null /\ n = mid.left[p] THEN [mid.left EXCEPT ![p] = r] ELSE mid.left
        /\ u.right = IF p # Null /\ n # mid.left[p] THEN [mid.right EXCEPT ![p] = r] ELSE mid.right
    BY <1>9, <2>1, <2>2, ChildPlaceLemma
  <2>4. QED BY <2>2, <2>3
<1>12. p # Null => mid.left[p] = t.left[p] /\ mid.right[p] = t.right[p]
  BY <1>1, <1>3, <1>5, <1>6, <1>8, <1>10
<1>13. /\ mid.left \in [Elem -> Links] /\ mid.right \in [Elem -> Links]
       /\ mid.left[r] = n /\ mid.right[n] = b /\ mid.left[n] = t.left[n] /\ mid.right[r] = t.right[r]
       /\ \A x \in Elem \ {n, r} : mid.left[x] = t.left[x] /\ mid.right[x] = t.right[x]
  BY <1>1, <1>3, <1>4, <1>8, <1>10, TreesFields
<1>14. /\ u.parent \in [Elem -> Links] /\ u.parent[r] = p /\ u.parent[n] = r
       /\ (b # Null => u.parent[b] = n)
       /\ \A x \in Elem \ {n, r, b} : u.parent[x] = t.parent[x]
  <2>1. linked.parent[r] = p /\ linked.parent[n] = r
        /\ \A x \in Elem \ {n, r} : linked.parent[x] = t.parent[x]
    BY <1>1, <1>3, <1>8
  <2>2. linked.parent \in [Elem -> Links]
    BY <1>7, TreesFields
  <2>3. QED BY <1>1, <1>3, <1>4, <1>10, <1>11, <2>1, <2>2, TreesFields
<1>15. /\ \A x \in Elem \ {p} : u.left[x] = mid.left[x] /\ u.right[x] = mid.right[x]
       /\ p # Null /\ n = t.left[p] => u.left[p] = r /\ u.right[p] = t.right[p]
       /\ p # Null /\ n # t.left[p] => u.right[p] = r /\ u.left[p] = t.left[p]
  <2>1. p # Null => p \in Elem
    BY <1>1, <1>5
  <2>2. QED BY <1>11, <1>12, <1>13, <2>1
<1>16. SameOutside(t, u, V)
  BY <1>1, <1>3, <1>4, <1>5, <1>13, <1>14, <1>15 DEF SameOutside
<1>17. Replaced(t.root, t.left, t.right, u.root, u.left, u.right, p, n, r)
  BY <1>5, <1>11, <1>15 DEF Replaced
<1>18. \A x \in V \ {n, r, p} : u.left[x] = t.left[x] /\ u.right[x] = t.right[x]
  BY <1>1, <1>13, <1>15
<1>19. u.left[n] = t.left[n] /\ u.right[n] = b /\ u.left[r] = n /\ u.right[r] = t.right[r]
  BY <1>1, <1>3, <1>6, <1>13, <1>15
<1>20. Rotated(t.root, t.left, t.right, t.parent, V, u.root, u.left, u.right, u.parent, n, r)
  BY <1>1, <1>3, <1>11, <1>14, <1>17, <1>18, <1>19, TreesFields DEF Rotated, r, b, p
<1>21. QED BY <1>11, <1>16, <1>20 DEF r, u

LEMMA RotateRightFields ==
  ASSUME NEW t, NEW V, NEW S, HasTree(t, V, S), NEW n \in V, t.left[n] # Null
  PROVE  LET u == RotateRight(t, n)
         IN  /\ u \in Trees /\ u.height = t.height /\ SameOutside(t, u, V)
             /\ Rotated(t.root, t.right, t.left, t.parent, V,
                        u.root, u.right, u.left, u.parent, n, t.left[n])
<1> DEFINE l == t.left[n]
           b == t.right[l]
           p == t.parent[n]
           linked == [t EXCEPT !.left[n] = b, !.right[l] = n, !.parent[l] = p, !.parent[n] = l]
           mid == SetParent(linked, b, n)
           u == RotateRight(t, n)
<1>1. /\ t \in Trees /\ V \subseteq Elem /\ Null \notin Elem
      /\ t.root \in Links /\ t.right \in [Elem -> Links] /\ t.left \in [Elem -> Links]
      /\ t.parent \in [Elem -> Links] /\ t.height \in [Elem -> Nat]
  BY TreesFields, NullAssumption DEF HasTree, IsTree, Typed
<1>2. IsTree(t.root, t.left, t.right, t.parent, V, S, GetKey)
  BY DEF HasTree
<1>3. l \in V /\ l # n /\ p # l /\ n \in Elem
  BY <1>1, <1>2, LeftChild
<1>4. b \in V \cup {Null} /\ b # l /\ b # n
  <2>1. b \in V \cup {Null}
    BY <1>2, <1>3 DEF IsTree, Typed
  <2>2. b # Null => b # l /\ t.parent[b] = l
    BY <1>2, <1>3, RightChild
  <2>3. QED BY <1>1, <1>3, <2>1, <2>2
<1>5. p \in V \cup {Null} /\ (p # Null => n = t.right[p] \/ n = t.left[p])
  BY <1>1, <1>2 DEF IsTree, Parents
<1>6. p # n
  BY <1>1, <1>2, <1>5, RightChild, LeftChild
<1>7. linked \in Trees /\ linked.root = t.root /\ linked.height = t.height
  BY <1>1, <1>3, <1>4, <1>5 DEF Trees, Links
<1>8. /\ linked.left = [t.left EXCEPT ![n] = b] /\ linked.right = [t.right EXCEPT ![l] = n]
      /\ linked.parent = [t.parent EXCEPT ![l] = p, ![n] = l]
  BY <1>1, <1>3 DEF Trees
<1>9. u = ChildPlace(mid, n, l, p)
  BY DEF RotateRight
<1> HIDE DEF linked, u
<1>10. /\ mid \in Trees /\ mid.root = t.root /\ mid.right = linked.right
       /\ mid.left = linked.left /\ mid.height = t.height
       /\ mid.parent = IF b = Null THEN linked.parent ELSE [linked.parent EXCEPT ![b] = n]
  <2>1. b \in Links /\ n \in Links
    BY <1>1, <1>3, <1>4 DEF Links
  <2>2. QED BY <1>7, <2>1, SetParentLemma
<1> HIDE DEF mid, l, b, p
<1>11. /\ u \in Trees /\ u.parent = mid.parent /\ u.height = t.height
       /\ u.root = IF p = Null THEN l ELSE t.root
       /\ u.left = IF p # Null /\ n = mid.left[p] THEN [mid.left EXCEPT ![p] = l] ELSE mid.left
       /\ u.right = IF p # Null /\ n # mid.left[p] THEN [mid.right EXCEPT ![p] = l] ELSE mid.right
  <2>1. l \in Links /\ p \in Links
    BY <1>1, <1>3, <1>5 DEF Links
  <2>2. QED BY <1>9, <1>10, <2>1, ChildPlaceLemma
<1>12. p # Null => mid.right[p] = t.right[p] /\ mid.left[p] = t.left[p]
  BY <1>1, <1>3, <1>5, <1>6, <1>8, <1>10
<1>13. /\ mid.right \in [Elem -> Links] /\ mid.left \in [Elem -> Links]
       /\ mid.right[l] = n /\ mid.left[n] = b /\ mid.right[n] = t.right[n] /\ mid.left[l] = t.left[l]
       /\ \A x \in Elem \ {n, l} : mid.right[x] = t.right[x] /\ mid.left[x] = t.left[x]
  BY <1>1, <1>3, <1>4, <1>8, <1>10, TreesFields
<1>14. /\ u.parent \in [Elem -> Links] /\ u.parent[l] = p /\ u.parent[n] = l
       /\ (b # Null => u.parent[b] = n)
       /\ \A x \in Elem \ {n, l, b} : u.parent[x] = t.parent[x]
  <2>1. linked.parent[l] = p /\ linked.parent[n] = l
        /\ \A x \in Elem \ {n, l} : linked.parent[x] = t.parent[x]
    BY <1>1, <1>3, <1>8
  <2>2. linked.parent \in [Elem -> Links]
    BY <1>7, TreesFields
  <2>3. QED BY <1>1, <1>3, <1>4, <1>10, <1>11, <2>1, <2>2, TreesFields
<1>15. /\ \A x \in Elem \ {p} : u.left[x] = mid.left[x] /\ u.right[x] = mid.right[x]
       /\ p # Null /\ n = t.left[p] => u.left[p] = l /\ u.right[p] = t.right[p]
       /\ p # Null /\ n # t.left[p] => u.right[p] = l /\ u.left[p] = t.left[p]
  <2>1. p # Null => p \in Elem
    BY <1>1, <1>5
  <2>2. QED BY <1>11, <1>12, <1>13, <2>1
<1>16. SameOutside(t, u, V)
  BY <1>1, <1>3, <1>4, <1>5, <1>13, <1>14, <1>15 DEF SameOutside
<1>17. Replaced(t.root, t.right, t.left, u.root, u.right, u.left, p, n, l)
  BY <1>5, <1>11, <1>15 DEF Replaced
<1>18. \A x \in V \ {n, l, p} : u.right[x] = t.right[x] /\ u.left[x] = t.left[x]
  BY <1>1, <1>13, <1>15
<1>19. u.right[n] = t.right[n] /\ u.left[n] = b /\ u.right[l] = n /\ u.left[l] = t.left[l]
  BY <1>1, <1>3, <1>6, <1>13, <1>15
<1>20. Rotated(t.root, t.right, t.left, t.parent, V, u.root, u.right, u.left, u.parent, n, l)
  BY <1>1, <1>3, <1>11, <1>14, <1>17, <1>18, <1>19, TreesFields DEF Rotated, l, b, p
<1>21. QED BY <1>11, <1>16, <1>20 DEF l, u

\* One rotation keeps the tree and what is outside.
LEMMA RotateLeftLemma ==
  ASSUME NEW t, NEW V, NEW S, HasTree(t, V, S), NEW n \in V, t.right[n] # Null
  PROVE  LET u == RotateLeft(t, n)
         IN  /\ HasTree(u, V, RotatedSets(t.left, V, S, n, t.right[n]))
             /\ SameOutside(t, u, V) /\ u.parent[n] = t.right[n]
<1> DEFINE u == RotateLeft(t, n)
<1>1. /\ u \in Trees /\ SameOutside(t, u, V)
      /\ Rotated(t.root, t.left, t.right, t.parent, V,
                 u.root, u.left, u.right, u.parent, n, t.right[n])
  BY RotateLeftFields
<1> HIDE DEF u
<1>2. IsTree(t.root, t.left, t.right, t.parent, V, S, GetKey)
  BY DEF HasTree
<1>3. IsTree(u.root, u.left, u.right, u.parent, V,
             RotatedSets(t.left, V, S, n, t.right[n]), GetKey)
  BY <1>1, <1>2, RotateShape
<1>4. u.parent[n] = t.right[n]
  BY <1>1 DEF Rotated
<1>5. QED BY <1>1, <1>3, <1>4 DEF HasTree, u

LEMMA RotateRightLemma ==
  ASSUME NEW t, NEW V, NEW S, HasTree(t, V, S), NEW n \in V, t.left[n] # Null
  PROVE  LET u == RotateRight(t, n)
         IN  /\ HasTree(u, V, RotatedSets(t.right, V, S, n, t.left[n]))
             /\ SameOutside(t, u, V) /\ u.parent[n] = t.left[n]
<1> DEFINE u == RotateRight(t, n)
           K2 == [e \in Elem |-> 0 - GetKey[e]]
           S2 == RotatedSets(t.right, V, S, n, t.left[n])
<1>1. /\ u \in Trees /\ SameOutside(t, u, V)
      /\ Rotated(t.root, t.right, t.left, t.parent, V,
                 u.root, u.right, u.left, u.parent, n, t.left[n])
  BY RotateRightFields
<1> HIDE DEF u
<1>2. IsTree(t.root, t.right, t.left, t.parent, V, S, K2)
  BY Mirror DEF HasTree
<1>3. IsTree(u.root, u.right, u.left, u.parent, V, S2, K2)
  <2> HIDE DEF K2
  <2> QED BY <1>1, <1>2, RotateShape
<1>4. GetKey \in [Elem -> Int]
  BY KeyAssumption
<1>5. IsTree(u.root, u.left, u.right, u.parent, V, S2, GetKey)
  <2> HIDE DEF S2
  <2> QED BY <1>3, <1>4, MirrorBack
<1>6. u.parent[n] = t.left[n]
  BY <1>1 DEF Rotated
<1>7. QED BY <1>1, <1>5, <1>6 DEF HasTree, u

\* u is a tree of the same nodes as t, and outside nothing has changed.
Rearranged(t, u, V) == (\E S : HasTree(u, V, S)) /\ SameOutside(t, u, V)

LEMMA Rearranging ==
  ASSUME NEW t, NEW u, NEW v, NEW V, SameOutside(t, u, V), Rearranged(u, v, V)
  PROVE  Rearranged(t, v, V)
BY DEF Rearranged, SameOutside

LEMMA HeightOnly ==
  ASSUME NEW t, NEW V, NEW S, HasTree(t, V, S), NEW n \in V
  PROVE  LET u == UpdateHeight(t, n)
         IN  HasTree(u, V, S) /\ Rearranged(t, u, V) /\ u.left = t.left /\ u.right = t.right
             /\ u.parent = t.parent
<1> DEFINE u == UpdateHeight(t, n)
<1>1. n \in Elem /\ t \in Trees
  BY DEF HasTree, IsTree, Typed
<1>2. u \in Trees /\ u.root = t.root /\ u.left = t.left /\ u.right = t.right /\ u.parent = t.parent
  BY <1>1, UpdateHeightLemma
<1> HIDE DEF u
<1>3. HasTree(u, V, S)
  BY <1>2 DEF HasTree
<1>4. SameOutside(t, u, V)
  BY <1>2 DEF SameOutside
<1>5. QED BY <1>2, <1>3, <1>4 DEF Rearranged, u

\* A rotation with the two heights brought up to date after it
LEMMA LeftTurn ==
  ASSUME NEW t, NEW V, NEW S, HasTree(t, V, S), NEW n \in V, t.right[n] # Null
  PROVE  LET u == UpdateHeight(UpdateHeight(RotateLeft(t, n), n), t.right[n])
         IN  Rearranged(t, u, V) /\ u.parent[n] \in V
             /\ \A m \in V : t.left[m] = n => u.left[m] # Null
<1> DEFINE u1 == RotateLeft(t, n)
           u2 == UpdateHeight(u1, n)
           u3 == UpdateHeight(u2, t.right[n])
<1>1. PICK S1 : HasTree(u1, V, S1)
  BY RotateLeftLemma
<1>2. SameOutside(t, u1, V) /\ u1.parent[n] = t.right[n]
  BY RotateLeftLemma
<1>3. t.right[n] \in V
  BY RightChild DEF HasTree
<1>4. ASSUME NEW m \in V, t.left[m] = n PROVE u1.left[m] # Null
  <2>1. Rotated(t.root, t.left, t.right, t.parent, V,
                u1.root, u1.left, u1.right, u1.parent, n, t.right[n])
    BY RotateLeftFields
  <2>2. t.parent[n] = m /\ n \in Elem /\ m \in Elem /\ Null \notin Elem
    BY <1>4, NullAssumption DEF HasTree, IsTree, Parents, Typed
  <2>3. Replaced(t.root, t.left, t.right, u1.root, u1.left, u1.right, m, n, t.right[n])
    BY <2>1, <2>2 DEF Rotated
  <2>4. QED BY <1>4, <2>2, <2>3 DEF Replaced
<1> HIDE DEF u1
<1>5. HasTree(u2, V, S1) /\ SameOutside(u1, u2, V) /\ u2.left = u1.left /\ u2.parent = u1.parent
  BY <1>1, HeightOnly DEF Rearranged
<1> HIDE DEF u2
<1>6. Rearranged(u2, u3, V) /\ u3.left = u2.left /\ u3.parent = u2.parent
  BY <1>3, <1>5, HeightOnly
<1> HIDE DEF u3
<1>7. Rearranged(t, u3, V)
  BY <1>2, <1>5, <1>6, Rearranging
<1>8. QED BY <1>2, <1>3, <1>4, <1>5, <1>6, <1>7 DEF u1, u2, u3

LEMMA RightTurn ==
  ASSUME NEW t, NEW V, NEW S, HasTree(t, V, S), NEW n \in V, t.left[n] # Null
  PROVE  LET u == UpdateHeight(UpdateHeight(RotateRight(t, n), n), t.left[n])
         IN  Rearranged(t, u, V) /\ u.parent[n] \in V
             /\ \A m \in V : t.right[m] = n => u.right[m] # Null
<1> DEFINE u1 == RotateRight(t, n)
           u2 == UpdateHeight(u1, n)
           u3 == UpdateHeight(u2, t.left[n])
<1>1. PICK S1 : HasTree(u1, V, S1)
  BY RotateRightLemma
<1>2. SameOutside(t, u1, V) /\ u1.parent[n] = t.left[n]
  BY RotateRightLemma
<1>3. t.left[n] \in V
  BY LeftChild DEF HasTree
<1>4. ASSUME NEW m \in V, t.right[m] = n PROVE u1.right[m] # Null
  <2>1. Rotated(t.root, t.right, t.left, t.parent, V,
                u1.root, u1.right, u1.left, u1.parent, n, t.left[n])
    BY RotateRightFields
  <2>2. t.parent[n] = m /\ n \in Elem /\ m \in Elem /\ Null \notin Elem
    BY <1>4, NullAssumption DEF HasTree, IsTree, Parents, Typed
  <2>3. Replaced(t.root, t.right, t.left, u1.root, u1.right, u1.left, m, n, t.left[n])
    BY <2>1, <2>2 DEF Rotated
  <2>4. QED BY <1>4, <2>2, <2>3 DEF Replaced
<1> HIDE DEF u1
<1>5. HasTree(u2, V, S1) /\ SameOutside(u1, u2, V) /\ u2.right = u1.right /\ u2.parent = u1.parent
  BY <1>1, HeightOnly DEF Rearranged
<1> HIDE DEF u2
<1>6. Rearranged(u2, u3, V) /\ u3.right = u2.right /\ u3.parent = u2.parent
  BY <1>3, <1>5, HeightOnly
<1> HIDE DEF u3
<1>7. Rearranged(t, u3, V)
  BY <1>2, <1>5, <1>6, Rearranging
<1>8. QED BY <1>2, <1>3, <1>4, <1>5, <1>6, <1>7 DEF u1, u2, u3

LEMMA FixupLeftHeavyLemma ==
  ASSUME NEW t, NEW V, NEW S, HasTree(t, V, S), NEW n \in V, t.left[n] # Null
  PROVE  Rearranged(t, FixupLeftHeavy(t, n), V) /\ FixupLeftHeavy(t, n).parent[n] \in V
<1> DEFINE left == t.left[n]
           bent == LEFT_HEIGHT(t, left) < RIGHT_HEIGHT(t, left)
           turned == UpdateHeight(UpdateHeight(RotateLeft(t, left), left), t.right[left])
           inner == IF ~bent THEN t ELSE turned
           u == UpdateHeight(UpdateHeight(RotateRight(inner, n), n), inner.left[n])
<1>1. FixupLeftHeavy(t, n) = u
  BY DEF FixupLeftHeavy
<1>2. left \in V /\ left \in Elem /\ t \in Trees /\ Null \notin Elem
  BY LeftChild, NullAssumption DEF HasTree, IsTree, Typed
<1>3. bent => t.right[left] # Null
  BY <1>2, HeightLemma
<1> HIDE DEF bent
<1>4. bent => Rearranged(t, turned, V) /\ turned.left[n] # Null
  BY <1>2, <1>3, LeftTurn
<1> HIDE DEF turned
<1>5. Rearranged(t, inner, V) /\ inner.left[n] # Null
  BY <1>4 DEF Rearranged, SameOutside
<1> HIDE DEF inner
<1>6. PICK S1 : HasTree(inner, V, S1)
  BY <1>5 DEF Rearranged
<1>7. Rearranged(inner, u, V) /\ u.parent[n] \in V
  BY <1>5, <1>6, RightTurn
<1> HIDE DEF u
<1>8. QED BY <1>1, <1>5, <1>7, Rearranging DEF Rearranged

LEMMA FixupRigtHeavyLemma ==
  ASSUME NEW t, NEW V, NEW S, HasTree(t, V, S), NEW n \in V, t.right[n] # Null
  PROVE  Rearranged(t, FixupRigtHeavy(t, n), V) /\ FixupRigtHeavy(t, n).parent[n] \in V
<1> DEFINE right == t.right[n]
           bent == LEFT_HEIGHT(t, right) > RIGHT_HEIGHT(t, right)
           turned == UpdateHeight(UpdateHeight(RotateRight(t, right), right), t.left[right])
           inner == IF ~bent THEN t ELSE turned
           u == UpdateHeight(UpdateHeight(RotateLeft(inner, n), n), inner.right[n])
<1>1. FixupRigtHeavy(t, n) = u
  BY DEF FixupRigtHeavy
<1>2. right \in V /\ right \in Elem /\ t \in Trees /\ Null \notin Elem
  BY RightChild, NullAssumption DEF HasTree, IsTree, Typed
<1>3. bent => t.left[right] # Null
  BY <1>2, HeightLemma
<1> HIDE DEF bent
<1>4. bent => Rearranged(t, turned, V) /\ turned.right[n] # Null
  BY <1>2, <1>3, RightTurn
<1> HIDE DEF turned
<1>5. Rearranged(t, inner, V) /\ inner.right[n] # Null
  BY <1>4 DEF Rearranged, SameOutside
<1> HIDE DEF inner
<1>6. PICK S1 : HasTree(inner, V, S1)
  BY <1>5 DEF Rearranged
<1>7. Rearranged(inner, u, V) /\ u.parent[n] \in V
  BY <1>5, <1>6, LeftTurn
<1> HIDE DEF u
<1>8. QED BY <1>1, <1>5, <1>7, Rearranging DEF Rearranged

-----------------------------------------------------------------------------
\* The height of a link, and what makes a node a node of a balanced tree: its
\* height is one more than its higher child's, and its children differ by one
\* at most.
Ht(H, m) == IF m = Null THEN 0 ELSE H[m]

Tall(L, R, H, x) == H[x] = AVL_MAX(Ht(H, L[x]), Ht(H, R[x])) + 1
Even(L, R, H, x) == Ht(H, L[x]) - Ht(H, R[x]) \in -1 .. 1
Fine(L, R, H, x) == Tall(L, R, H, x) /\ Even(L, R, H, x)

\* A node that a change does not touch, and one with a link to another child
Same(L, R, H, L2, R2, H2, x) ==
    /\ L2[x] = L[x] /\ R2[x] = R[x] /\ H2[x] = H[x]
    /\ Ht(H2, L[x]) = Ht(H, L[x]) /\ Ht(H2, R[x]) = Ht(H, R[x])

Relinked(L, R, H, L2, R2, H2, p, old, new) ==
    /\ H2[p] = H[p]
    /\ \/ L[p] = old /\ L2[p] = new /\ R2[p] = R[p] /\ Ht(H2, R[p]) = Ht(H, R[p])
       \/ R[p] = old /\ R2[p] = new /\ L2[p] = L[p] /\ Ht(H2, L[p]) = Ht(H, L[p])

\* A rotation after which the heights of the two nodes are brought up to date
Turned(root, L, R, P, H, V, root2, L2, R2, P2, H2, n, r) ==
    /\ Rotated(root, L, R, P, V, root2, L2, R2, P2, n, r)
    /\ H2 \in [Elem -> Nat]
    /\ \A x \in V \ {n, r} : H2[x] = H[x]
    /\ H2[n] = AVL_MAX(Ht(H, L2[n]), Ht(H, R2[n])) + 1
    /\ H2[r] = AVL_MAX(Ht(H2, L2[r]), Ht(H2, R2[r])) + 1

TurnedHeights(L, R, P, H, V, L2, R2, H2, n, r) ==
    /\ Tall(L2, R2, H2, n) /\ Tall(L2, R2, H2, r) /\ L2[r] = n
    /\ Ht(H2, L2[n]) = Ht(H, L[n]) /\ Ht(H2, R2[n]) = Ht(H, L[r])
    /\ Ht(H2, R2[r]) = Ht(H, R[r])
    /\ \A x \in V \ {n, r, P[n]} : Same(L, R, H, L2, R2, H2, x)
    /\ P[n] # Null => P[n] \in V \ {n, r} /\ Relinked(L, R, H, L2, R2, H2, P[n], n, r)

\* The rotation changes the heights of its two nodes only.
LEMMA TurnHeights ==
  ASSUME NEW root, NEW L, NEW R, NEW P, NEW V, NEW S, NEW K, NEW H,
         IsTree(root, L, R, P, V, S, K), NEW n \in V,
         NEW root2, NEW L2, NEW R2, NEW P2, NEW H2, NEW r,
         Turned(root, L, R, P, H, V, root2, L2, R2, P2, H2, n, r)
  PROVE  TurnedHeights(L, R, P, H, V, L2, R2, H2, n, r)
<1> DEFINE p == P[n]
<1>1. /\ V \subseteq Elem /\ Null \notin V /\ root \in V \cup {Null}
      /\ \A x \in V : L[x] \in V \cup {Null} /\ R[x] \in V \cup {Null}
      /\ \A x \in V : (L[x] # Null => P[L[x]] = x) /\ (R[x] # Null => P[R[x]] = x)
  BY DEF IsTree, Typed, Parents
<1>2. r = R[n] /\ r # Null /\ r \in V /\ r # n /\ r # L[n] /\ P[r] = n /\ p # r
  BY RightChild DEF Turned, Rotated
<1>3. p # Null => p \in V /\ (n = L[p] \/ n = R[p])
  BY <1>1 DEF IsTree, Parents
<1>4. p # n
  BY <1>1, <1>3, LeftChild, RightChild
<1>5. /\ L2[n] = L[n] /\ R2[n] = L[r] /\ L2[r] = n /\ R2[r] = R[r]
      /\ \A x \in V \ {n, r, P[n]} : L2[x] = L[x] /\ R2[x] = R[x]
      /\ Replaced(root, L, R, root2, L2, R2, P[n], n, r)
  BY DEF Turned, Rotated
<1>6. /\ \A x \in V \ {n, r} : H2[x] = H[x]
      /\ H2[n] = AVL_MAX(Ht(H, L2[n]), Ht(H, R2[n])) + 1
      /\ H2[r] = AVL_MAX(Ht(H2, L2[r]), Ht(H2, R2[r])) + 1
  BY DEF Turned
<1>7. \A x \in (V \cup {Null}) \ {n, r} : Ht(H2, x) = Ht(H, x)
  BY <1>1, <1>6 DEF Ht
<1>8. L[n] \notin {n, r} /\ L[r] \notin {n, r} /\ R[r] \notin {n, r}
  BY <1>1, <1>2, <1>4
<1>9. Ht(H2, L2[n]) = Ht(H, L[n]) /\ Ht(H2, R2[n]) = Ht(H, L[r]) /\ Ht(H2, R2[r]) = Ht(H, R[r])
  BY <1>1, <1>2, <1>5, <1>7, <1>8
<1>10. Tall(L2, R2, H2, n) /\ Tall(L2, R2, H2, r)
  BY <1>5, <1>6, <1>9 DEF Tall
<1>11. ASSUME NEW x \in V \ {n, r, P[n]} PROVE Same(L, R, H, L2, R2, H2, x)
  <2>1. L[x] \notin {n, r} /\ R[x] \notin {n, r}
    BY <1>1, <1>2, <1>11
  <2>2. QED BY <1>1, <1>5, <1>6, <1>7, <2>1 DEF Same
<1>12. ASSUME p # Null PROVE p \in V \ {n, r} /\ Relinked(L, R, H, L2, R2, H2, p, n, r)
  <2>1. p \in V /\ p # n /\ p # r
    BY <1>2, <1>3, <1>4, <1>12
  <2>2. L[p] # r /\ R[p] # r
    BY <1>1, <1>2, <1>4, <2>1
  <2>3. L[p] = n => L[p] # R[p]
    BY <1>1, <2>1, LeftChild
  <2>4. \/ L[p] = n /\ L2[p] = r /\ R2[p] = R[p]
        \/ R[p] = n /\ R2[p] = r /\ L2[p] = L[p]
    BY <1>5, <1>12 DEF Replaced
  <2>5. CASE L[p] = n /\ L2[p] = r /\ R2[p] = R[p]
    <3>1. Ht(H2, R[p]) = Ht(H, R[p])
      BY <1>1, <1>7, <2>1, <2>2, <2>3, <2>5
    <3>2. QED BY <1>6, <2>1, <2>5, <3>1 DEF Relinked
  <2>6. CASE R[p] = n /\ R2[p] = r /\ L2[p] = L[p]
    <3>1. L[p] # n
      BY <2>3, <2>6
    <3>2. Ht(H2, L[p]) = Ht(H, L[p])
      BY <1>1, <1>7, <2>1, <2>2, <3>1
    <3>3. QED BY <1>6, <2>1, <2>6, <3>2 DEF Relinked
  <2>7. QED BY <2>4, <2>5, <2>6
<1>13. QED BY <1>5, <1>9, <1>10, <1>11, <1>12 DEF TurnedHeights

\* A link has a natural height.
LEMMA HtNat ==
  ASSUME NEW H \in [Elem -> Nat], NEW m \in Links
  PROVE  Ht(H, m) \in Nat
BY DEF Ht, Links

\* A node that is not touched stays as balanced as it was.
LEMMA SameFine ==
  ASSUME NEW L, NEW R, NEW H, NEW L2, NEW R2, NEW H2, NEW x,
         Same(L, R, H, L2, R2, H2, x), Fine(L, R, H, x)
  PROVE  Fine(L2, R2, H2, x)
BY DEF Same, Fine, Tall, Even

\* What rebalancing at n leaves: top is in its place, every node but the parent
\* is balanced, and the parent has a child that may be lower by one.
Settled(L, R, P, H, V, L2, R2, P2, H2, n, top) ==
    /\ top \in V /\ P2[n] = top /\ P2[top] = P[n]
    /\ \A x \in V \ {P[n]} : Fine(L2, R2, H2, x)
    /\ H2[top] \in {H[n] - 1, H[n]}
    /\ P[n] # Null => P[n] \in V /\ Relinked(L, R, H, L2, R2, H2, P[n], n, top)

\* The outer grandchild is not lower than the inner one: one rotation.
LEMMA SettledByOne ==
  ASSUME NEW root, NEW L, NEW R, NEW P, NEW V, NEW S, NEW K, NEW H \in [Elem -> Nat],
         IsTree(root, L, R, P, V, S, K), NEW n \in V,
         NEW root2, NEW L2, NEW R2, NEW P2, NEW H2, NEW r,
         Turned(root, L, R, P, H, V, root2, L2, R2, P2, H2, n, r),
         \A x \in V \ {n, P[n]} : Fine(L, R, H, x),
         Tall(L, R, H, n), Ht(H, R[n]) - Ht(H, L[n]) = 2, Ht(H, L[r]) <= Ht(H, R[r])
  PROVE  Settled(L, R, P, H, V, L2, R2, P2, H2, n, r)
<1>1. TurnedHeights(L, R, P, H, V, L2, R2, H2, n, r)
  BY TurnHeights
<1>2. /\ V \subseteq Elem /\ Null \notin V
      /\ \A x \in V : L[x] \in V \cup {Null} /\ R[x] \in V \cup {Null}
  BY DEF IsTree, Typed
<1>3. r = R[n] /\ r # Null /\ r \in V /\ r # n /\ P[n] # r
  BY RightChild DEF Turned, Rotated
<1>4. P2[r] = P[n] /\ P2[n] = r /\ H2 \in [Elem -> Nat]
  BY DEF Turned, Rotated
<1> DEFINE a == Ht(H, L[n])
           b == Ht(H, L[r])
           c == Ht(H, R[r])
<1>5. a \in Nat /\ b \in Nat /\ c \in Nat
  BY <1>2, <1>3, HtNat DEF Links
<1>6. H[r] = AVL_MAX(b, c) + 1 /\ b - c \in -1 .. 1
  BY <1>3 DEF Fine, Tall, Even
<1>7. Ht(H, R[n]) = H[r] /\ H[n] = AVL_MAX(a, H[r]) + 1
  BY <1>3 DEF Ht, Tall
<1>8. /\ H2[n] = AVL_MAX(a, b) + 1 /\ Ht(H2, L2[n]) = a /\ Ht(H2, R2[n]) = b
      /\ H2[r] = AVL_MAX(H2[n], c) + 1 /\ Ht(H2, L2[r]) = H2[n] /\ Ht(H2, R2[r]) = c
  BY <1>1, <1>2 DEF TurnedHeights, Tall, Ht
<1> HIDE DEF a, b, c
<1>9. H[r] = a + 2 /\ H[n] = a + 3 /\ c = a + 1 /\ (b = a \/ b = a + 1)
  BY <1>5, <1>6, <1>7 DEF AVL_MAX, a, b, c
<1>10. H2[n] = b + 1 /\ H2[r] = b + 2
  BY <1>5, <1>8, <1>9 DEF AVL_MAX
<1>11. Fine(L2, R2, H2, n) /\ Fine(L2, R2, H2, r)
  <2>1. Ht(H2, L2[n]) - Ht(H2, R2[n]) \in -1 .. 1 /\ Ht(H2, L2[r]) - Ht(H2, R2[r]) \in -1 .. 1
    BY <1>5, <1>8, <1>9, <1>10
  <2>2. QED BY <1>1, <2>1 DEF Fine, Even, TurnedHeights
<1>12. H2[r] \in {H[n] - 1, H[n]}
  BY <1>5, <1>9, <1>10
<1>13. ASSUME NEW x \in V \ {P[n]} PROVE Fine(L2, R2, H2, x)
  <2>1. CASE x \in {n, r}
    BY <1>11, <2>1
  <2>2. CASE x \notin {n, r}
    <3>1. Same(L, R, H, L2, R2, H2, x) /\ Fine(L, R, H, x)
      BY <1>1, <1>13, <2>2 DEF TurnedHeights
    <3>2. QED BY <3>1, SameFine
  <2>3. QED BY <2>1, <2>2
<1>14. P[n] # Null => P[n] \in V /\ Relinked(L, R, H, L2, R2, H2, P[n], n, r)
  BY <1>1 DEF TurnedHeights
<1>15. QED BY <1>3, <1>4, <1>12, <1>13, <1>14 DEF Settled

\* The inner grandchild b is the higher one: it is turned outwards, then up.
LEMMA SettledByTwo ==
  ASSUME NEW root, NEW L, NEW R, NEW P, NEW V, NEW S, NEW K, NEW H \in [Elem -> Nat],
         IsTree(root, L, R, P, V, S, K), NEW n \in V, NEW r, r = R[n], r # Null,
         NEW root1, NEW L1, NEW R1, NEW P1, NEW H1, NEW b, NEW S1, NEW K1,
         Turned(root, R, L, P, H, V, root1, R1, L1, P1, H1, r, b),
         IsTree(root1, L1, R1, P1, V, S1, K1),
         NEW root2, NEW L2, NEW R2, NEW P2, NEW H2,
         Turned(root1, L1, R1, P1, H1, V, root2, L2, R2, P2, H2, n, b),
         \A x \in V \ {n, P[n]} : Fine(L, R, H, x),
         Tall(L, R, H, n), Ht(H, R[n]) - Ht(H, L[n]) = 2, Ht(H, L[r]) > Ht(H, R[r])
  PROVE  Settled(L, R, P, H, V, L2, R2, P2, H2, n, b)
<1> DEFINE p == P[n]
<1>1. /\ V \subseteq Elem /\ Null \notin V
      /\ \A x \in V : L[x] \in V \cup {Null} /\ R[x] \in V \cup {Null}
  BY DEF IsTree, Typed
<1>2. r \in V /\ r # n /\ r # L[n] /\ P[r] = n /\ p # r /\ n \notin S[r]
  BY RightChild
<1>3. IsTree(root, R, L, P, V, S, [e \in Elem |-> 0 - K[e]])
  BY Mirror
<1>4. TurnedHeights(R, L, P, H, V, R1, L1, H1, r, b)
  BY <1>2, <1>3, TurnHeights
<1>5. TurnedHeights(L1, R1, P1, H1, V, L2, R2, H2, n, b)
  BY TurnHeights
<1>6. b = L[r] /\ b # Null
  BY DEF Turned, Rotated
<1>7. b \in V /\ b # r /\ P[b] = r /\ b \in S[b] /\ S[b] \subseteq S[r]
  BY <1>2, <1>6, LeftChild
<1>8. b # n /\ p # b
  <2>1. n \notin S[b] /\ b # n
    BY <1>2, <1>7
  <2>2. ASSUME p = b PROVE FALSE
    <3>1. n # root
      BY <1>1, <1>7, <2>2 DEF IsTree, Parents, Typed
    <3>2. n \in S[b] <=> P[n] \in S[b]
      BY <1>7, <2>1, <3>1 DEF IsTree, Nested
    <3>3. QED BY <1>7, <2>1, <2>2, <3>2
  <2>3. QED BY <2>1, <2>2
<1>9. p # n
  BY <1>1, LeftChild, RightChild DEF IsTree, Parents
<1>10. P1[n] = p /\ P1[r] = b
  <2>1. /\ P1[r] = b
        /\ \A x \in V \ {r, b, R[b]} : P1[x] = P[x]
    BY DEF Turned, Rotated
  <2>2. R[b] # Null => P[R[b]] = b
    BY <1>7, RightChild
  <2>3. n # R[b]
    BY <1>1, <1>8, <2>2
  <2>4. QED BY <1>2, <1>8, <2>1, <2>3
<1>11. P2[b] = p /\ P2[n] = b /\ H1 \in [Elem -> Nat] /\ H2 \in [Elem -> Nat]
  BY <1>10 DEF Turned, Rotated
<1>12. H1[n] = H[n] /\ R1[n] = b /\ L1[n] = L[n] /\ Ht(H1, L[n]) = Ht(H, L[n])
  <2>1. Relinked(R, L, H, R1, L1, H1, n, r, b)
    BY <1>1, <1>2, <1>4 DEF TurnedHeights
  <2>2. QED BY <1>2, <2>1 DEF Relinked
<1> DEFINE a == Ht(H, L[n])
           c == Ht(H, R[r])
           d == Ht(H, L[b])
           e == Ht(H, R[b])
<1>13. a \in Nat /\ c \in Nat /\ d \in Nat /\ e \in Nat
  BY <1>1, <1>2, <1>7, HtNat DEF Links
<1>14. H[r] = AVL_MAX(H[b], c) + 1 /\ H[b] - c \in -1 .. 1
       /\ H[b] = AVL_MAX(d, e) + 1 /\ d - e \in -1 .. 1
  BY <1>2, <1>6, <1>7, <1>8 DEF Fine, Tall, Even, Ht
<1>15. Ht(H, R[n]) = H[r] /\ H[n] = AVL_MAX(a, H[r]) + 1 /\ Ht(H, L[r]) = H[b]
  BY <1>6 DEF Ht, Tall
\* after the first turn
<1>16. /\ H1[r] = AVL_MAX(e, c) + 1 /\ Ht(H1, L1[r]) = e /\ Ht(H1, R1[r]) = c
       /\ Ht(H1, L1[b]) = d /\ R1[b] = r
  BY <1>4, <1>13 DEF TurnedHeights, Tall, AVL_MAX
\* after the second
<1>17. /\ Ht(H2, L2[n]) = a /\ Ht(H2, R2[n]) = d /\ H2[n] = AVL_MAX(a, d) + 1
       /\ L2[b] = n /\ Ht(H2, R2[b]) = H1[r] /\ H2[b] = AVL_MAX(H2[n], H1[r]) + 1
       /\ Ht(H2, L2[b]) = H2[n]
  <2>1. /\ Ht(H2, L2[n]) = Ht(H1, L1[n]) /\ Ht(H2, R2[n]) = Ht(H1, L1[b]) /\ L2[b] = n
        /\ Ht(H2, R2[b]) = Ht(H1, R1[b]) /\ Tall(L2, R2, H2, n) /\ Tall(L2, R2, H2, b)
    BY <1>5 DEF TurnedHeights
  <2>2. Ht(H2, n) = H2[n] /\ Ht(H1, r) = H1[r]
    BY <1>1, <1>2 DEF Ht
  <2>3. QED BY <1>12, <1>16, <2>1, <2>2 DEF Tall
<1>18. Same(L1, R1, H1, L2, R2, H2, r)
  BY <1>2, <1>5, <1>7, <1>10 DEF TurnedHeights
<1> HIDE DEF a, c, d, e
<1>19. H[r] = a + 2 /\ H[n] = a + 3 /\ H[b] = a + 1 /\ c = a /\ d \in {a - 1, a} /\ e \in {a - 1, a}
  <2>1. H[b] \in Nat /\ H[r] \in Nat
    BY <1>1, <1>2, <1>7
  <2>2. H[r] = a + 2 /\ H[b] > c
    BY <1>13, <1>15, <2>1 DEF a, c
  <2>3. H[n] = a + 3 /\ H[b] = a + 1 /\ c = a
    BY <1>13, <1>14, <1>15, <2>1, <2>2 DEF AVL_MAX
  <2>4. d \in {a - 1, a} /\ e \in {a - 1, a}
    BY <1>13, <1>14, <2>3 DEF AVL_MAX
  <2>5. QED BY <2>2, <2>3, <2>4
<1>20. H1[r] = a + 1 /\ H2[n] = a + 1 /\ H2[b] = a + 2
  BY <1>13, <1>16, <1>17, <1>19 DEF AVL_MAX
<1>21. Fine(L2, R2, H2, n) /\ Fine(L2, R2, H2, b)
  <2>1. Ht(H2, L2[n]) - Ht(H2, R2[n]) \in -1 .. 1 /\ Ht(H2, L2[b]) - Ht(H2, R2[b]) \in -1 .. 1
    BY <1>13, <1>17, <1>19, <1>20
  <2>2. QED BY <1>5, <2>1 DEF Fine, Even, TurnedHeights
<1>22. Fine(L2, R2, H2, r)
  <2>1. e - c \in -1 .. 1
    BY <1>13, <1>19
  <2>2. Fine(L1, R1, H1, r)
    BY <1>16, <2>1 DEF Fine, Even, Tall
  <2>3. QED BY <1>18, <2>2, SameFine
<1>23. H2[b] \in {H[n] - 1, H[n]}
  BY <1>13, <1>19, <1>20
<1>24. ASSUME NEW x \in V \ {p} PROVE Fine(L2, R2, H2, x)
  <2>1. CASE x \in {n, r, b}
    BY <1>21, <1>22, <2>1
  <2>2. CASE x \notin {n, r, b}
    <3>1. Same(R, L, H, R1, L1, H1, x) /\ Fine(L, R, H, x)
      BY <1>2, <1>4, <1>24, <2>2 DEF TurnedHeights
    <3>2. Same(L, R, H, L1, R1, H1, x)
      BY <3>1 DEF Same
    <3>3. Same(L1, R1, H1, L2, R2, H2, x)
      BY <1>5, <1>10, <1>24, <2>2 DEF TurnedHeights
    <3>4. Fine(L1, R1, H1, x)
      BY <3>1, <3>2, SameFine
    <3>5. QED BY <3>3, <3>4, SameFine
  <2>3. QED BY <2>1, <2>2
<1>25. ASSUME p # Null PROVE p \in V /\ Relinked(L, R, H, L2, R2, H2, p, n, b)
  <2>1. p \in V /\ Relinked(L1, R1, H1, L2, R2, H2, p, n, b)
    BY <1>5, <1>10, <1>25 DEF TurnedHeights
  <2>2. Same(R, L, H, R1, L1, H1, p)
    BY <1>2, <1>4, <1>8, <1>9, <2>1 DEF TurnedHeights
  <2>3. L1[p] = L[p] /\ R1[p] = R[p] /\ H1[p] = H[p] /\ Ht(H1, L[p]) = Ht(H, L[p])
        /\ Ht(H1, R[p]) = Ht(H, R[p])
    BY <2>2 DEF Same
  <2>4. QED BY <2>1, <2>3 DEF Relinked
<1>26. QED BY <1>7, <1>11, <1>23, <1>24, <1>25 DEF Settled

\* Both ways a rotation with its heights is a turn.
LEMMA LeftTurned ==
  ASSUME NEW t, NEW V, NEW S, HasTree(t, V, S), NEW n \in V, t.right[n] # Null
  PROVE  LET u == UpdateHeight(UpdateHeight(RotateLeft(t, n), n), t.right[n])
         IN  /\ HasTree(u, V, RotatedSets(t.left, V, S, n, t.right[n]))
             /\ Turned(t.root, t.left, t.right, t.parent, t.height, V,
                       u.root, u.left, u.right, u.parent, u.height, n, t.right[n])
<1> DEFINE r == t.right[n]
           S2 == RotatedSets(t.left, V, S, n, r)
           u1 == RotateLeft(t, n)
           u2 == UpdateHeight(u1, n)
           u == UpdateHeight(u2, r)
<1>1. /\ u1 \in Trees /\ u1.height = t.height
      /\ Rotated(t.root, t.left, t.right, t.parent, V,
                 u1.root, u1.left, u1.right, u1.parent, n, r)
  BY RotateLeftFields
<1>2. HasTree(u1, V, S2)
  BY RotateLeftLemma
<1>3. r \in V /\ r # n /\ V \subseteq Elem
  <2>1. IsTree(t.root, t.left, t.right, t.parent, V, S, GetKey)
    BY DEF HasTree
  <2>2. V \subseteq Elem
    BY <2>1 DEF IsTree, Typed
  <2>3. QED BY <2>1, <2>2, RightChild
<1> HIDE DEF u1, S2
<1>4. HasTree(u2, V, S2) /\ u2.left = u1.left /\ u2.right = u1.right
  BY <1>2, HeightOnly
<1>5. HasTree(u, V, S2) /\ u.left = u1.left /\ u.right = u1.right
  BY <1>3, <1>4, HeightOnly
<1>6. /\ u2 \in Trees /\ u2.root = u1.root /\ u2.parent = u1.parent
      /\ u2.height = [t.height EXCEPT ![n] = HeightAbove(u1, n)]
  BY <1>1, <1>3, UpdateHeightLemma
<1> HIDE DEF u2
<1>7. /\ u \in Trees /\ u.root = u1.root /\ u.parent = u1.parent
      /\ u.height = [u2.height EXCEPT ![r] = HeightAbove(u2, r)]
  BY <1>3, <1>6, UpdateHeightLemma
<1> HIDE DEF u, r
<1>8. t.height \in [Elem -> Nat] /\ u2.height \in [Elem -> Nat] /\ u.height \in [Elem -> Nat]
  BY <1>6, <1>7, TreesFields DEF HasTree
<1>9. /\ u.height[n] = HeightAbove(u1, n) /\ u.height[r] = HeightAbove(u2, r)
      /\ \A x \in V \ {n, r} : u.height[x] = t.height[x]
      /\ \A x \in Elem \ {r} : u.height[x] = u2.height[x]
  BY <1>3, <1>6, <1>7, <1>8
<1>10. HeightAbove(u1, n) = AVL_MAX(Ht(t.height, u.left[n]), Ht(t.height, u.right[n])) + 1
  BY <1>1, <1>5 DEF HeightAbove, LEFT_HEIGHT, RIGHT_HEIGHT, Ht
<1>11. u.left[r] # r /\ u.right[r] # r
  BY <1>3, <1>5, LeftChild, RightChild, NullAssumption DEF HasTree
<1>12. u.left[r] \in Links /\ u.right[r] \in Links
  BY <1>3, <1>7, TreesFields
<1>13. HeightAbove(u2, r) = AVL_MAX(Ht(u.height, u.left[r]), Ht(u.height, u.right[r])) + 1
  <2>1. u2.left[r] = u.left[r] /\ u2.right[r] = u.right[r]
    BY <1>4, <1>5
  <2>2. LEFT_HEIGHT(u2, r) = Ht(u.height, u.left[r])
    BY <1>9, <1>11, <1>12, <2>1 DEF LEFT_HEIGHT, Ht, Links
  <2>3. RIGHT_HEIGHT(u2, r) = Ht(u.height, u.right[r])
    BY <1>9, <1>11, <1>12, <2>1 DEF RIGHT_HEIGHT, Ht, Links
  <2>4. QED BY <2>2, <2>3 DEF HeightAbove
<1>14. Turned(t.root, t.left, t.right, t.parent, t.height, V,
              u.root, u.left, u.right, u.parent, u.height, n, r)
  BY <1>1, <1>5, <1>7, <1>8, <1>9, <1>10, <1>13 DEF Turned
<1>15. QED BY <1>5, <1>14 DEF u, u2, u1, r, S2

LEMMA RightTurned ==
  ASSUME NEW t, NEW V, NEW S, HasTree(t, V, S), NEW n \in V, t.left[n] # Null
  PROVE  LET u == UpdateHeight(UpdateHeight(RotateRight(t, n), n), t.left[n])
         IN  /\ HasTree(u, V, RotatedSets(t.right, V, S, n, t.left[n]))
             /\ Turned(t.root, t.right, t.left, t.parent, t.height, V,
                       u.root, u.right, u.left, u.parent, u.height, n, t.left[n])
<1> DEFINE r == t.left[n]
           S2 == RotatedSets(t.right, V, S, n, r)
           u1 == RotateRight(t, n)
           u2 == UpdateHeight(u1, n)
           u == UpdateHeight(u2, r)
<1>1. /\ u1 \in Trees /\ u1.height = t.height
      /\ Rotated(t.root, t.right, t.left, t.parent, V,
                 u1.root, u1.right, u1.left, u1.parent, n, r)
  BY RotateRightFields
<1>2. HasTree(u1, V, S2)
  BY RotateRightLemma
<1>3. r \in V /\ r # n /\ V \subseteq Elem
  <2>1. IsTree(t.root, t.left, t.right, t.parent, V, S, GetKey)
    BY DEF HasTree
  <2>2. V \subseteq Elem
    BY <2>1 DEF IsTree, Typed
  <2>3. QED BY <2>1, <2>2, LeftChild
<1> HIDE DEF u1, S2
<1>4. HasTree(u2, V, S2) /\ u2.left = u1.left /\ u2.right = u1.right
  BY <1>2, HeightOnly
<1>5. HasTree(u, V, S2) /\ u.left = u1.left /\ u.right = u1.right
  BY <1>3, <1>4, HeightOnly
<1>6. /\ u2 \in Trees /\ u2.root = u1.root /\ u2.parent = u1.parent
      /\ u2.height = [t.height EXCEPT ![n] = HeightAbove(u1, n)]
  BY <1>1, <1>3, UpdateHeightLemma
<1> HIDE DEF u2
<1>7. /\ u \in Trees /\ u.root = u1.root /\ u.parent = u1.parent
      /\ u.height = [u2.height EXCEPT ![r] = HeightAbove(u2, r)]
  BY <1>3, <1>6, UpdateHeightLemma
<1> HIDE DEF u, r
<1>8. t.height \in [Elem -> Nat] /\ u2.height \in [Elem -> Nat] /\ u.height \in [Elem -> Nat]
  BY <1>6, <1>7, TreesFields DEF HasTree
<1>9. /\ u.height[n] = HeightAbove(u1, n) /\ u.height[r] = HeightAbove(u2, r)
      /\ \A x \in V \ {n, r} : u.height[x] = t.height[x]
      /\ \A x \in Elem \ {r} : u.height[x] = u2.height[x]
  BY <1>3, <1>6, <1>7, <1>8
<1>0. /\ u.left[n] \in Links /\ u.right[n] \in Links
      /\ u.left[r] \in Links /\ u.right[r] \in Links
  BY <1>3, <1>7, TreesFields
<1>10. HeightAbove(u1, n) = AVL_MAX(Ht(t.height, u.right[n]), Ht(t.height, u.left[n])) + 1
  <2>1. HeightAbove(u1, n) = AVL_MAX(Ht(t.height, u.left[n]), Ht(t.height, u.right[n])) + 1
    BY <1>1, <1>5 DEF HeightAbove, LEFT_HEIGHT, RIGHT_HEIGHT, Ht
  <2>2. Ht(t.height, u.left[n]) \in Nat /\ Ht(t.height, u.right[n]) \in Nat
    BY <1>0, <1>8, HtNat
  <2>3. QED BY <2>1, <2>2 DEF AVL_MAX
<1>11. u.left[r] # r /\ u.right[r] # r
  BY <1>3, <1>5, LeftChild, RightChild, NullAssumption DEF HasTree
<1>13. HeightAbove(u2, r) = AVL_MAX(Ht(u.height, u.right[r]), Ht(u.height, u.left[r])) + 1
  <2>1. u2.left[r] = u.left[r] /\ u2.right[r] = u.right[r]
    BY <1>4, <1>5
  <2>2. LEFT_HEIGHT(u2, r) = Ht(u.height, u.left[r])
    BY <1>0, <1>9, <1>11, <2>1 DEF LEFT_HEIGHT, Ht, Links
  <2>3. RIGHT_HEIGHT(u2, r) = Ht(u.height, u.right[r])
    BY <1>0, <1>9, <1>11, <2>1 DEF RIGHT_HEIGHT, Ht, Links
  <2>4. Ht(u.height, u.left[r]) \in Nat /\ Ht(u.height, u.right[r]) \in Nat
    BY <1>0, <1>8, HtNat
  <2>5. QED BY <2>2, <2>3, <2>4 DEF HeightAbove, AVL_MAX
<1>14. Turned(t.root, t.right, t.left, t.parent, t.height, V,
              u.root, u.right, u.left, u.parent, u.height, n, r)
  BY <1>1, <1>5, <1>7, <1>8, <1>9, <1>10, <1>13 DEF Turned
<1>15. QED BY <1>5, <1>14 DEF u, u2, u1, r, S2

LEMMA FineMirror ==
  ASSUME NEW H \in [Elem -> Nat], NEW L, NEW R, NEW x, L[x] \in Links, R[x] \in Links
  PROVE  /\ Tall(L, R, H, x) => Tall(R, L, H, x)
         /\ Fine(L, R, H, x) => Fine(R, L, H, x)
<1>1. Ht(H, L[x]) \in Nat /\ Ht(H, R[x]) \in Nat
  BY HtNat
<1>2. QED BY <1>1 DEF Fine, Tall, Even, AVL_MAX

\* The nodes at which a tree is balanced
FineIn(t, x) == Fine(t.left, t.right, t.height, x)

\* Rebalancing at n turned t into u.
Rebalance(t, u, V, S, n) ==
    /\ Settled(t.left, t.right, t.parent, t.height, V,
               u.left, u.right, u.parent, u.height, n, u.parent[n])
    /\ \E S2 : HasTree(u, V, S2) /\ (t.parent[n] # Null => S2[t.parent[n]] = S[t.parent[n]])

LEMMA SettledMirror ==
  ASSUME NEW t \in Trees, NEW u \in Trees, NEW V, V \subseteq Elem, NEW n, NEW m,
         Settled(t.right, t.left, t.parent, t.height, V,
                 u.right, u.left, u.parent, u.height, n, m)
  PROVE  Settled(t.left, t.right, t.parent, t.height, V,
                 u.left, u.right, u.parent, u.height, n, m)
<1>1. ASSUME NEW x \in V \ {t.parent[n]} PROVE Fine(u.left, u.right, u.height, x)
  <2>1. Fine(u.right, u.left, u.height, x)
    BY DEF Settled
  <2>2. u.left[x] \in Links /\ u.right[x] \in Links /\ u.height \in [Elem -> Nat]
    BY TreesFields
  <2>3. QED BY <2>1, <2>2, FineMirror
<1>2. t.parent[n] # Null => Relinked(t.left, t.right, t.height, u.left, u.right, u.height, t.parent[n], n, m)
  BY DEF Settled, Relinked
<1>3. QED BY <1>1, <1>2 DEF Settled

\* The parent is not below its child, and everything below the child is below it.
LEMMA ParentOutside ==
  ASSUME NEW root, NEW L, NEW R, NEW P, NEW V, NEW S, NEW K,
         IsTree(root, L, R, P, V, S, K), NEW n \in V, P[n] # Null
  PROVE  /\ P[n] \in V /\ P[n] \notin S[n] /\ P[n] \in S[P[n]] /\ S[n] \subseteq S[P[n]]
         /\ n \in S[n] /\ P[n] # n
<1>1. n # root
  BY DEF IsTree, Parents, Typed
<1>2. P[n] \in V /\ (n = L[P[n]] \/ n = R[P[n]]) /\ n # Null
  BY <1>1 DEF IsTree, Parents, Typed
<1>3. CASE n = L[P[n]]
  BY <1>2, <1>3, LeftChild
<1>4. CASE n = R[P[n]]
  BY <1>2, <1>4, RightChild
<1>5. QED BY <1>2, <1>3, <1>4

\* Sets of a rotation at n leave a node outside alone.
LEMMA RotatedOutside ==
  ASSUME NEW L, NEW V, NEW S, NEW n, NEW r, NEW x \in V, x # n, x # r
  PROVE  RotatedSets(L, V, S, n, r)[x] = S[x]
BY DEF RotatedSets

\* What rebalancing is called for: every other node but the parent is balanced.
Leaning(t, V, S, n) ==
    /\ HasTree(t, V, S) /\ n \in V
    /\ \A x \in V \ {n, t.parent[n]} : FineIn(t, x)
    /\ Tall(t.left, t.right, t.height, n)

LEMMA FixupRigtHeavySettles ==
  ASSUME NEW t, NEW V, NEW S, NEW n, Leaning(t, V, S, n),
         Ht(t.height, t.right[n]) - Ht(t.height, t.left[n]) = 2
  PROVE  Rebalance(t, FixupRigtHeavy(t, n), V, S, n)
<1> DEFINE r == t.right[n]
           p == t.parent[n]
           bent == LEFT_HEIGHT(t, r) > RIGHT_HEIGHT(t, r)
           turned == UpdateHeight(UpdateHeight(RotateRight(t, r), r), t.left[r])
           inner == IF ~bent THEN t ELSE turned
           u == UpdateHeight(UpdateHeight(RotateLeft(inner, n), n), inner.right[n])
<1>1. FixupRigtHeavy(t, n) = u
  BY DEF FixupRigtHeavy
<1>2. /\ HasTree(t, V, S) /\ n \in V /\ Tall(t.left, t.right, t.height, n)
      /\ \A x \in V \ {n, p} : Fine(t.left, t.right, t.height, x)
  BY DEF Leaning, FineIn
<1>3. IsTree(t.root, t.left, t.right, t.parent, V, S, GetKey) /\ t \in Trees
  BY <1>2 DEF HasTree
<1>4. /\ t.height \in [Elem -> Nat] /\ V \subseteq Elem /\ Null \notin Elem
      /\ t.left \in [Elem -> Links] /\ t.right \in [Elem -> Links]
  BY <1>3, TreesFields, NullAssumption DEF IsTree, Typed
<1>5. r # Null
  <2>1. Ht(t.height, t.left[n]) \in Nat
    BY <1>2, <1>4, HtNat
  <2>2. r = Null => Ht(t.height, r) = 0
    BY DEF Ht
  <2> HIDE DEF r
  <2>3. QED BY <2>1, <2>2 DEF r
<1>6. r \in V /\ r \in S[n] /\ n \in S[n] /\ S[r] \subseteq S[n] /\ t.parent[r] = n
  BY <1>2, <1>3, <1>5, RightChild
<1>7. p # Null => p \in V /\ p \notin S[n]
  BY <1>2, <1>3, ParentOutside
<1>8. LEFT_HEIGHT(t, r) = Ht(t.height, t.left[r]) /\ RIGHT_HEIGHT(t, r) = Ht(t.height, t.right[r])
  BY DEF LEFT_HEIGHT, RIGHT_HEIGHT, Ht
<1>9. CASE ~bent
  <2>1. u = UpdateHeight(UpdateHeight(RotateLeft(t, n), n), t.right[n])
    BY <1>9
  <2> DEFINE S2 == RotatedSets(t.left, V, S, n, r)
  <2> HIDE DEF u
  <2>2. /\ HasTree(u, V, S2)
        /\ Turned(t.root, t.left, t.right, t.parent, t.height, V,
                  u.root, u.left, u.right, u.parent, u.height, n, r)
    BY <1>2, <1>5, <2>1, LeftTurned
  <2>3. Ht(t.height, t.left[r]) <= Ht(t.height, t.right[r])
    <3>1. Ht(t.height, t.left[r]) \in Nat /\ Ht(t.height, t.right[r]) \in Nat
      BY <1>4, <1>6, HtNat
    <3>2. QED BY <1>8, <1>9, <3>1
  <2>4. Settled(t.left, t.right, t.parent, t.height, V,
                u.left, u.right, u.parent, u.height, n, r)
    BY <1>2, <1>3, <1>4, <2>2, <2>3, SettledByOne
  <2>5. u.parent[n] = r
    BY <2>4 DEF Settled
  <2>6. p # Null => S2[p] = S[p]
    BY <1>6, <1>7, RotatedOutside
  <2> HIDE DEF S2
  <2>7. QED BY <1>1, <2>2, <2>4, <2>5, <2>6 DEF Rebalance
<1>10. CASE bent
  <2> DEFINE b == t.left[r]
             S1 == RotatedSets(t.right, V, S, r, b)
             S2 == RotatedSets(inner.left, V, S1, n, b)
  <2>1. b # Null
    BY <1>3, <1>4, <1>6, <1>10, HeightLemma
  <2>2. b \in V /\ b \in S[b] /\ S[b] \subseteq S[r]
    BY <1>3, <1>6, <2>1, LeftChild
  <2>3. inner = turned
    BY <1>10
  <2> HIDE DEF inner
  <2>4. /\ HasTree(inner, V, S1)
        /\ Turned(t.root, t.right, t.left, t.parent, t.height, V,
                  inner.root, inner.right, inner.left, inner.parent, inner.height, r, b)
    BY <1>2, <1>6, <2>1, <2>3, RightTurned
  <2>5. inner.right[n] = b
    <3>1. Replaced(t.root, t.right, t.left, inner.root, inner.right, inner.left, n, r, b)
      BY <1>6, <2>4 DEF Turned, Rotated
    <3>2. t.left[n] # r
      BY <1>2, <1>3, <1>5, RightChild
    <3>3. QED BY <1>2, <1>4, <3>1, <3>2 DEF Replaced
  <2> HIDE DEF S1
  <2>6. /\ HasTree(u, V, S2)
        /\ Turned(inner.root, inner.left, inner.right, inner.parent, inner.height, V,
                  u.root, u.left, u.right, u.parent, u.height, n, b)
    BY <1>2, <2>1, <2>4, <2>5, LeftTurned
  <2> HIDE DEF u, S2
  <2>7. IsTree(inner.root, inner.left, inner.right, inner.parent, V, S1, GetKey)
    BY <2>4 DEF HasTree
  <2>8. Ht(t.height, t.left[r]) > Ht(t.height, t.right[r])
    BY <1>8, <1>10
  <2> HIDE DEF b, r
  <2>9. Settled(t.left, t.right, t.parent, t.height, V,
                u.left, u.right, u.parent, u.height, n, b)
    BY <1>2, <1>3, <1>4, <1>5, <2>4, <2>6, <2>7, <2>8, SettledByTwo DEF r
  <2>10. u.parent[n] = b
    BY <2>9 DEF Settled
  <2>11. p # Null => S1[p] = S[p]
    BY <1>6, <1>7, <2>2, RotatedOutside DEF S1
  <2>12. p # Null => S2[p] = S1[p]
    BY <1>6, <1>7, <2>2, RotatedOutside DEF S2
  <2>13. QED BY <1>1, <2>6, <2>9, <2>10, <2>11, <2>12 DEF Rebalance
<1>11. QED BY <1>9, <1>10

LEMMA FixupLeftHeavySettles ==
  ASSUME NEW t, NEW V, NEW S, NEW n, Leaning(t, V, S, n),
         Ht(t.height, t.left[n]) - Ht(t.height, t.right[n]) = 2
  PROVE  Rebalance(t, FixupLeftHeavy(t, n), V, S, n)
<1> DEFINE r == t.left[n]
           p == t.parent[n]
           bent == LEFT_HEIGHT(t, r) < RIGHT_HEIGHT(t, r)
           K2 == [e \in Elem |-> 0 - GetKey[e]]
           turned == UpdateHeight(UpdateHeight(RotateLeft(t, r), r), t.right[r])
           inner == IF ~bent THEN t ELSE turned
           u == UpdateHeight(UpdateHeight(RotateRight(inner, n), n), inner.left[n])
<1>1. FixupLeftHeavy(t, n) = u
  BY DEF FixupLeftHeavy
<1>2. /\ HasTree(t, V, S) /\ n \in V /\ Tall(t.left, t.right, t.height, n)
      /\ \A x \in V \ {n, p} : Fine(t.left, t.right, t.height, x)
  BY DEF Leaning, FineIn
<1>3. IsTree(t.root, t.left, t.right, t.parent, V, S, GetKey) /\ t \in Trees
  BY <1>2 DEF HasTree
<1>0. IsTree(t.root, t.right, t.left, t.parent, V, S, K2)
  BY <1>3, Mirror
<1>4. /\ t.height \in [Elem -> Nat] /\ V \subseteq Elem /\ Null \notin Elem
      /\ t.right \in [Elem -> Links] /\ t.left \in [Elem -> Links]
  BY <1>3, TreesFields, NullAssumption DEF IsTree, Typed
<1>12. Tall(t.right, t.left, t.height, n)
  BY <1>2, <1>4, FineMirror
<1>13. \A x \in V \ {n, p} : Fine(t.right, t.left, t.height, x)
  BY <1>2, <1>4, FineMirror
<1> HIDE DEF K2
<1>5. r # Null
  <2>1. Ht(t.height, t.right[n]) \in Nat
    BY <1>2, <1>4, HtNat
  <2>2. r = Null => Ht(t.height, r) = 0
    BY DEF Ht
  <2> HIDE DEF r
  <2>3. QED BY <2>1, <2>2 DEF r
<1>6. r \in V /\ r \in S[n] /\ n \in S[n] /\ S[r] \subseteq S[n] /\ t.parent[r] = n
  BY <1>2, <1>3, <1>5, LeftChild
<1>7. p # Null => p \in V /\ p \notin S[n]
  BY <1>2, <1>3, ParentOutside
<1>8. RIGHT_HEIGHT(t, r) = Ht(t.height, t.right[r]) /\ LEFT_HEIGHT(t, r) = Ht(t.height, t.left[r])
  BY DEF RIGHT_HEIGHT, LEFT_HEIGHT, Ht
<1>9. CASE ~bent
  <2>1. u = UpdateHeight(UpdateHeight(RotateRight(t, n), n), t.left[n])
    BY <1>9
  <2> DEFINE S2 == RotatedSets(t.right, V, S, n, r)
  <2> HIDE DEF u
  <2>2. /\ HasTree(u, V, S2)
        /\ Turned(t.root, t.right, t.left, t.parent, t.height, V,
                  u.root, u.right, u.left, u.parent, u.height, n, r)
    BY <1>2, <1>5, <2>1, RightTurned
  <2>3. Ht(t.height, t.right[r]) <= Ht(t.height, t.left[r])
    <3>1. Ht(t.height, t.right[r]) \in Nat /\ Ht(t.height, t.left[r]) \in Nat
      BY <1>4, <1>6, HtNat
    <3>2. QED BY <1>8, <1>9, <3>1
  <2>4. Settled(t.right, t.left, t.parent, t.height, V,
                u.right, u.left, u.parent, u.height, n, r)
    BY <1>0, <1>2, <1>4, <1>12, <1>13, <2>2, <2>3, SettledByOne
  <2>5. u.parent[n] = r
    BY <2>4 DEF Settled
  <2>8. u \in Trees
    BY <2>2 DEF HasTree
  <2>9. Settled(t.left, t.right, t.parent, t.height, V,
                u.left, u.right, u.parent, u.height, n, r)
    BY <1>3, <1>4, <2>4, <2>8, SettledMirror
  <2>6. p # Null => S2[p] = S[p]
    BY <1>6, <1>7, RotatedOutside
  <2> HIDE DEF S2
  <2>7. QED BY <1>1, <2>2, <2>5, <2>6, <2>9 DEF Rebalance
<1>10. CASE bent
  <2> DEFINE b == t.right[r]
             S1 == RotatedSets(t.left, V, S, r, b)
             S2 == RotatedSets(inner.right, V, S1, n, b)
  <2>1. b # Null
    BY <1>3, <1>4, <1>6, <1>10, HeightLemma
  <2>2. b \in V /\ b \in S[b] /\ S[b] \subseteq S[r]
    BY <1>3, <1>6, <2>1, RightChild
  <2>3. inner = turned
    BY <1>10
  <2> HIDE DEF inner
  <2>4. /\ HasTree(inner, V, S1)
        /\ Turned(t.root, t.left, t.right, t.parent, t.height, V,
                  inner.root, inner.left, inner.right, inner.parent, inner.height, r, b)
    BY <1>2, <1>6, <2>1, <2>3, LeftTurned
  <2>5. inner.left[n] = b
    <3>1. Replaced(t.root, t.left, t.right, inner.root, inner.left, inner.right, n, r, b)
      BY <1>6, <2>4 DEF Turned, Rotated
    <3>2. t.right[n] # r
      BY <1>2, <1>3, <1>5, LeftChild
    <3>3. QED BY <1>2, <1>4, <3>1, <3>2 DEF Replaced
  <2> HIDE DEF S1
  <2>6. /\ HasTree(u, V, S2)
        /\ Turned(inner.root, inner.right, inner.left, inner.parent, inner.height, V,
                  u.root, u.right, u.left, u.parent, u.height, n, b)
    BY <1>2, <2>1, <2>4, <2>5, RightTurned
  <2> HIDE DEF u, S2
  <2>7. IsTree(inner.root, inner.right, inner.left, inner.parent, V, S1, K2)
    BY <2>4, Mirror DEF HasTree, K2
  <2>8. Ht(t.height, t.right[r]) > Ht(t.height, t.left[r])
    <3>1. Ht(t.height, t.left[r]) \in Nat /\ Ht(t.height, t.right[r]) \in Nat
      BY <1>4, <1>6, HtNat
    <3>2. QED BY <1>8, <1>10, <3>1
  <2> HIDE DEF b, r
  <2>9. Settled(t.right, t.left, t.parent, t.height, V,
                u.right, u.left, u.parent, u.height, n, b)
    BY <1>0, <1>2, <1>4, <1>5, <1>12, <1>13, <2>4, <2>6, <2>7, <2>8, SettledByTwo DEF r
  <2>10. u.parent[n] = b
    BY <2>9 DEF Settled
  <2>14. u \in Trees
    BY <2>6 DEF HasTree
  <2>15. Settled(t.left, t.right, t.parent, t.height, V,
                 u.left, u.right, u.parent, u.height, n, b)
    BY <1>3, <1>4, <2>9, <2>14, SettledMirror
  <2>11. p # Null => S1[p] = S[p]
    BY <1>6, <1>7, <2>2, RotatedOutside DEF S1
  <2>12. p # Null => S2[p] = S1[p]
    BY <1>6, <1>7, <2>2, RotatedOutside DEF S2
  <2>13. QED BY <1>1, <2>6, <2>15, <2>10, <2>11, <2>12 DEF Rebalance
<1>11. QED BY <1>9, <1>10

-----------------------------------------------------------------------------
(* Loops, operations and the invariants *)

LEMMA PassesNat == Passes \in Nat /\ Passes = Cardinality(Elem) + 1 /\ Passes > 0
BY ElemAssumption, FS_CardinalityType DEF Passes

LEMMA LoopRun ==
  ASSUME NEW F, NEW s
  PROVE  Loop(F, s) = Run(F, s, Passes)[Passes]
BY Zenon DEF Loop, Run

\* What every pass preserves holds when the loop ends.
LEMMA LoopInvariant ==
  ASSUME NEW I, NEW F, NEW s \in I, Closed(F, I)
  PROVE  Loop(F, s) \in I
<1>1. IsRun(Run(F, s, Passes), F, s, Passes, I)
  BY PassesNat, RunLemma
<1>2. QED BY <1>1, PassesNat, LoopRun DEF IsRun

\* Every pass takes the measure mu of a state down until it is 0.
Decreasing(F, I, mu) == \A x \in I : mu[F[x]] < mu[x] \/ mu[F[x]] = 0

LEMMA LoopMeasure ==
  ASSUME NEW I, NEW F, NEW s \in I, Closed(F, I), NEW mu \in [I -> Nat],
         Decreasing(F, I, mu)
  PROVE  mu[Loop(F, s)] = 0 \/ mu[Loop(F, s)] <= mu[s] - Passes
<1>1. \A x \in I : mu[F[x]] < mu[x] \/ mu[F[x]] = 0
  BY DEF Decreasing
<1>2. mu[Run(F, s, Passes)[Passes]] = 0 \/ mu[Run(F, s, Passes)[Passes]] <= mu[s] - Passes
  BY <1>1, PassesNat, RunMeasure
<1>3. QED BY <1>2, LoopRun

-----------------------------------------------------------------------------
\* A pass of the retracing at node n
LEMMA RebalancedLemma ==
  ASSUME NEW s \in Retracing, NEW V, NEW S, HasTree(s.t, V, S), s.node \in V
  PROVE  /\ Rebalanced(s) \in Retracing /\ Rearranged(s.t, Rebalanced(s).t, V)
         /\ Rebalanced(s).node \in V \cup {Null}
<1> DEFINE n == s.node
           t == s.t
           bf == LEFT_HEIGHT(t, n) - RIGHT_HEIGHT(t, n)
           fix == IF bf >= 2 THEN FixupLeftHeavy(t, n)
                  ELSE IF bf <= -2 THEN FixupRigtHeavy(t, n) ELSE t
           top == IF bf \in -1 .. 1 THEN n ELSE fix.parent[n]
<1>1. Rebalanced(s) = [t |-> fix, node |-> fix.parent[top]]
  BY DEF Rebalanced
<1>2. t \in Trees /\ n \in Elem /\ n \in V /\ HasTree(t, V, S)
  BY DEF HasTree, IsTree, Typed
<1> HIDE DEF n, t
<1>3. bf \in Int /\ (bf >= 2 => t.left[n] # Null) /\ (bf <= -2 => t.right[n] # Null)
  <2>1. /\ LEFT_HEIGHT(t, n) \in Nat /\ RIGHT_HEIGHT(t, n) \in Nat
        /\ LEFT_HEIGHT(t, n) > 0 => t.left[n] \in Elem
        /\ RIGHT_HEIGHT(t, n) > 0 => t.right[n] \in Elem
    BY <1>2, HeightLemma
  <2>2. QED BY <2>1, NullAssumption
<1> HIDE DEF bf
<1>4. Rearranged(t, t, V)
  BY <1>2 DEF Rearranged, SameOutside
<1>5. Rearranged(t, fix, V) /\ top \in V
  <2>1. CASE bf >= 2
    BY <1>2, <1>3, <2>1, FixupLeftHeavyLemma
  <2>2. CASE bf <= -2
    <3>1. ~(bf >= 2) /\ bf \notin -1 .. 1
      BY <1>3, <2>2
    <3>2. QED BY <1>2, <1>3, <2>2, <3>1, FixupRigtHeavyLemma
  <2>3. CASE ~(bf >= 2) /\ ~(bf <= -2)
    <3>1. bf \in -1 .. 1
      BY <1>3, <2>3
    <3>2. QED BY <1>2, <1>4, <2>3, <3>1
  <2>4. QED BY <2>1, <2>2, <2>3
<1> HIDE DEF fix, top
<1>6. PICK S2 : HasTree(fix, V, S2)
  BY <1>5 DEF Rearranged
<1>7. fix \in Trees /\ fix.parent[top] \in V \cup {Null} /\ V \subseteq Elem
  BY <1>5, <1>6 DEF HasTree, IsTree, Typed, Parents
<1>8. [t |-> fix, node |-> fix.parent[top]] \in Retracing
  BY <1>7 DEF Retracing, Links
<1>9. QED BY <1>1, <1>5, <1>7, <1>8 DEF t

\* Where retracing can be in the tree of V that was t0
At(t0, V) == {s \in Retracing : Rearranged(t0, s.t, V) /\ s.node \in V \cup {Null}}

LEMMA RetracingStep ==
  ASSUME NEW t0, NEW V, NEW s \in At(t0, V), s.node # Null
  PROVE  /\ Rebalanced([s EXCEPT !.t = UpdateHeight(s.t, s.node)]) \in At(t0, V)
         /\ [s EXCEPT !.node = Null] \in At(t0, V)
<1> DEFINE r == [s EXCEPT !.t = UpdateHeight(s.t, s.node)]
<1>1. s \in Retracing /\ Rearranged(t0, s.t, V) /\ s.node \in V
  BY DEF At
<1>2. PICK S : HasTree(s.t, V, S)
  BY <1>1 DEF Rearranged
<1>3. HasTree(UpdateHeight(s.t, s.node), V, S) /\ Rearranged(s.t, UpdateHeight(s.t, s.node), V)
  BY <1>1, <1>2, HeightOnly
<1>4. r \in Retracing /\ r.t = UpdateHeight(s.t, s.node) /\ r.node = s.node
  BY <1>1, <1>3 DEF Retracing, HasTree
<1> HIDE DEF r
<1>5. /\ Rebalanced(r) \in Retracing /\ Rearranged(r.t, Rebalanced(r).t, V)
      /\ Rebalanced(r).node \in V \cup {Null}
  BY <1>1, <1>3, <1>4, RebalancedLemma
<1>6. SameOutside(t0, r.t, V)
  BY <1>1, <1>3, <1>4 DEF Rearranged, SameOutside
<1>7. Rebalanced(r) \in At(t0, V)
  BY <1>5, <1>6, Rearranging DEF At
<1>8. [s EXCEPT !.node = Null] \in At(t0, V)
  BY <1>1 DEF At, Retracing, Links
<1>9. QED BY <1>7, <1>8 DEF r

LEMMA AtStart ==
  ASSUME NEW t, NEW V, NEW S, HasTree(t, V, S), NEW node \in V \cup {Null}
  PROVE  [t |-> t, node |-> node] \in At(t, V)
<1>1. t \in Trees /\ V \subseteq Elem
  BY DEF HasTree, IsTree, Typed
<1>2. [t |-> t, node |-> node] \in Retracing
  BY <1>1 DEF Retracing, Links
<1>3. Rearranged(t, t, V)
  BY DEF Rearranged, SameOutside
<1>4. QED BY <1>2, <1>3 DEF At

LEMMA InsertFixupLemma ==
  ASSUME NEW t, NEW V, NEW S, HasTree(t, V, S), NEW node \in V \cup {Null}
  PROVE  Rearranged(t, InsertFixup(t, node), V)
<1> DEFINE pass == [s \in Retracing |->
              IF s.node = Null THEN s
              ELSE IF s.t.height[s.node] = HeightAbove(s.t, s.node)
                   THEN [s EXCEPT !.node = Null]
                   ELSE Rebalanced([s EXCEPT !.t = UpdateHeight(s.t, s.node)])]
           I == At(t, V)
           start == [t |-> t, node |-> node]
<1>1. InsertFixup(t, node) = Loop(pass, start).t
  BY DEF InsertFixup
<1>2. start \in I
  BY AtStart
<1>3. ASSUME NEW s \in I PROVE pass[s] \in I
  <2>1. s \in Retracing
    BY DEF At
  <2>2. pass[s] \in {s, [s EXCEPT !.node = Null], Rebalanced([s EXCEPT !.t = UpdateHeight(s.t, s.node)])}
        /\ (s.node = Null => pass[s] = s)
    BY <2>1
  <2> HIDE DEF pass
  <2> DEFINE done == [s EXCEPT !.node = Null]
             next == Rebalanced([s EXCEPT !.t = UpdateHeight(s.t, s.node)])
  <2>3. s.node # Null => done \in I /\ next \in I
    BY RetracingStep
  <2> HIDE DEF done, next, I
  <2>4. pass[s] \in {s, done, next}
    BY <2>2 DEF done, next
  <2>5. QED BY <2>2, <2>3, <2>4
<1> HIDE DEF pass, I, start
<1>4. Loop(pass, start) \in I
  BY <1>2, <1>3, LoopInvariant DEF Closed
<1>5. QED BY <1>1, <1>4 DEF I, At

LEMMA EraseFixupLemma ==
  ASSUME NEW t, NEW V, NEW S, HasTree(t, V, S), NEW node \in V \cup {Null}
  PROVE  Rearranged(t, EraseFixup(t, node), V)
<1> DEFINE pass == [s \in Retracing |->
              IF s.node = Null THEN s
              ELSE IF /\ s.t.height[s.node] = HeightAbove(s.t, s.node)
                      /\ LEFT_HEIGHT(s.t, s.node) - RIGHT_HEIGHT(s.t, s.node) \in -1 .. 1
                   THEN [s EXCEPT !.node = Null]
                   ELSE Rebalanced([s EXCEPT !.t = UpdateHeight(s.t, s.node)])]
           I == At(t, V)
           start == [t |-> t, node |-> node]
<1>1. EraseFixup(t, node) = Loop(pass, start).t
  BY DEF EraseFixup
<1>2. start \in I
  BY AtStart
<1>3. ASSUME NEW s \in I PROVE pass[s] \in I
  <2>1. s \in Retracing
    BY DEF At
  <2>2. pass[s] \in {s, [s EXCEPT !.node = Null], Rebalanced([s EXCEPT !.t = UpdateHeight(s.t, s.node)])}
        /\ (s.node = Null => pass[s] = s)
    BY <2>1
  <2> HIDE DEF pass
  <2> DEFINE done == [s EXCEPT !.node = Null]
             next == Rebalanced([s EXCEPT !.t = UpdateHeight(s.t, s.node)])
  <2>3. s.node # Null => done \in I /\ next \in I
    BY RetracingStep
  <2> HIDE DEF done, next, I
  <2>4. pass[s] \in {s, done, next}
    BY <2>2 DEF done, next
  <2>5. QED BY <2>2, <2>3, <2>4
<1> HIDE DEF pass, I, start
<1>4. Loop(pass, start) \in I
  BY <1>2, <1>3, LoopInvariant DEF Closed
<1>5. QED BY <1>1, <1>4 DEF I, At

-----------------------------------------------------------------------------
\* The number of nodes in a subtree
Size(V, S) == [n \in V \cup {Null} |-> Cardinality(S[n])]

\* It is the measure of a loop that goes down, and such a loop has passes enough.
LEMMA SubtreeSizes ==
  ASSUME NEW root, NEW L, NEW R, NEW P, NEW V, NEW S, NEW K,
         IsTree(root, L, R, P, V, S, K)
  PROVE  /\ Size(V, S) \in [V \cup {Null} -> Nat] /\ Size(V, S)[Null] = 0
         /\ \A n \in V \cup {Null} : Size(V, S)[n] < Passes
         /\ \A n \in V : /\ Size(V, S)[n] > 0
                         /\ Size(V, S)[L[n]] < Size(V, S)[n]
                         /\ Size(V, S)[R[n]] < Size(V, S)[n]
<1>2. /\ V \subseteq Elem /\ S \in [V \cup {Null} -> SUBSET V] /\ S[Null] = {}
      /\ \A n \in V : L[n] \in V \cup {Null} /\ R[n] \in V \cup {Null}
  BY DEF IsTree, Typed
<1>3. ASSUME NEW n \in V \cup {Null}
      PROVE  S[n] \subseteq Elem /\ IsFiniteSet(S[n]) /\ Cardinality(S[n]) \in Nat
             /\ Cardinality(S[n]) <= Cardinality(Elem)
  <2>1. S[n] \subseteq Elem
    BY <1>2
  <2>2. QED BY <2>1, ElemAssumption, FS_Subset, FS_CardinalityType
<1>4. Cardinality(S[Null]) = 0
  BY <1>2, FS_EmptySet
<1>5. ASSUME NEW n \in V
      PROVE  /\ Cardinality(S[n]) > 0 /\ Cardinality(S[L[n]]) < Cardinality(S[n])
             /\ Cardinality(S[R[n]]) < Cardinality(S[n])
  <2>1. /\ S[n] = {n} \cup S[L[n]] \cup S[R[n]]
        /\ \A x \in S[L[n]] : K[x] < K[n]
        /\ \A x \in S[R[n]] : K[n] < K[x]
    BY DEF IsTree, Unfolds, Sorted
  <2>2. K[n] \in Int /\ n \in V \cup {Null}
    BY <1>2 DEF IsTree, Typed
  <2>3. n \in S[n] /\ n \notin S[L[n]] /\ n \notin S[R[n]]
    BY <2>1, <2>2
  <2>4. S[L[n]] # S[n] /\ S[L[n]] \subseteq S[n]
        /\ S[R[n]] # S[n] /\ S[R[n]] \subseteq S[n]
    BY <2>1, <2>3
  <2>5. IsFiniteSet(S[n]) /\ Cardinality(S[n]) \in Nat
    BY <1>3, <2>2
  <2>6. \A T \in SUBSET S[n] : T # S[n] => Cardinality(T) < Cardinality(S[n])
    <3> TAKE T \in SUBSET S[n]
    <3>1. Cardinality(T) <= Cardinality(S[n]) /\ (Cardinality(T) = Cardinality(S[n]) => T = S[n])
          /\ Cardinality(T) \in Nat
      BY <2>5, FS_Subset, FS_CardinalityType
    <3>2. QED BY <2>5, <3>1
  <2>7. Cardinality(S[L[n]]) < Cardinality(S[n])
        /\ Cardinality(S[R[n]]) < Cardinality(S[n])
    BY <2>4, <2>6
  <2>8. Cardinality(S[L[n]]) \in Nat
    BY <1>2, <1>3
  <2>9. QED BY <2>5, <2>7, <2>8
<1>6. \A n \in V \cup {Null} : Size(V, S)[n] = Cardinality(S[n])
  BY DEF Size
<1>7. Size(V, S) \in [V \cup {Null} -> Nat]
  BY <1>3 DEF Size
<1>8. \A n \in V \cup {Null} : Size(V, S)[n] < Passes
  BY <1>3, <1>6, PassesNat, ElemAssumption, FS_CardinalityType
<1>9. QED BY <1>2, <1>4, <1>5, <1>6, <1>7, <1>8

LEMMA SizeLemma ==
  ASSUME NEW t, NEW V, NEW S, HasTree(t, V, S)
  PROVE  /\ Size(V, S) \in [V \cup {Null} -> Nat] /\ Size(V, S)[Null] = 0
         /\ \A n \in V \cup {Null} : Size(V, S)[n] < Passes
         /\ \A n \in V : /\ Size(V, S)[n] > 0
                         /\ Size(V, S)[t.left[n]] < Size(V, S)[n]
                         /\ Size(V, S)[t.right[n]] < Size(V, S)[n]
<1>1. IsTree(t.root, t.left, t.right, t.parent, V, S, GetKey)
  BY DEF HasTree
<1>2. QED BY <1>1, SubtreeSizes

\* FindNode finds the node with the key, the only one, if there is one.
LEMMA FindNodeLemma ==
  ASSUME NEW t, NEW V, NEW S, HasTree(t, V, S), NEW k \in Int
  PROVE  /\ FindNode(t, k) \in V \cup {Null}
         /\ {e \in V : GetKey[e] = k} = {FindNode(t, k)} \ {Null}
<1> DEFINE pass == [n \in Links |->
              IF n = Null \/ GetKey[n] = k THEN n
              ELSE IF GetKey[n] > k THEN t.left[n] ELSE t.right[n]]
           Keyed == {e \in V : GetKey[e] = k}
           I == {n \in V \cup {Null} : Keyed \subseteq S[n]}
           mu == [n \in I |-> IF n = Null \/ GetKey[n] = k THEN 0 ELSE Size(V, S)[n]]
           found == FindNode(t, k)
<1>1. found = Loop(pass, t.root)
  BY DEF FindNode
<1>2. /\ V \subseteq Elem /\ V \subseteq Links /\ Null \in Links /\ Null \notin V
      /\ S \in [V \cup {Null} -> SUBSET V] /\ S[Null] = {}
      /\ t.root \in V \cup {Null} /\ S[t.root] = V
      /\ \A n \in V : t.left[n] \in V \cup {Null} /\ t.right[n] \in V \cup {Null}
  BY NullAssumption DEF HasTree, IsTree, Typed, Links
<1>3. \A n \in V : /\ S[n] = {n} \cup S[t.left[n]] \cup S[t.right[n]]
                   /\ \A x \in S[t.left[n]] : GetKey[x] < GetKey[n]
                   /\ \A x \in S[t.right[n]] : GetKey[n] < GetKey[x]
  BY DEF HasTree, IsTree, Unfolds, Sorted
<1>4. \A n \in Elem : GetKey[n] \in Int
  BY KeyAssumption
<1>5. ASSUME NEW n \in I
      PROVE  /\ pass[n] \in I
             /\ n # Null /\ GetKey[n] # k => pass[n] \in {t.left[n], t.right[n]}
             /\ n = Null \/ GetKey[n] = k => pass[n] = n
  <2>1. CASE n = Null \/ GetKey[n] = k
    BY <1>2, <2>1
  <2>2. CASE n # Null /\ GetKey[n] > k
    <3>1. n \in V /\ n \in Links /\ GetKey[n] \in Int /\ GetKey[n] # k
      BY <1>2, <1>4, <2>2
    <3>2. pass[n] = t.left[n]
      BY <2>2, <3>1
    <3>3. Keyed \subseteq S[t.left[n]]
      BY <1>2, <1>3, <1>4, <2>2, <3>1
    <3>4. QED BY <1>2, <3>1, <3>2, <3>3
  <2>3. CASE n # Null /\ GetKey[n] < k
    <3>1. n \in V /\ n \in Links /\ GetKey[n] \in Int /\ GetKey[n] # k /\ ~(GetKey[n] > k)
      BY <1>2, <1>4, <2>3
    <3>2. pass[n] = t.right[n]
      BY <2>3, <3>1
    <3>3. Keyed \subseteq S[t.right[n]]
      BY <1>2, <1>3, <1>4, <2>3, <3>1
    <3>4. QED BY <1>2, <3>1, <3>2, <3>3
  <2>4. QED BY <1>2, <1>4, <2>1, <2>2, <2>3
<1>6. t.root \in I
  BY <1>2
<1>7. /\ Size(V, S) \in [V \cup {Null} -> Nat]
      /\ Size(V, S)[t.root] < Passes /\ Size(V, S)[t.root] \in Nat
      /\ \A n \in V : /\ Size(V, S)[n] > 0
                      /\ Size(V, S)[t.left[n]] < Size(V, S)[n]
                      /\ Size(V, S)[t.right[n]] < Size(V, S)[n]
  <2>1. /\ Size(V, S) \in [V \cup {Null} -> Nat]
        /\ \A n \in V \cup {Null} : Size(V, S)[n] < Passes
        /\ \A n \in V : /\ Size(V, S)[n] > 0
                        /\ Size(V, S)[t.left[n]] < Size(V, S)[n]
                        /\ Size(V, S)[t.right[n]] < Size(V, S)[n]
    BY SizeLemma
  <2>2. QED BY <1>2, <2>1
<1>8. mu \in [I -> Nat]
  BY <1>7
<1>9. ASSUME NEW n \in I PROVE mu[pass[n]] < mu[n] \/ mu[pass[n]] = 0
  <2> HIDE DEF pass
  <2>1. CASE n = Null \/ GetKey[n] = k
    BY <1>5, <2>1
  <2>2. CASE n # Null /\ GetKey[n] # k
    <3>1. n \in V /\ mu[n] = Size(V, S)[n] /\ pass[n] \in I
      BY <1>5, <2>2
    <3>2. mu[pass[n]] = 0 \/ mu[pass[n]] = Size(V, S)[pass[n]]
      BY <3>1
    <3>3. Size(V, S)[pass[n]] < Size(V, S)[n]
      BY <1>5, <1>7, <2>2, <3>1
    <3>4. QED BY <3>1, <3>2, <3>3
  <2>3. QED BY <2>1, <2>2
<1>10. mu[t.root] = 0 \/ mu[t.root] = Size(V, S)[t.root]
  BY <1>6
<1> HIDE DEF pass, mu, I, found
<1>11. Closed(pass, I) /\ Decreasing(pass, I, mu)
  BY <1>5, <1>9 DEF Closed, Decreasing
<1>12. found \in I
  BY <1>1, <1>6, <1>11, LoopInvariant
<1>13. mu[found] = 0 \/ mu[found] <= mu[t.root] - Passes
  BY <1>1, <1>6, <1>8, <1>11, LoopMeasure
<1>14. mu[found] = 0
  <2>1. mu[found] \in Nat /\ mu[t.root] \in Nat
    BY <1>6, <1>8, <1>12
  <2>2. QED BY <1>7, <1>10, <1>13, <2>1, PassesNat
<1>15. found = Null \/ GetKey[found] = k
  BY <1>7, <1>12, <1>14 DEF mu, I
<1>16. found \in V \cup {Null} /\ Keyed \subseteq S[found]
  BY <1>12 DEF I
<1>17. Keyed = {found} \ {Null}
  <2>1. CASE found = Null
    BY <1>2, <1>16, <2>1
  <2>2. CASE found # Null
    <3>1. found \in V /\ GetKey[found] = k
      BY <1>15, <1>16, <2>2
    <3>2. ASSUME NEW e \in Keyed PROVE e = found
      <4>1. e \in V /\ GetKey[e] = k /\ e \in {found} \cup S[t.left[found]] \cup S[t.right[found]]
        BY <1>3, <1>16, <3>1
      <4>2. e \notin S[t.left[found]] /\ e \notin S[t.right[found]]
        BY <1>3, <3>1, <4>1
      <4>3. QED BY <4>1, <4>2
    <3>3. QED BY <2>2, <3>1, <3>2
  <2>3. QED BY <2>1, <2>2
<1>18. QED BY <1>16, <1>17 DEF found

\* No two nodes of a tree have the same key.
LEMMA KeysDistinct ==
  ASSUME NEW t, NEW V, NEW S, HasTree(t, V, S), NEW m \in V, NEW n \in V,
         GetKey[m] = GetKey[n]
  PROVE  m = n
<1>1. GetKey[n] \in Int
  BY KeyAssumption DEF HasTree, IsTree, Typed
<1>2. {e \in V : GetKey[e] = GetKey[n]} = {FindNode(t, GetKey[n])} \ {Null}
  BY <1>1, FindNodeLemma
<1>3. QED BY <1>2

\* A loop with fewer passes to do than nodes and one
LEMMA LoopEnds ==
  ASSUME NEW I, NEW F, NEW s \in I, Closed(F, I), NEW mu \in [I -> Nat],
         Decreasing(F, I, mu), mu[s] < Passes
  PROVE  Loop(F, s) \in I /\ mu[Loop(F, s)] = 0
<1>1. Loop(F, s) \in I
  BY LoopInvariant
<1>2. mu[Loop(F, s)] = 0 \/ mu[Loop(F, s)] <= mu[s] - Passes
  BY LoopMeasure
<1>3. mu[s] \in Nat /\ mu[Loop(F, s)] \in Nat
  BY <1>1
<1>4. QED BY <1>1, <1>2, <1>3, PassesNat

\* Every key from some key on
FromOn(keys) == keys \subseteq Key /\ \A i \in keys, j \in Key : i <= j => j \in keys

\* n is the node of V with the least key among keys.
IsLeast(n, V, keys) ==
    LET With == {e \in V : GetKey[e] \in keys}
    IN  IF With = {} THEN n = Null
        ELSE n \in With /\ \A e \in With : GetKey[n] <= GetKey[e]

\* Candidates for the bound below the tracked node are still ahead.
Tracking(t, V, S, keys) ==
    {s \in [track : V \cup {Null}, node : V \cup {Null}] :
        /\ s.track # Null => /\ GetKey[s.track] \in keys
                             /\ \A e \in S[s.node] : GetKey[e] < GetKey[s.track]
        /\ \A e \in V : /\ GetKey[e] \in keys
                        /\ s.track # Null => GetKey[e] < GetKey[s.track]
                        => e \in S[s.node]}

LEMMA BoundLemma ==
  ASSUME NEW t, NEW V, NEW S, HasTree(t, V, S), NEW keys, FromOn(keys)
  PROVE  IsLeast(Bound(t, keys), V, keys)
<1> DEFINE pass == [s \in [track : Links, node : Links] |->
              IF s.node = Null THEN s
              ELSE IF GetKey[s.node] \in keys
                   THEN [track |-> s.node, node |-> t.left[s.node]]
                   ELSE [s EXCEPT !.node = t.right[s.node]]]
           I == Tracking(t, V, S, keys)
           mu == [s \in I |-> Size(V, S)[s.node]]
           start == [track |-> Null, node |-> t.root]
           end == Loop(pass, start)
<1>1. Bound(t, keys) = end.track
  BY DEF Bound
<1>2. /\ V \subseteq Elem /\ V \subseteq Links /\ Null \in Links /\ Null \notin V
      /\ S \in [V \cup {Null} -> SUBSET V] /\ S[Null] = {}
      /\ t.root \in V \cup {Null} /\ S[t.root] = V
      /\ \A n \in V : t.left[n] \in V \cup {Null} /\ t.right[n] \in V \cup {Null}
  BY NullAssumption DEF HasTree, IsTree, Typed, Links
<1>3. \A n \in V : /\ S[n] = {n} \cup S[t.left[n]] \cup S[t.right[n]]
                   /\ \A x \in S[t.left[n]] : GetKey[x] < GetKey[n]
                   /\ \A x \in S[t.right[n]] : GetKey[n] < GetKey[x]
  BY DEF HasTree, IsTree, Unfolds, Sorted
<1>4. \A n \in Elem : GetKey[n] \in Int /\ GetKey[n] \in Key
  BY KeyAssumption
<1>5. ASSUME NEW s \in I
      PROVE  /\ pass[s] \in I
             /\ s.node # Null => s.node \in V /\ pass[s].node \in {t.left[s.node], t.right[s.node]}
             /\ s.node = Null => pass[s] = s
  <2>1. /\ s \in [track : Links, node : Links]
        /\ s \in [track : V \cup {Null}, node : V \cup {Null}]
        /\ s.track # Null => /\ GetKey[s.track] \in keys
                             /\ \A e \in S[s.node] : GetKey[e] < GetKey[s.track]
        /\ \A e \in V : /\ GetKey[e] \in keys
                        /\ s.track # Null => GetKey[e] < GetKey[s.track]
                        => e \in S[s.node]
    BY <1>2 DEF Tracking
  <2>2. CASE s.node = Null
    BY <2>1, <2>2
  <2>3. CASE s.node # Null /\ GetKey[s.node] \in keys
    <3> DEFINE n == s.node
               u == [track |-> n, node |-> t.left[n]]
    <3>1. pass[s] = u /\ n \in V /\ n \in S[n]
      BY <1>3, <2>1, <2>3
    <3>2. u \in [track : V \cup {Null}, node : V \cup {Null}]
      BY <1>2, <3>1
    <3>3. \A e \in S[t.left[n]] : GetKey[e] < GetKey[n]
      BY <1>3, <3>1
    <3>4. ASSUME NEW e \in V, GetKey[e] \in keys, GetKey[e] < GetKey[n]
          PROVE  e \in S[t.left[n]]
      <4>1. s.track # Null => GetKey[e] < GetKey[s.track]
        <5>1. s.track # Null => s.track \in V /\ GetKey[n] < GetKey[s.track]
          BY <2>1, <3>1
        <5>2. QED BY <1>2, <1>4, <3>1, <3>4, <5>1
      <4>2. e \in S[n]
        BY <2>1, <3>4, <4>1
      <4>3. e # n /\ e \notin S[t.right[n]]
        BY <1>2, <1>3, <1>4, <3>1, <3>4
      <4>4. QED BY <1>3, <3>1, <4>2, <4>3
    <3>5. u \in I
      BY <2>3, <3>1, <3>2, <3>3, <3>4 DEF Tracking
    <3>6. QED BY <2>3, <3>1, <3>5
  <2>4. CASE s.node # Null /\ GetKey[s.node] \notin keys
    <3> DEFINE n == s.node
               u == [s EXCEPT !.node = t.right[n]]
    <3>1. pass[s] = u /\ n \in V /\ u.track = s.track /\ u.node = t.right[n]
      BY <2>1, <2>4
    <3>2. u \in [track : V \cup {Null}, node : V \cup {Null}]
      BY <1>2, <2>1, <3>1
    <3>3. s.track # Null => \A e \in S[t.right[n]] : GetKey[e] < GetKey[s.track]
      BY <1>3, <2>1, <3>1
    <3>4. ASSUME NEW e \in V, GetKey[e] \in keys, s.track # Null => GetKey[e] < GetKey[s.track]
          PROVE  e \in S[t.right[n]]
      <4>1. e \in S[n] /\ e # n
        BY <2>1, <2>4, <3>4
      <4>2. e \notin S[t.left[n]]
        <5>1. GetKey[n] \in Int /\ GetKey[e] \in Int /\ GetKey[n] \in Key /\ ~(GetKey[e] <= GetKey[n])
          BY <1>2, <1>4, <2>4, <3>1, <3>4 DEF FromOn
        <5>2. QED BY <1>3, <3>1, <5>1
      <4>3. QED BY <1>3, <3>1, <4>1, <4>2
    <3> HIDE DEF u
    <3>5. u \in I
      BY <2>1, <3>1, <3>2, <3>3, <3>4 DEF Tracking
    <3>6. QED BY <2>4, <3>1, <3>5
  <2>5. QED BY <2>2, <2>3, <2>4
<1>6. start \in I /\ start.node = t.root
  BY <1>2 DEF Tracking
<1>7. /\ Size(V, S) \in [V \cup {Null} -> Nat] /\ Size(V, S)[Null] = 0
      /\ \A n \in V \cup {Null} : Size(V, S)[n] < Passes
      /\ \A n \in V : /\ Size(V, S)[n] > 0
                      /\ Size(V, S)[t.left[n]] < Size(V, S)[n]
                      /\ Size(V, S)[t.right[n]] < Size(V, S)[n]
  BY SizeLemma
<1>8. \A s \in I : s.node \in V \cup {Null} /\ s.track \in V \cup {Null}
  BY DEF Tracking
<1> HIDE DEF pass, start, I
<1>9. mu \in [I -> Nat]
  BY <1>7, <1>8
<1>10. \A s \in I : mu[pass[s]] < mu[s] \/ mu[pass[s]] = 0
  BY <1>5, <1>7, <1>8
<1>11. mu[start] < Passes
  BY <1>2, <1>6, <1>7
<1>12. \A s \in I : mu[s] = 0 => s.node = Null
  BY <1>7, <1>8
<1> HIDE DEF mu
<1>13. Closed(pass, I) /\ Decreasing(pass, I, mu)
  BY <1>5, <1>10 DEF Closed, Decreasing
<1>14. end \in I /\ end.node = Null
  <2>1. end \in I /\ mu[end] = 0
    BY <1>6, <1>9, <1>11, <1>13, LoopEnds
  <2>2. QED BY <1>12, <2>1
<1> HIDE DEF end
<1>15. /\ end.track \in V \cup {Null} /\ (end.track # Null => GetKey[end.track] \in keys)
       /\ \A e \in V : GetKey[e] \in keys
            => ~(end.track # Null => GetKey[e] < GetKey[end.track])
  BY <1>2, <1>14 DEF I, Tracking
<1>16. \A e \in V : GetKey[e] \in keys
            => end.track # Null /\ GetKey[end.track] <= GetKey[e]
  BY <1>2, <1>4, <1>15
<1>17. QED BY <1>1, <1>15, <1>16 DEF IsLeast

\* The slot where a new key k belongs
Descending(t, V, S, n) ==
    {s \in [node : V \cup {Null}, parent : V \cup {Null}] :
        /\ s.node # Null => Fits(t.left, t.right, V, S, GetKey, n, s.node)
        /\ s.parent = Null => s.node = t.root
        /\ s.parent # Null =>
              /\ Fits(t.left, t.right, V, S, GetKey, n, s.parent)
              /\ s.node = IF GetKey[s.parent] > GetKey[n] THEN t.left[s.parent]
                                                         ELSE t.right[s.parent]}

LEMMA FitsBelow ==
  ASSUME NEW t, NEW V, NEW S, HasTree(t, V, S), NEW n \in Elem, NEW m \in V, NEW c \in V,
         Fits(t.left, t.right, V, S, GetKey, n, m), GetKey[m] # GetKey[n],
         c = IF GetKey[m] > GetKey[n] THEN t.left[m] ELSE t.right[m]
  PROVE  Fits(t.left, t.right, V, S, GetKey, n, c)
<1>1. /\ V \subseteq Elem /\ Null \notin V
      /\ S \in [V \cup {Null} -> SUBSET V] /\ S[Null] = {}
      /\ \A x \in V : t.left[x] \in V \cup {Null} /\ t.right[x] \in V \cup {Null}
  BY NullAssumption DEF HasTree, IsTree, Typed
<1>2. \A x \in V : /\ \A y \in S[t.left[x]] : GetKey[y] < GetKey[x]
                   /\ \A y \in S[t.right[x]] : GetKey[x] < GetKey[y]
  BY DEF HasTree, IsTree, Sorted
<1>3. \A x \in Elem : GetKey[x] \in Int
  BY KeyAssumption
<1>4. t.parent[c] = m /\ c # t.root /\ c # Null /\ c \in S[c]
  <2>1. IsTree(t.root, t.left, t.right, t.parent, V, S, GetKey)
    BY DEF HasTree
  <2>2. t.left[m] # Null => /\ t.parent[t.left[m]] = m /\ t.left[m] # t.root
                            /\ t.left[m] \in S[t.left[m]]
    BY <2>1, LeftChild
  <2>3. t.right[m] # Null => /\ t.parent[t.right[m]] = m /\ t.right[m] # t.root
                             /\ t.right[m] \in S[t.right[m]]
    BY <2>1, RightChild
  <2>4. QED BY <1>1, <2>2, <2>3
<1>5. \A x, y \in V : x # t.root /\ x # y => (x \in S[y] <=> t.parent[x] \in S[y])
  BY DEF HasTree, IsTree, Nested
<1>6. ASSUME NEW x \in V, c \in S[t.left[x]]
      PROVE  GetKey[n] < GetKey[x]
  <2>1. t.left[x] \in V
    BY <1>1, <1>6
  <2>2. CASE t.left[x] = c
    <3>1. t.parent[t.left[x]] = x
      BY <1>1, <2>1 DEF HasTree, IsTree, Parents
    <3>2. x = m
      BY <1>4, <2>2, <3>1
    <3>3. t.right[x] # c
      BY <1>1, <1>2, <1>3, <1>4, <2>2
    <3>4. QED BY <1>3, <3>2, <3>3
  <2>3. CASE t.left[x] # c
    <3>1. m \in S[t.left[x]]
      BY <1>4, <1>5, <1>6, <2>1, <2>3
    <3>2. QED BY <3>1 DEF Fits
  <2>4. QED BY <2>2, <2>3
<1>7. ASSUME NEW x \in V, c \in S[t.right[x]]
      PROVE  GetKey[x] < GetKey[n]
  <2>1. t.right[x] \in V
    BY <1>1, <1>7
  <2>2. CASE t.right[x] = c
    <3>1. t.parent[t.right[x]] = x
      BY <1>1, <2>1 DEF HasTree, IsTree, Parents
    <3>2. x = m
      BY <1>4, <2>2, <3>1
    <3>3. t.left[x] # c
      BY <1>1, <1>2, <1>3, <1>4, <2>2
    <3>4. GetKey[x] \in Int /\ GetKey[n] \in Int /\ GetKey[x] # GetKey[n] /\ ~(GetKey[x] > GetKey[n])
      BY <1>1, <1>3, <3>2, <3>3
    <3>5. QED BY <3>4
  <2>3. CASE t.right[x] # c
    <3>1. m \in S[t.right[x]]
      BY <1>4, <1>5, <1>7, <2>1, <2>3
    <3>2. QED BY <3>1 DEF Fits
  <2>4. QED BY <2>2, <2>3
<1>8. QED BY <1>6, <1>7 DEF Fits

\* No other subtree has the root.
LEMMA RootOnTop ==
  ASSUME NEW t, NEW V, NEW S, HasTree(t, V, S), NEW m \in V, t.root \in S[m]
  PROVE  m = t.root
<1> SUFFICES ASSUME m # t.root PROVE FALSE
  OBVIOUS
<1> DEFINE T == {x \in V : t.root \in S[x] /\ x # t.root}
           mu == [x \in T |-> Size(V, S)[x]]
<1>1. /\ Null \notin V /\ S \in [V \cup {Null} -> SUBSET V] /\ S[Null] = {}
      /\ \A x \in V : t.left[x] \in V \cup {Null} /\ t.right[x] \in V \cup {Null}
      /\ \A x \in V : S[x] = {x} \cup S[t.left[x]] \cup S[t.right[x]]
  BY DEF HasTree, IsTree, Typed, Unfolds
<1>2. /\ Size(V, S) \in [V \cup {Null} -> Nat]
      /\ \A x \in V : /\ Size(V, S)[t.left[x]] < Size(V, S)[x]
                      /\ Size(V, S)[t.right[x]] < Size(V, S)[x]
  BY SizeLemma
<1>3. T # {} /\ mu \in [T -> Nat]
  BY <1>2
<1>4. PICK x \in T : \A y \in T : mu[x] <= mu[y]
  <2> HIDE DEF T, mu
  <2> QED BY <1>3, Smallest
<1>5. PICK c \in {t.left[x], t.right[x]} : t.root \in S[c]
  BY <1>1
<1>6. c \in V /\ c # t.root
  <2>1. IsTree(t.root, t.left, t.right, t.parent, V, S, GetKey)
    BY DEF HasTree
  <2>2. /\ t.left[x] # Null => t.left[x] # t.root /\ t.left[x] \in V
        /\ t.right[x] # Null => t.right[x] # t.root /\ t.right[x] \in V
    BY <2>1, LeftChild, RightChild
  <2>3. QED BY <1>1, <1>5, <2>2
<1>7. c \in T /\ mu[c] = Size(V, S)[c] /\ mu[x] = Size(V, S)[x]
  BY <1>5, <1>6
<1>8. Size(V, S)[c] < Size(V, S)[x] /\ Size(V, S)[c] \in Nat /\ Size(V, S)[x] \in Nat
  BY <1>2, <1>5, <1>6
<1> HIDE DEF T, mu
<1>9. mu[x] <= mu[c]
  BY <1>4, <1>7
<1>10. QED BY <1>7, <1>8, <1>9

\* The walk ends at a node with an empty link on the side of the new key.
LEMMA SlotParentLemma ==
  ASSUME NEW t, NEW V, NEW S, HasTree(t, V, S), NEW n \in Elem, t.root # Null,
         \A e \in V : GetKey[e] # GetKey[n]
  PROVE  LET p == SlotParent(t, GetKey[n])
         IN  /\ p \in V /\ Fits(t.left, t.right, V, S, GetKey, n, p)
             /\ GetKey[p] > GetKey[n] => t.left[p] = Null
             /\ ~(GetKey[p] > GetKey[n]) => t.right[p] = Null
<1> DEFINE k == GetKey[n]
           pass == [s \in [node : Links, parent : Links] |->
              IF s.node = Null THEN s
              ELSE [parent |-> s.node,
                    node |-> IF GetKey[s.node] > k THEN t.left[s.node]
                                                   ELSE t.right[s.node]]]
           I == Descending(t, V, S, n)
           mu == [s \in I |-> Size(V, S)[s.node]]
           start == [node |-> t.root, parent |-> Null]
           end == Loop(pass, start)
<1>1. SlotParent(t, k) = end.parent
  BY DEF SlotParent
<1>2. /\ V \subseteq Elem /\ V \subseteq Links /\ Null \in Links /\ Null \notin V
      /\ S \in [V \cup {Null} -> SUBSET V] /\ S[Null] = {}
      /\ t.root \in V \cup {Null} /\ S[t.root] = V
      /\ \A m \in V : t.left[m] \in V \cup {Null} /\ t.right[m] \in V \cup {Null}
  BY NullAssumption DEF HasTree, IsTree, Typed, Links
<1>3. Fits(t.left, t.right, V, S, GetKey, n, t.root)
  <2>1. ASSUME NEW m \in V, NEW c \in {t.left[m], t.right[m]}, t.root \in S[c] PROVE FALSE
    <3>1. IsTree(t.root, t.left, t.right, t.parent, V, S, GetKey)
      BY DEF HasTree
    <3>2. /\ t.left[m] # Null => t.left[m] # t.root /\ t.left[m] \in V
          /\ t.right[m] # Null => t.right[m] # t.root /\ t.right[m] \in V
      BY <3>1, LeftChild, RightChild
    <3>3. c \in V /\ c # t.root
      BY <1>2, <2>1, <3>2
    <3>4. QED BY <2>1, <3>3, RootOnTop
  <2>2. QED BY <2>1 DEF Fits
<1>4. ASSUME NEW s \in I
      PROVE  /\ pass[s] \in I
             /\ s.node # Null => s.node \in V /\ pass[s].node \in {t.left[s.node], t.right[s.node]}
             /\ s.node = Null => pass[s] = s
  <2>1. s \in [node : Links, parent : Links] /\ s \in [node : V \cup {Null}, parent : V \cup {Null}]
    BY <1>2 DEF Descending
  <2>2. CASE s.node = Null
    BY <2>1, <2>2
  <2>3. CASE s.node # Null
    <3> DEFINE m == s.node
               c == IF GetKey[m] > k THEN t.left[m] ELSE t.right[m]
               u == [parent |-> m, node |-> c]
    <3>1. pass[s] = u /\ m \in V /\ c \in V \cup {Null} /\ c \in {t.left[m], t.right[m]}
      BY <1>2, <2>1, <2>3
    <3>2. Fits(t.left, t.right, V, S, GetKey, n, m)
      BY <2>3 DEF Descending
    <3>3. c # Null => Fits(t.left, t.right, V, S, GetKey, n, c)
      <4>1. GetKey[m] # GetKey[n]
        BY <3>1
      <4>2. c = IF GetKey[m] > GetKey[n] THEN t.left[m] ELSE t.right[m]
        OBVIOUS
      <4> HIDE DEF m, c
      <4>3. QED BY <3>1, <3>2, <4>1, <4>2, FitsBelow
    <3>4. u \in I
      BY <1>2, <3>1, <3>2, <3>3 DEF Descending
    <3>5. QED BY <2>3, <3>1, <3>4
  <2>4. QED BY <2>2, <2>3
<1>5. start \in I /\ start.node = t.root
  BY <1>2, <1>3 DEF Descending
<1>6. /\ Size(V, S) \in [V \cup {Null} -> Nat] /\ Size(V, S)[Null] = 0
      /\ \A m \in V \cup {Null} : Size(V, S)[m] < Passes
      /\ \A m \in V : /\ Size(V, S)[m] > 0
                      /\ Size(V, S)[t.left[m]] < Size(V, S)[m]
                      /\ Size(V, S)[t.right[m]] < Size(V, S)[m]
  BY SizeLemma
<1>7. \A s \in I : s.node \in V \cup {Null} /\ s.parent \in V \cup {Null}
  BY DEF Descending
<1> HIDE DEF pass, start, I
<1>8. mu \in [I -> Nat]
  BY <1>6, <1>7
<1>9. \A s \in I : mu[pass[s]] < mu[s] \/ mu[pass[s]] = 0
  BY <1>4, <1>6, <1>7
<1>10. mu[start] < Passes
  BY <1>2, <1>5, <1>6
<1>11. \A s \in I : mu[s] = 0 => s.node = Null
  BY <1>6, <1>7
<1> HIDE DEF mu
<1>12. Closed(pass, I) /\ Decreasing(pass, I, mu)
  BY <1>4, <1>9 DEF Closed, Decreasing
<1>13. end \in I /\ end.node = Null
  <2>1. end \in I /\ mu[end] = 0
    BY <1>5, <1>8, <1>10, <1>12, LoopEnds
  <2>2. QED BY <1>11, <2>1
<1> HIDE DEF end
<1>14. /\ end.parent \in V \cup {Null} /\ (end.parent = Null => end.node = t.root)
       /\ end.parent # Null =>
            /\ Fits(t.left, t.right, V, S, GetKey, n, end.parent)
            /\ end.node = IF GetKey[end.parent] > GetKey[n] THEN t.left[end.parent]
                                                          ELSE t.right[end.parent]
  BY <1>13 DEF I, Descending
<1>15. QED BY <1>1, <1>13, <1>14

\* n is linked into its slot.
LEMMA LinkSlotLemma ==
  ASSUME NEW t, NEW V, NEW S, HasTree(t, V, S), NEW n \in Elem \ V, NEW p \in V,
         t.left[n] = Null, t.right[n] = Null, GetKey[p] # GetKey[n],
         Fits(t.left, t.right, V, S, GetKey, n, p),
         GetKey[p] > GetKey[n] => t.left[p] = Null,
         ~(GetKey[p] > GetKey[n]) => t.right[p] = Null
  PROVE  Rearranged(t, LinkSlot(t, n, p), V \cup {n})
<1> DEFINE u == LinkSlot(t, n, p)
           S2 == LinkedSets(V, S, n, p)
<1>1. /\ t \in Trees /\ V \subseteq Elem /\ n \in Elem /\ p \in Elem
      /\ GetKey[p] \in Int /\ GetKey[n] \in Int
      /\ IsTree(t.root, t.left, t.right, t.parent, V, S, GetKey)
  BY KeyAssumption DEF HasTree, IsTree, Typed
<1>2. CASE GetKey[p] > GetKey[n]
  <2>1. /\ u \in Trees /\ u.root = t.root /\ u.left = [t.left EXCEPT ![p] = n]
        /\ u.right = t.right /\ u.parent = [t.parent EXCEPT ![n] = p]
    BY <1>1, <1>2 DEF LinkSlot, Trees, Links
  <2> HIDE DEF u, S2
  <2>2. IsTree(t.root, [t.left EXCEPT ![p] = n], t.right, [t.parent EXCEPT ![n] = p],
               V \cup {n}, S2, GetKey)
    <3>1. GetKey[n] < GetKey[p]
      BY <1>1, <1>2
    <3>2. QED BY <1>1, <1>2, <3>1, LinkShape DEF S2
  <2>3. HasTree(u, V \cup {n}, S2)
    BY <2>1, <2>2 DEF HasTree
  <2>4. SameOutside(t, u, V \cup {n})
    BY <1>1, <2>1, TreesFields DEF SameOutside
  <2>5. QED BY <2>3, <2>4 DEF Rearranged, u
<1>3. CASE ~(GetKey[p] > GetKey[n])
  <2>1. /\ u \in Trees /\ u.root = t.root /\ u.right = [t.right EXCEPT ![p] = n]
        /\ u.left = t.left /\ u.parent = [t.parent EXCEPT ![n] = p]
    BY <1>1, <1>3 DEF LinkSlot, Trees, Links
  <2> HIDE DEF u, S2
  <2>2. IsTree(t.root, t.left, [t.right EXCEPT ![p] = n], [t.parent EXCEPT ![n] = p],
               V \cup {n}, S2, GetKey)
    <3>1. GetKey[p] < GetKey[n]
      BY <1>1, <1>3
    <3>2. QED BY <1>1, <1>3, <3>1, LinkShapeRight DEF S2
  <2>3. HasTree(u, V \cup {n}, S2)
    BY <2>1, <2>2 DEF HasTree
  <2>4. SameOutside(t, u, V \cup {n})
    BY <1>1, <2>1, TreesFields DEF SameOutside
  <2>5. QED BY <2>3, <2>4 DEF Rearranged, u
<1>4. QED BY <1>2, <1>3

\* A new node is linked in, whatever its height is.
LEMMA LinkedLemma ==
  ASSUME NEW t, NEW V, NEW S, HasTree(t, V, S), NEW n \in Elem \ V,
         t.left[n] = Null, t.right[n] = Null, t.parent[n] = Null,
         \A e \in V : GetKey[e] # GetKey[n]
  PROVE  Rearranged(t, Linked(t, n), V \cup {n})
<1> DEFINE single == t.left[t.root] = Null /\ t.right[t.root] = Null
           p == SlotParent(t, GetKey[n])
<1>1. /\ t \in Trees /\ V \subseteq Elem /\ n \in Elem /\ n # Null /\ Null \notin V
      /\ S \in [V \cup {Null} -> SUBSET V] /\ S[Null] = {}
      /\ t.root \in V \cup {Null} /\ S[t.root] = V
      /\ IsTree(t.root, t.left, t.right, t.parent, V, S, GetKey)
  BY NullAssumption DEF HasTree, IsTree, Typed
<1>2. CASE t.root = Null
  <2> DEFINE u == [t EXCEPT !.root = n]
             S2 == [x \in {n} \cup {Null} |-> IF x = n THEN {n} ELSE {}]
  <2>1. V = {} /\ V \cup {n} = {n} /\ Linked(t, n) = u
    BY <1>1, <1>2 DEF Linked
  <2>2. /\ u \in Trees /\ u.root = n /\ u.left = t.left /\ u.right = t.right /\ u.parent = t.parent
    BY <1>1 DEF Trees, Links
  <2> HIDE DEF u
  <2>3. S2[n] = {n} /\ S2[Null] = {} /\ S2 \in [{n} \cup {Null} -> SUBSET {n}]
    BY <1>1
  <2> HIDE DEF S2
  <2>4. Typed(n, t.left, t.right, t.parent, {n}, S2, GetKey)
    BY <1>1, <2>3, KeyAssumption, TreesFields DEF Typed
  <2>5. Unfolds(t.left, t.right, {n}, S2) /\ Sorted(t.left, t.right, {n}, S2, GetKey)
    BY <2>3 DEF Unfolds, Sorted
  <2>6. Parents(n, t.left, t.right, t.parent, {n}) /\ Nested(n, t.parent, {n}, S2)
    BY DEF Parents, Nested
  <2>7. HasTree(u, {n}, S2)
    BY <2>2, <2>4, <2>5, <2>6 DEF HasTree, IsTree
  <2>8. SameOutside(t, u, {n})
    BY <2>2 DEF SameOutside
  <2>9. QED BY <2>1, <2>7, <2>8 DEF Rearranged
<1>3. CASE t.root # Null /\ single
  <2>1. t.root \in V /\ Linked(t, n) = LinkSlot(t, n, t.root)
    BY <1>1, <1>3 DEF Linked
  <2>2. V = {t.root}
    BY <1>1, <1>3, <2>1 DEF IsTree, Unfolds
  <2>3. Fits(t.left, t.right, V, S, GetKey, n, t.root)
    BY <1>1, <1>3, <2>2 DEF Fits
  <2>4. QED BY <1>3, <2>1, <2>3, LinkSlotLemma
<1>4. CASE t.root # Null /\ ~single
  <2>1. Linked(t, n) = InsertFixup(LinkSlot(t, n, p), p)
    BY <1>4 DEF Linked
  <2>2. /\ p \in V /\ Fits(t.left, t.right, V, S, GetKey, n, p)
        /\ GetKey[p] > GetKey[n] => t.left[p] = Null
        /\ ~(GetKey[p] > GetKey[n]) => t.right[p] = Null
    BY <1>1, <1>4, SlotParentLemma
  <2> HIDE DEF p
  <2> DEFINE u == LinkSlot(t, n, p)
  <2>3. Rearranged(t, u, V \cup {n})
    BY <2>2, LinkSlotLemma
  <2> HIDE DEF u
  <2>4. PICK S2 : HasTree(u, V \cup {n}, S2)
    BY <2>3 DEF Rearranged
  <2>5. Rearranged(u, InsertFixup(u, p), V \cup {n})
    BY <2>2, <2>4, InsertFixupLemma
  <2>6. Rearranged(t, InsertFixup(u, p), V \cup {n})
    <3>1. SameOutside(t, u, V \cup {n})
      BY <2>3 DEF Rearranged
    <3>2. QED BY <2>5, <3>1, Rearranging
  <2>7. QED BY <2>1, <2>6 DEF u
<1>5. QED BY <1>2, <1>3, <1>4

-----------------------------------------------------------------------------
\* Where a leftmost descent below r can be
Leftward(V, S, K, r) ==
    {m \in V : /\ m \in S[r] /\ S[m] \subseteq S[r]
               /\ \A x \in S[r] \ S[m], y \in S[m] : K[y] < K[x]
               /\ \A z \in V : r \in S[z] => m \in S[z]}

\* f is the first node below r.
IsFirst(L, V, S, K, r, f) ==
    /\ f \in V /\ f \in S[r] /\ S[f] \subseteq S[r] /\ L[f] = Null
    /\ \A x \in S[r] \ {f} : K[f] < K[x]
    /\ \A z \in V : r \in S[z] => f \in S[z]

\* The descent by the links L alone, of GetFirstNode and of GetLastNode
Descent(L, r) ==
    LET pass[m \in Links] == IF m # Null /\ L[m] # Null THEN L[m] ELSE m IN Loop(pass, r)

LEMMA DescentLemma ==
  ASSUME NEW root, NEW L, NEW R, NEW P, NEW V, NEW S, NEW K,
         IsTree(root, L, R, P, V, S, K), NEW r \in V
  PROVE  IsFirst(L, V, S, K, r, Descent(L, r))
<1> DEFINE pass == [m \in Links |-> IF m # Null /\ L[m] # Null THEN L[m] ELSE m]
           I == Leftward(V, S, K, r)
           mu == [m \in I |-> IF L[m] = Null THEN 0 ELSE Size(V, S)[m]]
           f == Loop(pass, r)
<1>1. Descent(L, r) = f
  BY DEF Descent
<1>2. /\ V \subseteq Elem /\ V \subseteq Links /\ Null \notin V
      /\ S \in [V \cup {Null} -> SUBSET V] /\ S[Null] = {}
      /\ \A n \in V : L[n] \in V \cup {Null} /\ R[n] \in V \cup {Null}
  BY NullAssumption DEF IsTree, Typed, Links
<1>3. \A n \in V : /\ S[n] = {n} \cup S[L[n]] \cup S[R[n]]
                   /\ \A x \in S[L[n]] : K[x] < K[n]
                   /\ \A x \in S[R[n]] : K[n] < K[x]
  BY DEF IsTree, Unfolds, Sorted
<1>4. \A n \in Elem : K[n] \in Int
  BY DEF IsTree, Typed
<1>5. IsTree(root, L, R, P, V, S, K)
  OBVIOUS
<1>6. ASSUME NEW m \in I
      PROVE  /\ pass[m] \in I /\ m \in V
             /\ pass[m] = IF L[m] = Null THEN m ELSE L[m]
  <2>1. /\ m \in V /\ m \in S[r] /\ S[m] \subseteq S[r] /\ m \in Links /\ m # Null
        /\ \A x \in S[r] \ S[m], y \in S[m] : K[y] < K[x]
        /\ \A z \in V : r \in S[z] => m \in S[z]
    BY <1>2 DEF Leftward
  <2>2. pass[m] = IF L[m] = Null THEN m ELSE L[m]
    BY <2>1
  <2> HIDE DEF pass
  <2>3. CASE L[m] # Null
    <3> DEFINE c == L[m]
    <3>1. c \in V /\ c # root /\ P[c] = m /\ c \in S[c] /\ S[c] \subseteq S[m]
      BY <1>5, <2>1, <2>3, LeftChild
    <3>2. ASSUME NEW x \in S[r] \ S[c], NEW y \in S[c] PROVE K[y] < K[x]
      <4>1. K[y] < K[m] /\ y \in S[m]
        BY <1>3, <2>1, <3>1
      <4>2. CASE x \notin S[m]
        BY <2>1, <4>1, <4>2
      <4>3. CASE x \in S[m]
        <5>1. x = m \/ K[m] < K[x]
          BY <1>3, <2>1, <4>3
        <5>2. K[x] \in Int /\ K[y] \in Int /\ K[m] \in Int
          <6>1. x \in V /\ y \in V
            BY <1>2, <2>1, <3>1
          <6>2. QED BY <1>2, <1>4, <2>1, <6>1
        <5>3. QED BY <4>1, <5>1, <5>2
      <4>4. QED BY <4>2, <4>3
    <3>3. ASSUME NEW z \in V, r \in S[z] PROVE c \in S[z]
      <4>1. m \in S[z]
        BY <2>1, <3>3
      <4>2. c # z => (c \in S[z] <=> m \in S[z])
        BY <3>1 DEF IsTree, Nested
      <4>3. QED BY <3>1, <4>1, <4>2
    <3>4. c \in S[r] /\ S[c] \subseteq S[r]
      BY <2>1, <3>1
    <3> HIDE DEF c
    <3>5. c \in I
      BY <3>1, <3>2, <3>3, <3>4 DEF Leftward
    <3>6. QED BY <2>1, <2>2, <2>3, <3>5 DEF c
  <2>4. QED BY <2>1, <2>2, <2>3
<1>7. r \in I
  BY <1>3 DEF Leftward
<1>8. /\ Size(V, S) \in [V \cup {Null} -> Nat]
      /\ \A n \in V \cup {Null} : Size(V, S)[n] < Passes
      /\ \A n \in V : Size(V, S)[n] > 0 /\ Size(V, S)[L[n]] < Size(V, S)[n]
  BY <1>5, SubtreeSizes
<1>9. I \subseteq V
  BY DEF Leftward
<1> HIDE DEF pass, I
<1>10. mu \in [I -> Nat]
  BY <1>8, <1>9
<1>11. ASSUME NEW m \in I PROVE mu[pass[m]] < mu[m] \/ mu[pass[m]] = 0
  <2>1. m \in V /\ pass[m] \in I /\ pass[m] \in V
    BY <1>6, <1>9
  <2>2. CASE L[m] = Null
    BY <1>6, <2>2
  <2>3. CASE L[m] # Null
    <3>1. pass[m] = L[m] /\ mu[m] = Size(V, S)[m]
      BY <1>6, <2>3
    <3>2. mu[pass[m]] = 0 \/ mu[pass[m]] = Size(V, S)[pass[m]]
      BY <2>1
    <3>3. QED BY <1>8, <2>1, <3>1, <3>2
  <2>4. QED BY <2>2, <2>3
<1>12. mu[r] < Passes
  <2>1. mu[r] = 0 \/ mu[r] = Size(V, S)[r]
    BY <1>7
  <2>2. Size(V, S)[r] < Passes
    BY <1>8
  <2>3. QED BY <2>1, <2>2, PassesNat, ElemAssumption, FS_CardinalityType
<1>13. \A m \in I : mu[m] = 0 => L[m] = Null
  BY <1>8, <1>9
<1> HIDE DEF mu
<1>14. Closed(pass, I) /\ Decreasing(pass, I, mu)
  BY <1>6, <1>11 DEF Closed, Decreasing
<1>15. f \in I /\ L[f] = Null
  <2>1. f \in I /\ mu[f] = 0
    BY <1>7, <1>10, <1>12, <1>14, LoopEnds
  <2>2. QED BY <1>13, <2>1
<1> HIDE DEF f
<1>16. /\ f \in V /\ f \in S[r] /\ S[f] \subseteq S[r]
       /\ \A x \in S[r] \ S[f], y \in S[f] : K[y] < K[x]
       /\ \A z \in V : r \in S[z] => f \in S[z]
  BY <1>15 DEF I, Leftward
<1>17. ASSUME NEW x \in S[r] \ {f} PROVE K[f] < K[x]
  <2>1. f \in S[f] /\ S[f] = {f} \cup S[R[f]]
    BY <1>2, <1>3, <1>15, <1>16
  <2>2. QED BY <1>3, <1>16, <2>1
<1>18. QED BY <1>1, <1>15, <1>16, <1>17 DEF IsFirst

LEMMA FirstNodeLemma ==
  ASSUME NEW t, NEW V, NEW S, HasTree(t, V, S), NEW r \in V
  PROVE  IsFirst(t.left, V, S, GetKey, r, GetFirstNode(t, r))
<1>1. IsTree(t.root, t.left, t.right, t.parent, V, S, GetKey)
  BY DEF HasTree
<1>2. GetFirstNode(t, r) = Descent(t.left, r)
  BY DEF GetFirstNode, Descent
<1>3. IsFirst(t.left, V, S, GetKey, r, Descent(t.left, r))
  BY <1>1, DescentLemma
<1>4. QED BY <1>2, <1>3

\* c takes the place of n at the parent p.
Bypassed(t, n, c, p) == SetParent(ChildPlace(t, n, c, p), c, p)

IsBypassed(t, u, n, c, p) ==
    /\ u \in Trees /\ u.height = t.height
    /\ u.root = IF p = Null THEN c ELSE t.root
    /\ u.left = IF p # Null /\ n = t.left[p] THEN [t.left EXCEPT ![p] = c] ELSE t.left
    /\ u.right = IF p # Null /\ n # t.left[p] THEN [t.right EXCEPT ![p] = c] ELSE t.right
    /\ u.parent = IF c = Null THEN t.parent ELSE [t.parent EXCEPT ![c] = p]

LEMMA BypassedFields ==
  ASSUME NEW t \in Trees, NEW n, NEW c \in Links, NEW p \in Links
  PROVE  IsBypassed(t, Bypassed(t, n, c, p), n, c, p)
<1> DEFINE v == ChildPlace(t, n, c, p)
<1>1. /\ v \in Trees /\ v.parent = t.parent /\ v.height = t.height
      /\ v.root = IF p = Null THEN c ELSE t.root
      /\ v.left = IF p # Null /\ n = t.left[p] THEN [t.left EXCEPT ![p] = c] ELSE t.left
      /\ v.right = IF p # Null /\ n # t.left[p] THEN [t.right EXCEPT ![p] = c] ELSE t.right
  BY ChildPlaceLemma
<1> HIDE DEF v
<1> DEFINE u == SetParent(v, c, p)
<1>2. /\ u \in Trees /\ u.root = v.root /\ u.left = v.left /\ u.right = v.right
      /\ u.height = v.height
      /\ u.parent = IF c = Null THEN v.parent ELSE [v.parent EXCEPT ![c] = p]
  BY <1>1, SetParentLemma
<1>3. Bypassed(t, n, c, p) = u
  BY DEF Bypassed, v
<1> HIDE DEF u
<1>4. QED BY <1>1, <1>2, <1>3 DEF IsBypassed

\* A node with one child or none is cut out.
LEMMA BypassedLemma ==
  ASSUME NEW t, NEW V, NEW S, HasTree(t, V, S), NEW n \in V, NEW c,
         (t.left[n] = Null /\ t.right[n] = c) \/ (t.right[n] = Null /\ t.left[n] = c)
  PROVE  LET u == Bypassed(t, n, c, t.parent[n])
         IN  HasTree(u, V \ {n}, CutSets(V, S, n)) /\ SameOutside(t, u, V)
<1> DEFINE p == t.parent[n]
           u == Bypassed(t, n, c, p)
<1>1. /\ t \in Trees /\ V \subseteq Elem /\ Null \notin Elem /\ n \in Elem
      /\ c \in V \cup {Null} /\ c \in Links /\ p \in Links
      /\ t.left \in [Elem -> Links] /\ t.right \in [Elem -> Links]
      /\ t.parent \in [Elem -> Links]
      /\ IsTree(t.root, t.left, t.right, t.parent, V, S, GetKey)
  BY TreesFields, NullAssumption DEF HasTree, IsTree, Typed, Links
<1>2. p # Null => p \in V /\ (n = t.left[p] \/ n = t.right[p])
  BY <1>1 DEF IsTree, Parents
<1> HIDE DEF p
<1>3. /\ u \in Trees
      /\ u.root = IF p = Null THEN c ELSE t.root
      /\ u.left = IF p # Null /\ n = t.left[p] THEN [t.left EXCEPT ![p] = c] ELSE t.left
      /\ u.right = IF p # Null /\ n # t.left[p] THEN [t.right EXCEPT ![p] = c] ELSE t.right
      /\ u.parent = IF c = Null THEN t.parent ELSE [t.parent EXCEPT ![c] = p]
  <2>1. IsBypassed(t, u, n, c, p)
    BY <1>1, BypassedFields
  <2>2. QED BY <2>1 DEF IsBypassed
<1> HIDE DEF u
<1>4. u.left \in [Elem -> Links] /\ u.right \in [Elem -> Links] /\ u.parent \in [Elem -> Links]
  BY <1>3, TreesFields
<1>5. /\ c # Null => u.parent[c] = p
      /\ \A x \in Elem \ {c} : u.parent[x] = t.parent[x]
      /\ \A x \in Elem \ {p} : u.left[x] = t.left[x] /\ u.right[x] = t.right[x]
  BY <1>1, <1>2, <1>3
<1>6. Replaced(t.root, t.left, t.right, u.root, u.left, u.right, p, n, c)
  <2>1. CASE p = Null
    BY <1>3, <2>1 DEF Replaced
  <2>2. CASE p # Null
    <3>1. u.root = t.root /\ p \in Elem
      BY <1>1, <1>2, <1>3, <2>2
    <3>2. n = t.left[p] => u.left[p] = c /\ u.right[p] = t.right[p]
      BY <1>1, <1>3, <2>2, <3>1
    <3>3. n # t.left[p] => u.right[p] = c /\ u.left[p] = t.left[p]
      BY <1>1, <1>3, <2>2, <3>1
    <3>4. QED BY <1>2, <2>2, <3>1, <3>2, <3>3 DEF Replaced
  <2>3. QED BY <2>1, <2>2
<1>7. Cut(t.root, t.left, t.right, t.parent, V, u.root, u.left, u.right, u.parent, n, c)
  BY <1>1, <1>4, <1>5, <1>6 DEF Cut, p
<1>8. HasTree(u, V \ {n}, CutSets(V, S, n))
  BY <1>1, <1>3, <1>7, CutShape DEF HasTree
<1>9. SameOutside(t, u, V)
  BY <1>1, <1>2, <1>5 DEF SameOutside
<1>10. QED BY <1>8, <1>9 DEF u, p

\* s, the first node right of n, takes the place of n, which has two children.
Succeeds(t, V, S, n, s) ==
    /\ n \in V /\ s \in V /\ s # n /\ t.left[s] = Null
    /\ t.left[n] \in V /\ t.right[n] \in V /\ t.left[n] \notin S[t.right[n]]
    /\ t.left[n] # n /\ t.right[n] # n
    /\ s \in S[t.right[n]] /\ n \notin S[t.right[n]] /\ S[t.right[s]] \subseteq S[t.right[n]]
    /\ t.right[s] # Null => t.right[s] \in S[t.right[n]] /\ t.right[s] # s
    /\ t.parent[s] \in V /\ t.parent[s] # s /\ s \in {t.left[t.parent[s]], t.right[t.parent[s]]}
    /\ t.parent[s] = n <=> s = t.right[n]
    /\ t.parent[s] # n => t.parent[s] \in S[t.right[n]]
    /\ t.parent[n] \notin S[t.right[n]] /\ t.parent[n] # n
    /\ t.parent[n] # Null => t.parent[n] \in V /\ n \in {t.left[t.parent[n]], t.right[t.parent[n]]}
    /\ \A x \in S[t.left[n]] : GetKey[x] < GetKey[s]
    /\ \A x \in S[t.right[n]] \ {s} : GetKey[s] < GetKey[x]
    /\ \A z \in V : n \in S[z] => s \in S[z]

LEMMA SuccessorLemma ==
  ASSUME NEW t, NEW V, NEW S, HasTree(t, V, S), NEW n \in V,
         t.left[n] # Null, t.right[n] # Null
  PROVE  Succeeds(t, V, S, n, GetFirstNode(t, t.right[n]))
<1> DEFINE r == t.right[n]
           s == GetFirstNode(t, r)
<1>1. /\ V \subseteq Elem /\ Null \notin V /\ S \in [V \cup {Null} -> SUBSET V]
      /\ S[Null] = {} /\ t.root \in V \cup {Null} /\ S[t.root] = V
      /\ \A x \in V : t.left[x] \in V \cup {Null} /\ t.right[x] \in V \cup {Null}
      /\ IsTree(t.root, t.left, t.right, t.parent, V, S, GetKey)
  BY DEF HasTree, IsTree, Typed
<1>2. /\ r \in V /\ r # n /\ r # t.root /\ t.parent[r] = n /\ n \notin S[r] /\ r \in S[r]
      /\ t.left[n] \in V /\ t.left[n] # n
  BY <1>1, LeftChild, RightChild
<1>3. /\ s \in V /\ s \in S[r] /\ S[s] \subseteq S[r] /\ t.left[s] = Null
      /\ \A x \in S[r] \ {s} : GetKey[s] < GetKey[x]
      /\ \A z \in V : r \in S[z] => s \in S[z]
  BY <1>2, FirstNodeLemma DEF IsFirst
<1> HIDE DEF s
<1>4. /\ \A x \in S[t.left[n]] : GetKey[x] < GetKey[n]
      /\ \A x \in S[r] : GetKey[n] < GetKey[x]
      /\ S[n] = {n} \cup S[t.left[n]] \cup S[r]
  BY <1>1 DEF IsTree, Sorted, Unfolds
<1>5. /\ \A x, y \in V : x # t.root /\ x # y => (x \in S[y] <=> t.parent[x] \in S[y])
      /\ t.root # Null => t.parent[t.root] = Null
      /\ \A x \in V : x # t.root => t.parent[x] \in V /\ x \in {t.left[t.parent[x]], t.right[t.parent[x]]}
  BY <1>1 DEF IsTree, Nested, Parents
<1>6. \A x \in V : GetKey[x] \in Int
  BY <1>1, KeyAssumption
<1>7. \A x \in S[t.left[n]] : GetKey[x] < GetKey[s]
  <2>1. GetKey[n] < GetKey[s]
    BY <1>3, <1>4
  <2>2. QED BY <1>1, <1>2, <1>3, <1>4, <1>6, <2>1
<1>8. t.left[n] \notin S[r]
  <2>1. t.left[n] \in S[t.left[n]]
    BY <1>1, LeftChild
  <2>2. QED BY <1>2, <1>4, <1>6, <2>1
<1>9. \A z \in V : n \in S[z] => s \in S[z]
  BY <1>2, <1>3, <1>5
<1>10. s # n /\ s # t.root
  <2>1. s # n
    BY <1>2, <1>3
  <2>2. s # t.root
    BY <1>2, <1>3, RootOnTop
  <2>3. QED BY <2>1, <2>2
<1>11. /\ t.parent[s] \in V /\ s \in {t.left[t.parent[s]], t.right[t.parent[s]]}
  BY <1>3, <1>5, <1>10
<1>12. t.parent[s] # s
  <2>1. \A m \in V : (t.left[m] # Null => t.left[m] # m) /\ (t.right[m] # Null => t.right[m] # m)
    BY <1>1, LeftChild, RightChild
  <2>2. QED BY <1>1, <1>3, <1>11, <2>1
<1>13. s # r => t.parent[s] \in S[r]
  BY <1>2, <1>3, <1>5, <1>10
<1>14. t.parent[s] = n <=> s = r
  BY <1>2, <1>13
<1>15. /\ t.parent[n] \notin S[r] /\ t.parent[n] # n
       /\ t.parent[n] # Null => t.parent[n] \in V /\ n \in {t.left[t.parent[n]], t.right[t.parent[n]]}
  <2>1. CASE n = t.root
    <3>1. t.parent[n] = Null
      BY <1>1, <1>5, <2>1
    <3>2. QED BY <1>1, <1>2, <3>1
  <2>2. CASE n # t.root
    <3>1. t.parent[n] \in V /\ n \in {t.left[t.parent[n]], t.right[t.parent[n]]}
      BY <1>5, <2>2
    <3>2. t.parent[n] \notin S[r]
      BY <1>2, <1>5, <2>2
    <3>3. t.parent[n] # n
      BY <1>1, <1>2, <3>1
    <3>4. QED BY <3>1, <3>2, <3>3
  <2>3. QED BY <2>1, <2>2
<1>16. S[t.right[s]] \subseteq S[r] /\ (t.right[s] # Null => t.right[s] \in S[r] /\ t.right[s] # s)
  <2>1. S[s] = {s} \cup S[t.left[s]] \cup S[t.right[s]]
    BY <1>1, <1>3 DEF IsTree, Unfolds
  <2>2. t.right[s] # Null => t.right[s] # s /\ t.right[s] \in S[t.right[s]]
    BY <1>1, <1>3, RightChild
  <2>3. QED BY <1>3, <2>1, <2>2
<1>17. Succeeds(t, V, S, n, s)
  BY <1>2, <1>3, <1>7, <1>8, <1>9, <1>10, <1>11, <1>12, <1>13, <1>14, <1>15, <1>16 DEF Succeeds
<1>18. QED BY <1>17 DEF s

\* With s cut out of the right subtree of n, its key fits in place of n's.
IsCutFor(t, u, V, S, n, s) ==
    /\ HasTree(u, V \ {s}, CutSets(V, S, s)) /\ SameOutside(t, u, V)
    /\ u.root = t.root /\ u.left[n] = t.left[n] /\ u.parent[n] = t.parent[n]
    /\ u.right[n] = IF s = t.right[n] THEN t.right[s] ELSE t.right[n]
    /\ \A x \in V \ {t.parent[s]} : u.left[x] = t.left[x] /\ u.right[x] = t.right[x]
    /\ \A x \in V \ {t.right[s]} : u.parent[x] = t.parent[x]
    /\ Between(u.left, u.right, V \ {s}, CutSets(V, S, s), GetKey, n, s)

LEMMA SuccessorBetween ==
  ASSUME NEW t, NEW V, NEW S, HasTree(t, V, S), NEW n, NEW s, Succeeds(t, V, S, n, s),
         NEW u, u = Bypassed(t, s, t.right[s], t.parent[s])
  PROVE  IsCutFor(t, u, V, S, n, s)
<1> DEFINE c == t.right[s]
           p == t.parent[s]
           r == t.right[n]
           S1 == CutSets(V, S, s)
<1>1. /\ t \in Trees /\ V \subseteq Elem /\ Null \notin V /\ S \in [V \cup {Null} -> SUBSET V]
      /\ S[Null] = {} /\ t.root \in V \cup {Null} /\ Null \notin Elem
      /\ t.left \in [Elem -> Links] /\ t.right \in [Elem -> Links]
      /\ t.parent \in [Elem -> Links] /\ c \in V \cup {Null} /\ c \in Links /\ p \in Links
      /\ \A x \in V : t.left[x] \in V \cup {Null} /\ t.right[x] \in V \cup {Null}
  BY NullAssumption, TreesFields DEF HasTree, IsTree, Typed, Succeeds, Links
<1>2. HasTree(u, V \ {s}, S1) /\ SameOutside(t, u, V)
  <2>1. s \in V /\ t.left[s] = Null /\ t.right[s] = c
    BY DEF Succeeds
  <2>2. QED BY <2>1, BypassedLemma
<1>3. IsBypassed(t, u, s, c, p)
  BY <1>1, BypassedFields
<1>4. /\ n \in V /\ s \in V /\ s # n /\ p \in V /\ p # s /\ t.left[n] \notin S[r] /\ n \notin S[r]
      /\ s \in S[r] /\ S[c] \subseteq S[r] /\ (c # Null => c \in S[r])
      /\ s \in {t.left[p], t.right[p]} /\ t.left[n] # s /\ (p = n <=> s = r)
      /\ t.left[n] \in V /\ r \in V
  BY DEF Succeeds
<1>5. /\ u.root = t.root
      /\ u.left = IF s = t.left[p] THEN [t.left EXCEPT ![p] = c] ELSE t.left
      /\ u.right = IF s # t.left[p] THEN [t.right EXCEPT ![p] = c] ELSE t.right
      /\ u.parent = IF c = Null THEN t.parent ELSE [t.parent EXCEPT ![c] = p]
  BY <1>1, <1>3, <1>4 DEF IsBypassed
<1>6. \A x \in V \ {p} : u.left[x] = t.left[x] /\ u.right[x] = t.right[x]
  BY <1>1, <1>4, <1>5
<1>7. \A x \in V \ {c} : u.parent[x] = t.parent[x]
  BY <1>1, <1>4, <1>5
<1>8. u.left[n] = t.left[n] /\ u.parent[n] = t.parent[n]
  <2>1. u.parent[n] = t.parent[n]
    BY <1>1, <1>4, <1>7
  <2>2. u.left[n] = t.left[n]
    BY <1>1, <1>4, <1>5
  <2>3. QED BY <2>1, <2>2
<1>9. u.right[n] = IF s = r THEN c ELSE r
  <2>1. CASE s = r
    <3>1. p = n /\ s # t.left[p] /\ p \in Elem
      BY <1>1, <1>4, <2>1
    <3>2. QED BY <1>1, <1>5, <2>1, <3>1
  <2>2. CASE s # r
    BY <1>4, <1>6, <2>2
  <2>3. QED BY <2>1, <2>2
<1>10. \A x \in (V \ {s}) \cup {Null} : S1[x] = S[x] \ {s}
  BY DEF CutSets
<1> HIDE DEF S1
<1>11. \A x \in S1[u.left[n]] : GetKey[x] < GetKey[s]
  <2>1. S1[u.left[n]] \subseteq S[t.left[n]]
    BY <1>4, <1>8, <1>10
  <2>2. QED BY <2>1 DEF Succeeds
<1>12. \A x \in S1[u.right[n]] : GetKey[s] < GetKey[x]
  <2>1. u.right[n] \in (V \ {s}) \cup {Null} /\ S[u.right[n]] \subseteq S[r]
    <3>1. c # Null => c # s
      BY DEF Succeeds
    <3>2. QED BY <1>1, <1>4, <1>9, <3>1
  <2>2. S1[u.right[n]] \subseteq S[r] \ {s}
    BY <1>10, <2>1
  <2>3. QED BY <2>2 DEF Succeeds
<1>13. \A x \in V : /\ \A y \in S[t.left[x]] : GetKey[y] < GetKey[x]
                    /\ \A y \in S[t.right[x]] : GetKey[x] < GetKey[y]
  BY DEF HasTree, IsTree, Sorted
<1>14. \A z \in V : n \in S[z] => s \in S[z]
  BY DEF Succeeds
<1>15. ASSUME NEW m \in V \ {s}, n \in S1[u.left[m]] PROVE GetKey[s] < GetKey[m]
  <2>1. u.left[m] \in (V \ {s}) \cup {Null}
    BY <1>2 DEF HasTree, IsTree, Typed
  <2>2. n \in S[u.left[m]]
    BY <1>10, <1>15, <2>1
  <2>3. u.left[m] \in {t.left[m], c}
    BY <1>1, <1>4, <1>5
  <2>4. n \in S[t.left[m]] /\ t.left[m] \in V
    BY <1>1, <1>4, <2>2, <2>3
  <2>5. s \in S[t.left[m]]
    BY <1>14, <2>4
  <2>6. QED BY <1>13, <2>5
<1>16. ASSUME NEW m \in V \ {s}, n \in S1[u.right[m]] PROVE GetKey[m] < GetKey[s]
  <2>1. u.right[m] \in (V \ {s}) \cup {Null}
    BY <1>2 DEF HasTree, IsTree, Typed
  <2>2. n \in S[u.right[m]]
    BY <1>10, <1>16, <2>1
  <2>3. u.right[m] \in {t.right[m], c}
    BY <1>1, <1>4, <1>5
  <2>4. n \in S[t.right[m]] /\ t.right[m] \in V
    BY <1>1, <1>4, <2>2, <2>3
  <2>5. s \in S[t.right[m]]
    BY <1>14, <2>4
  <2>6. QED BY <1>13, <2>5
<1>17. Between(u.left, u.right, V \ {s}, S1, GetKey, n, s)
  BY <1>11, <1>12, <1>15, <1>16 DEF Between, Fits
<1>18. QED BY <1>2, <1>5, <1>6, <1>7, <1>8, <1>9, <1>17 DEF S1, IsCutFor

\* s gets the left child l of n, its parent p, its height h and the link to it.
Promoted(u, l, s, p, n, h) ==
    ChildPlace([SetParent(u, l, s) EXCEPT !.left[s] = l, !.parent[s] = p, !.height[s] = h],
               n, s, p)

IsPromoted(u, v, l, s, p, n) ==
    /\ v \in Trees
    /\ v.root = IF p = Null THEN s ELSE u.root
    /\ v.left[s] = l /\ v.parent[l] = s /\ v.parent[s] = p
    /\ \A x \in Elem \ {s, p} : v.left[x] = u.left[x]
    /\ \A x \in Elem \ {p} : v.right[x] = u.right[x]
    /\ \A x \in Elem \ {l, s} : v.parent[x] = u.parent[x]
    /\ p # Null => IF n = u.left[p] THEN v.left[p] = s /\ v.right[p] = u.right[p]
                                    ELSE v.left[p] = u.left[p] /\ v.right[p] = s

IsPlaced(t, u, old, new, p) ==
    /\ u \in Trees /\ u.parent = t.parent
    /\ u.root = IF p = Null THEN new ELSE t.root
    /\ u.left = IF p # Null /\ old = t.left[p] THEN [t.left EXCEPT ![p] = new] ELSE t.left
    /\ u.right = IF p # Null /\ old # t.left[p] THEN [t.right EXCEPT ![p] = new] ELSE t.right

LEMMA PlacedFields ==
  ASSUME NEW t \in Trees, NEW old, NEW new \in Links, NEW p \in Links
  PROVE  IsPlaced(t, ChildPlace(t, old, new, p), old, new, p)
BY ChildPlaceLemma DEF IsPlaced

LEMMA PromotedFields ==
  ASSUME NEW u \in Trees, NEW l \in Elem, NEW s \in Elem, NEW p \in Links, NEW n,
         NEW h \in Nat, p # s, l # s
  PROVE  IsPromoted(u, Promoted(u, l, s, p, n, h), l, s, p, n)
<1> DEFINE a == SetParent(u, l, s)
           b == [a EXCEPT !.left[s] = l, !.parent[s] = p, !.height[s] = h]
           v == ChildPlace(b, n, s, p)
<1>1. /\ l \in Links /\ s \in Links /\ l # Null /\ s # Null /\ Null \notin Elem
      /\ Links = Elem \cup {Null}
  BY NullAssumption DEF Links
<1>2. /\ a \in Trees /\ a.root = u.root /\ a.left = u.left /\ a.right = u.right
      /\ a.height = u.height /\ a.parent = [u.parent EXCEPT ![l] = s]
  BY <1>1, SetParentLemma
<1> HIDE DEF a
<1>3. /\ b \in Trees /\ b.root = a.root /\ b.left = [a.left EXCEPT ![s] = l]
      /\ b.right = a.right /\ b.parent = [a.parent EXCEPT ![s] = p]
  BY <1>1, <1>2 DEF Trees
<1> HIDE DEF b
<1>4. /\ v \in Trees /\ v.parent = b.parent
      /\ v.root = IF p = Null THEN s ELSE b.root
      /\ v.left = IF p # Null /\ n = b.left[p] THEN [b.left EXCEPT ![p] = s] ELSE b.left
      /\ v.right = IF p # Null /\ n # b.left[p] THEN [b.right EXCEPT ![p] = s] ELSE b.right
  <2>1. IsPlaced(b, v, n, s, p)
    BY <1>1, <1>3, PlacedFields
  <2>2. QED BY <2>1 DEF IsPlaced
<1> HIDE DEF v
<1>5. u.left \in [Elem -> Links] /\ u.right \in [Elem -> Links] /\ u.parent \in [Elem -> Links]
  BY TreesFields
<1>6. /\ b.left[s] = l /\ \A x \in Elem \ {s} : b.left[x] = u.left[x]
      /\ b.left \in [Elem -> Links]
  BY <1>1, <1>2, <1>3, <1>5
<1>7. b.right = u.right /\ b.root = u.root
  BY <1>2, <1>3
<1>8. v.parent[l] = s /\ v.parent[s] = p /\ \A x \in Elem \ {l, s} : v.parent[x] = u.parent[x]
  BY <1>1, <1>2, <1>3, <1>4, <1>5
<1>9. p # Null => p \in Elem /\ b.left[p] = u.left[p]
  BY <1>1, <1>6
<1>10. v.left[s] = l /\ \A x \in Elem \ {s, p} : v.left[x] = u.left[x]
  BY <1>4, <1>6, <1>9
<1>11. \A x \in Elem \ {p} : v.right[x] = u.right[x]
  BY <1>4, <1>5, <1>7, <1>9
<1>12. p # Null => IF n = u.left[p] THEN v.left[p] = s /\ v.right[p] = u.right[p]
                                    ELSE v.left[p] = u.left[p] /\ v.right[p] = s
  BY <1>4, <1>5, <1>6, <1>7, <1>9
<1>13. IsPromoted(u, v, l, s, p, n)
  BY <1>4, <1>7, <1>8, <1>10, <1>11, <1>12 DEF IsPromoted
<1>14. QED BY <1>13 DEF v, b, a, Promoted

\* u has the right child and the parents that s needs in the place of n; cut is
\* the tree without s.
Ready(t, cut, u, V, n, s) ==
    /\ u \in Trees /\ u.root = t.root /\ SameOutside(t, u, V)
    /\ u.left = cut.left \/ (s = t.right[n] /\ u.left = t.left)
    /\ \A x \in V \ {s, n} : u.right[x] = cut.right[x]
    /\ u.right[s] = cut.right[n]
    /\ \A x \in V \ {s, cut.right[n]} : u.parent[x] = cut.parent[x]
    /\ cut.right[n] # Null => u.parent[cut.right[n]] = s

\* u is a tree of the nodes of t but n.
Without(t, u, V, n) == (\E S : HasTree(u, V \ {n}, S)) /\ SameOutside(t, u, V)

LEMMA PromotedLemma ==
  ASSUME NEW t, NEW V, NEW S, HasTree(t, V, S), NEW n, NEW s, Succeeds(t, V, S, n, s),
         NEW cut, cut = Bypassed(t, s, t.right[s], t.parent[s]),
         NEW u, Ready(t, cut, u, V, n, s), NEW h \in Nat
  PROVE  Without(t, Promoted(u, t.left[n], s, t.parent[n], n, h), V, n)
<1>0. /\ u \in Trees /\ u.root = t.root /\ SameOutside(t, u, V)
      /\ u.left = cut.left \/ (s = t.right[n] /\ u.left = t.left)
      /\ \A x \in V \ {s, n} : u.right[x] = cut.right[x]
      /\ u.right[s] = cut.right[n]
      /\ \A x \in V \ {s, cut.right[n]} : u.parent[x] = cut.parent[x]
      /\ cut.right[n] # Null => u.parent[cut.right[n]] = s
  BY DEF Ready
<1> DEFINE l == t.left[n]
           p == t.parent[n]
           v == Promoted(u, l, s, p, n, h)
           V1 == V \ {s}
           S1 == CutSets(V, S, s)
<1>1. /\ t \in Trees /\ V \subseteq Elem /\ Null \notin V /\ Null \notin Elem
      /\ S \in [V \cup {Null} -> SUBSET V] /\ V \subseteq Links /\ Null \in Links
  BY NullAssumption DEF HasTree, IsTree, Typed, Links
<1>2. /\ n \in V /\ s \in V /\ s # n /\ l \in V /\ l # n /\ l # s
      /\ p # s /\ p # n /\ (p # Null => p \in V /\ n \in {t.left[p], t.right[p]})
      /\ p \notin S[t.right[n]] /\ s \in S[t.right[n]] /\ p \in Links
      /\ t.parent[s] # p
  BY <1>1 DEF Succeeds
<1>3. /\ HasTree(cut, V1, S1) /\ cut.root = t.root
      /\ cut.left[n] = l /\ cut.parent[n] = p
      /\ \A x \in V \ {t.parent[s]} : cut.left[x] = t.left[x] /\ cut.right[x] = t.right[x]
      /\ \A x \in V \ {t.right[s]} : cut.parent[x] = t.parent[x]
      /\ Between(cut.left, cut.right, V1, S1, GetKey, n, s)
  <2>1. IsCutFor(t, cut, V, S, n, s)
    BY SuccessorBetween
  <2>2. QED BY <2>1 DEF IsCutFor
<1> HIDE DEF V1, S1
<1>4. IsPromoted(u, v, l, s, p, n)
  <2>1. l \in Elem /\ s \in Elem
    BY <1>1, <1>2
  <2> HIDE DEF l, p
  <2>2. QED BY <1>0, <1>2, <2>1, PromotedFields
<1>5. \A x \in V : s = t.right[n] => cut.left[x] = t.left[x]
  <2>1. s = t.right[n] => t.parent[s] = n
    BY DEF Succeeds
  <2>2. QED BY <1>3, <2>1
<1>6. \A x \in V : u.left[x] = cut.left[x]
  BY <1>0, <1>5
<1> HIDE DEF v
<1>7. /\ v \in Trees /\ v.root = IF p = Null THEN s ELSE cut.root
      /\ v.left[s] = l /\ v.right[s] = cut.right[n] /\ v.parent[s] = p /\ v.parent[l] = s
      /\ \A x \in V1 \ {n, p} : v.left[x] = cut.left[x] /\ v.right[x] = cut.right[x]
  <2> HIDE DEF l, p
  <2>1. /\ v \in Trees /\ v.root = IF p = Null THEN s ELSE u.root
        /\ v.left[s] = l /\ v.parent[l] = s /\ v.parent[s] = p
    BY <1>4 DEF IsPromoted
  <2>2. /\ \A x \in Elem \ {s, p} : v.left[x] = u.left[x]
        /\ \A x \in Elem \ {p} : v.right[x] = u.right[x]
    BY <1>4 DEF IsPromoted
  <2>3. u.root = cut.root
    BY <1>0, <1>3
  <2>4. v.right[s] = cut.right[n]
    <3>1. s \in Elem \ {p}
      BY <1>1, <1>2
    <3>2. QED BY <1>0, <2>2, <3>1
  <2>5. ASSUME NEW x \in V1 \ {n, p}
        PROVE  v.left[x] = cut.left[x] /\ v.right[x] = cut.right[x]
    <3>1. x \in Elem /\ x \in V /\ x # s /\ x # n /\ x # p
      BY <1>1 DEF V1
    <3>2. v.left[x] = u.left[x] /\ v.right[x] = u.right[x]
      BY <2>2, <3>1
    <3>3. u.left[x] = cut.left[x]
      BY <1>6, <3>1
    <3>4. u.right[x] = cut.right[x]
      BY <1>0, <3>1
    <3>5. QED BY <3>2, <3>3, <3>4
  <2>6. QED BY <2>1, <2>3, <2>4, <2>5
<1>8. cut.right[n] \in V1 \cup {Null} /\ cut.right[n] # l
  <2>1. IsTree(cut.root, cut.left, cut.right, cut.parent, V1, S1, GetKey) /\ n \in V1
    BY <1>2, <1>3 DEF HasTree, V1
  <2>2. cut.right[n] # Null => cut.right[n] # cut.left[n] /\ cut.right[n] \in V1
    BY <2>1, RightChild
  <2>3. QED BY <1>1, <1>2, <1>3, <2>2
<1>9. /\ cut.right[n] # Null => v.parent[cut.right[n]] = s
      /\ \A x \in V1 \ {n, l, cut.right[n]} : v.parent[x] = cut.parent[x]
  <2> HIDE DEF l, p
  <2>1. \A x \in Elem \ {l, s} : v.parent[x] = u.parent[x]
    BY <1>4 DEF IsPromoted
  <2>2. ASSUME cut.right[n] # Null PROVE v.parent[cut.right[n]] = s
    <3>1. cut.right[n] \in Elem \ {l, s}
      BY <1>1, <1>8, <2>2 DEF V1
    <3>2. QED BY <1>0, <2>1, <2>2, <3>1
  <2>3. ASSUME NEW x \in V1 \ {n, l, cut.right[n]} PROVE v.parent[x] = cut.parent[x]
    <3>1. x \in Elem \ {l, s} /\ x \in V \ {s, cut.right[n]}
      BY <1>1 DEF V1
    <3>2. QED BY <1>0, <2>1, <3>1
  <2>4. QED BY <2>2, <2>3
<1>10. Replaced(cut.root, cut.left, cut.right, v.root, v.left, v.right, p, n, s)
  <2>1. CASE p = Null
    BY <1>7, <2>1 DEF Replaced
  <2>2. CASE p # Null
    <3>1. p \in V \ {s, n} /\ cut.left[p] = t.left[p] /\ cut.right[p] = t.right[p]
      BY <1>2, <1>3, <2>2
    <3>2. u.left[p] = cut.left[p] /\ u.right[p] = cut.right[p] /\ n \in {t.left[p], t.right[p]}
      BY <1>0, <1>2, <1>6, <2>2, <3>1
    <3>3. IF n = u.left[p] THEN v.left[p] = s /\ v.right[p] = u.right[p]
                           ELSE v.left[p] = u.left[p] /\ v.right[p] = s
      BY <1>4, <2>2 DEF IsPromoted
    <3>4. QED BY <1>7, <2>2, <3>1, <3>2, <3>3 DEF Replaced
  <2>3. QED BY <2>1, <2>2
<1>11. v.left \in [Elem -> Links] /\ v.right \in [Elem -> Links] /\ v.parent \in [Elem -> Links]
  BY <1>7, TreesFields
<1>12. InPlaceOf(cut.root, cut.left, cut.right, cut.parent, V1,
                 v.root, v.left, v.right, v.parent, n, s)
  <2> HIDE DEF l, p
  <2>1. /\ v.left[s] = cut.left[n] /\ v.right[s] = cut.right[n] /\ v.parent[s] = cut.parent[n]
        /\ cut.left[n] # Null => v.parent[cut.left[n]] = s
    BY <1>3, <1>7
  <2>2. /\ \A x \in V1 \ {n, cut.left[n], cut.right[n]} : v.parent[x] = cut.parent[x]
        /\ cut.right[n] # Null => v.parent[cut.right[n]] = s
    BY <1>3, <1>9
  <2>3. \A x \in V1 \ {n, cut.parent[n]} : v.left[x] = cut.left[x] /\ v.right[x] = cut.right[x]
    BY <1>3, <1>7
  <2>4. Replaced(cut.root, cut.left, cut.right, v.root, v.left, v.right, cut.parent[n], n, s)
    BY <1>3, <1>10
  <2>5. QED BY <1>11, <2>1, <2>2, <2>3, <2>4 DEF InPlaceOf
<1>13. n \in V1 /\ s \in Elem \ V1 /\ (V1 \ {n}) \cup {s} = V \ {n}
  BY <1>1, <1>2 DEF V1
<1>14. IsTree(v.root, v.left, v.right, v.parent, (V1 \ {n}) \cup {s},
              RenamedSets(V1, S1, n, s), GetKey)
  <2>1. IsTree(cut.root, cut.left, cut.right, cut.parent, V1, S1, GetKey)
    BY <1>3 DEF HasTree
  <2>2. QED BY <1>3, <1>12, <1>13, <2>1, RenameShape
<1>15. HasTree(v, V \ {n}, RenamedSets(V1, S1, n, s))
  BY <1>7, <1>13, <1>14 DEF HasTree
<1>16. SameOutside(t, v, V)
  <2>1. \A x \in Elem \ V : x \notin {s, p, l}
    BY <1>1, <1>2
  <2>2. QED BY <1>0, <1>4, <2>1 DEF SameOutside, IsPromoted
<1>17. QED BY <1>15, <1>16 DEF Without, v, l, p

LEMMA ReadyChild ==
  ASSUME NEW t, NEW V, NEW S, HasTree(t, V, S), NEW n, NEW s, Succeeds(t, V, S, n, s),
         NEW cut, cut = Bypassed(t, s, t.right[s], t.parent[s]), t.parent[s] = n
  PROVE  Ready(t, cut, t, V, n, s)
<1>1. /\ cut.right[n] = IF s = t.right[n] THEN t.right[s] ELSE t.right[n]
      /\ \A x \in V \ {t.parent[s]} : cut.right[x] = t.right[x]
      /\ \A x \in V \ {t.right[s]} : cut.parent[x] = t.parent[x]
  <2>1. IsCutFor(t, cut, V, S, n, s)
    BY SuccessorBetween
  <2>2. QED BY <2>1 DEF IsCutFor
<1>2. s = t.right[n] /\ s \in V
  BY DEF Succeeds
<1>3. t.right[s] # Null => t.parent[t.right[s]] = s
  BY <1>2 DEF HasTree, IsTree, Parents
<1>4. t \in Trees /\ SameOutside(t, t, V)
  BY DEF HasTree, SameOutside
<1>5. QED BY <1>1, <1>2, <1>3, <1>4 DEF Ready

LEMMA ReadyDeep ==
  ASSUME NEW t, NEW V, NEW S, HasTree(t, V, S), NEW n, NEW s, Succeeds(t, V, S, n, s),
         NEW cut, cut = Bypassed(t, s, t.right[s], t.parent[s]), t.parent[s] # n
  PROVE  Ready(t, cut, [SetParent(cut, cut.right[n], s) EXCEPT !.right[s] = cut.right[n]],
               V, n, s)
<1> DEFINE r == t.right[n]
           a == SetParent(cut, r, s)
           u == [a EXCEPT !.right[s] = r]
<1>1. /\ cut \in Trees /\ SameOutside(t, cut, V) /\ cut.root = t.root
      /\ cut.right[n] = IF s = t.right[n] THEN t.right[s] ELSE t.right[n]
  <2>1. IsCutFor(t, cut, V, S, n, s)
    BY SuccessorBetween
  <2>2. QED BY <2>1 DEF IsCutFor, HasTree
<1>2. /\ n \in V /\ s \in V /\ s \in Elem /\ s \in Links /\ s # r /\ r \in V /\ r \in Elem
      /\ r \in Links /\ r # Null /\ V \subseteq Elem
  BY NullAssumption DEF Succeeds, HasTree, IsTree, Typed, Links
<1>3. cut.right[n] = r
  BY <1>1, <1>2
<1> HIDE DEF r
<1>4. /\ a \in Trees /\ a.root = cut.root /\ a.left = cut.left /\ a.right = cut.right
      /\ a.parent = [cut.parent EXCEPT ![r] = s]
  BY <1>1, <1>2, SetParentLemma
<1> HIDE DEF a
<1>5. /\ u \in Trees /\ u.root = a.root /\ u.left = a.left /\ u.parent = a.parent
      /\ u.right = [a.right EXCEPT ![s] = r]
  BY <1>2, <1>4 DEF Trees
<1> HIDE DEF u
<1>6. /\ cut.left \in [Elem -> Links] /\ cut.right \in [Elem -> Links]
      /\ cut.parent \in [Elem -> Links]
  BY <1>1, TreesFields
<1>7. /\ u.right[s] = r /\ \A x \in Elem \ {s} : u.right[x] = cut.right[x]
      /\ u.parent[r] = s /\ \A x \in Elem \ {r} : u.parent[x] = cut.parent[x]
  <2>1. u.right = [cut.right EXCEPT ![s] = r] /\ u.parent = [cut.parent EXCEPT ![r] = s]
    BY <1>4, <1>5
  <2>2. u.right[s] = r /\ \A x \in Elem \ {s} : u.right[x] = cut.right[x]
    BY <1>2, <1>6, <2>1
  <2>3. u.parent[r] = s /\ \A x \in Elem \ {r} : u.parent[x] = cut.parent[x]
    BY <1>2, <1>6, <2>1
  <2>4. QED BY <2>2, <2>3
<1>8. SameOutside(t, u, V)
  <2> SUFFICES ASSUME NEW x \in Elem \ V
               PROVE  /\ u.left[x] = t.left[x] /\ u.right[x] = t.right[x]
                      /\ u.parent[x] = t.parent[x]
    BY DEF SameOutside
  <2>1. x # s /\ x # r
    BY <1>2
  <2>2. u.left[x] = cut.left[x] /\ u.right[x] = cut.right[x] /\ u.parent[x] = cut.parent[x]
    BY <1>4, <1>5, <1>7, <2>1
  <2>3. QED BY <1>1, <2>2 DEF SameOutside
<1>9. Ready(t, cut, u, V, n, s)
  <2>1. u \in Trees /\ u.root = t.root /\ u.left = cut.left
    BY <1>1, <1>4, <1>5
  <2>2. /\ \A x \in V \ {s, n} : u.right[x] = cut.right[x]
        /\ \A x \in V \ {s, cut.right[n]} : u.parent[x] = cut.parent[x]
    BY <1>2, <1>3, <1>7
  <2>3. u.right[s] = cut.right[n] /\ u.parent[cut.right[n]] = s
    BY <1>3, <1>7
  <2>4. QED BY <1>8, <2>1, <2>2, <2>3 DEF Ready
<1>10. QED BY <1>3, <1>9 DEF u, a

LEMMA ErasedFixup ==
  ASSUME NEW t, NEW u, NEW V, NEW n, Without(t, u, V, n), NEW m \in (V \ {n}) \cup {Null}
  PROVE  Without(t, EraseFixup(u, m), V, n)
<1>1. PICK S : HasTree(u, V \ {n}, S)
  BY DEF Without
<1>2. Rearranged(u, EraseFixup(u, m), V \ {n})
  BY <1>1, EraseFixupLemma
<1>3. SameOutside(t, EraseFixup(u, m), V)
  BY <1>2 DEF Rearranged, SameOutside, Without
<1>4. QED BY <1>2, <1>3 DEF Rearranged, Without

\* A node is taken out of the tree; the tree of the others stays one.
LEMMA EraseLemma ==
  ASSUME NEW t, NEW V, NEW S, HasTree(t, V, S), NEW n \in V
  PROVE  Without(t, Erase(t, n), V, n)
<1> DEFINE parent == t.parent[n]
           s == GetFirstNode(t, t.right[n])
           under == t.parent[s]
           child == IF t.left[n] # Null THEN t.left[n] ELSE t.right[n]
           cut == Bypassed(t, s, t.right[s], under)
           grown == [SetParent(cut, cut.right[n], s) EXCEPT !.right[s] = cut.right[n]]
           InPlace(u) == Promoted(u, t.left[n], s, parent, n, t.height[n])
<1>1. /\ t \in Trees /\ V \subseteq Elem /\ Null \notin V /\ n \in Elem
      /\ t.height[n] \in Nat
  BY TreesFields DEF HasTree, IsTree, Typed
<1>2. Erase(t, n) = IF t.left[n] # Null /\ t.right[n] # Null
                    THEN IF under = n THEN EraseFixup(InPlace(t), s)
                                      ELSE EraseFixup(InPlace(grown), under)
                    ELSE EraseFixup(Bypassed(t, n, child, parent), parent)
  BY Zenon DEF Erase, Bypassed, Promoted
<1>3. CASE t.left[n] # Null /\ t.right[n] # Null
  <2>1. Succeeds(t, V, S, n, s)
    BY <1>3, SuccessorLemma
  <2> HIDE DEF s
  <2>2. s \in V \ {n} /\ (under # n => under \in V \ {n})
    BY <2>1 DEF Succeeds
  <2>3. CASE under = n
    <3>1. Ready(t, cut, t, V, n, s)
      BY <2>1, <2>3, ReadyChild
    <3>2. Without(t, InPlace(t), V, n)
      BY <1>1, <2>1, <3>1, PromotedLemma
    <3> HIDE DEF cut, grown, InPlace
    <3>3. QED BY <1>2, <1>3, <2>2, <2>3, <3>2, ErasedFixup
  <2>4. CASE under # n
    <3>1. Ready(t, cut, grown, V, n, s)
      BY <2>1, <2>4, ReadyDeep
    <3> HIDE DEF grown
    <3>2. Without(t, InPlace(grown), V, n)
      BY <1>1, <2>1, <3>1, PromotedLemma
    <3> HIDE DEF cut, InPlace
    <3>3. QED BY <1>2, <1>3, <2>2, <2>4, <3>2, ErasedFixup
  <2>5. QED BY <2>3, <2>4
<1>4. CASE t.left[n] = Null \/ t.right[n] = Null
  <2>1. (t.left[n] = Null /\ t.right[n] = child) \/ (t.right[n] = Null /\ t.left[n] = child)
    BY <1>4
  <2>2. parent \in (V \ {n}) \cup {Null}
    <3>1. IsTree(t.root, t.left, t.right, t.parent, V, S, GetKey)
      BY DEF HasTree
    <3>2. \A m \in V : /\ t.left[m] # Null => t.left[m] # m
                       /\ t.right[m] # Null => t.right[m] # m
      BY <3>1, LeftChild, RightChild
    <3>3. n # t.root => parent \in V /\ (n = t.left[parent] \/ n = t.right[parent])
      BY <3>1 DEF IsTree, Parents
    <3>4. n = t.root => parent = Null
      BY <1>1, <3>1 DEF IsTree, Parents
    <3>5. n # t.root => parent # n
      BY <1>1, <3>2, <3>3
    <3>6. QED BY <3>3, <3>4, <3>5
  <2> DEFINE u == Bypassed(t, n, child, parent)
  <2> HIDE DEF child
  <2>3. Without(t, u, V, n)
    <3>1. HasTree(u, V \ {n}, CutSets(V, S, n)) /\ SameOutside(t, u, V)
      BY <2>1, BypassedLemma
    <3>2. QED BY <3>1 DEF Without
  <2> HIDE DEF u, parent, s
  <2>4. Erase(t, n) = EraseFixup(u, parent)
    BY <1>2, <1>4 DEF u
  <2>5. QED BY <2>2, <2>3, <2>4, ErasedFixup
<1>5. QED BY <1>3, <1>4

-----------------------------------------------------------------------------
\* Only the fields of the nodes of a tree matter to it.
LEMMA TreeFieldsOnly ==
  ASSUME NEW t, NEW V, NEW S, HasTree(t, V, S), NEW u \in Trees, u.root = t.root,
         \A x \in V : u.left[x] = t.left[x] /\ u.right[x] = t.right[x] /\ u.parent[x] = t.parent[x]
  PROVE  HasTree(u, V, S)
<1>1. /\ V \subseteq Elem /\ Null \notin V /\ t.root \in V \cup {Null}
      /\ \A n \in V : t.left[n] \in V \cup {Null} /\ t.right[n] \in V \cup {Null}
  BY DEF HasTree, IsTree, Typed
<1>2. Typed(u.root, u.left, u.right, u.parent, V, S, GetKey)
  BY <1>1, TreesFields DEF HasTree, IsTree, Typed
<1>3. Unfolds(u.left, u.right, V, S) /\ Sorted(u.left, u.right, V, S, GetKey)
  BY DEF HasTree, IsTree, Unfolds, Sorted
<1>4. Parents(u.root, u.left, u.right, u.parent, V)
  BY <1>1 DEF HasTree, IsTree, Parents
<1>5. Nested(u.root, u.parent, V, S)
  BY DEF HasTree, IsTree, Nested
<1>6. QED BY <1>2, <1>3, <1>4, <1>5 DEF HasTree, IsTree

\* The nodes outside have no links.
Loose(t, V) == \A x \in Elem \ V : t.left[x] = Null /\ t.right[x] = Null /\ t.parent[x] = Null

IsGood(t, V) == (\E S : HasTree(t, V, S)) /\ Loose(t, V)

LEMMA GoodNodes ==
  ASSUME NEW t, NEW V, IsGood(t, V)
  PROVE  Nodes(t) = V /\ t \in Trees /\ V \subseteq Elem
<1>1. PICK S : HasTree(t, V, S)
  BY DEF IsGood
<1>2. /\ V \subseteq Elem /\ Null \notin Elem /\ t.root \in V \cup {Null} /\ t \in Trees
      /\ \A n \in V : n # t.root => t.parent[n] \in V
  BY <1>1, NullAssumption DEF HasTree, IsTree, Typed, Parents
<1>3. \A x \in Elem \ V : t.parent[x] = Null
  BY DEF IsGood, Loose
<1>4. QED BY <1>2, <1>3 DEF Nodes

LEMMA GoodHeight ==
  ASSUME NEW t, NEW V, IsGood(t, V), NEW e \in Elem
  PROVE  IsGood([t EXCEPT !.height[e] = 1], V)
<1> DEFINE u == [t EXCEPT !.height[e] = 1]
<1>1. PICK S : HasTree(t, V, S)
  BY DEF IsGood
<1>2. t \in Trees
  BY <1>1 DEF HasTree
<1>3. u \in Trees /\ u.root = t.root /\ u.left = t.left /\ u.right = t.right /\ u.parent = t.parent
  BY <1>2 DEF Trees
<1> HIDE DEF u
<1>4. HasTree(u, V, S)
  BY <1>1, <1>3, TreeFieldsOnly
<1>5. Loose(u, V)
  BY <1>3 DEF IsGood, Loose
<1>6. QED BY <1>4, <1>5 DEF IsGood, u

LEMMA GoodLinked ==
  ASSUME NEW t, NEW V, IsGood(t, V), NEW e \in Elem \ V, FindNode(t, GetKey[e]) = Null
  PROVE  IsGood(Linked(t, e), V \cup {e})
<1>1. PICK S : HasTree(t, V, S)
  BY DEF IsGood
<1>2. \A x \in V : GetKey[x] # GetKey[e]
  <2>1. GetKey[e] \in Int
    BY KeyAssumption
  <2>2. {x \in V : GetKey[x] = GetKey[e]} = {FindNode(t, GetKey[e])} \ {Null}
    BY <1>1, <2>1, FindNodeLemma
  <2>3. QED BY <2>2
<1>3. t.left[e] = Null /\ t.right[e] = Null /\ t.parent[e] = Null
  BY DEF IsGood, Loose
<1>4. Rearranged(t, Linked(t, e), V \cup {e})
  BY <1>1, <1>2, <1>3, LinkedLemma
<1>5. QED BY <1>4 DEF IsGood, Loose, Rearranged, SameOutside

LEMMA UnlinkedFields ==
  ASSUME NEW t \in Trees, NEW n \in Elem, NEW h \in Nat
  PROVE  LET u == Unlinked(t, n, h)
         IN  /\ u \in Trees /\ u.root = t.root
             /\ u.left[n] = Null /\ u.right[n] = Null /\ u.parent[n] = Null
             /\ \A x \in Elem \ {n} : /\ u.left[x] = t.left[x] /\ u.right[x] = t.right[x]
                                      /\ u.parent[x] = t.parent[x]
<1> DEFINE u == Unlinked(t, n, h)
<1>1. /\ u.root = t.root /\ u.left = [t.left EXCEPT ![n] = Null]
      /\ u.right = [t.right EXCEPT ![n] = Null] /\ u.parent = [t.parent EXCEPT ![n] = Null]
      /\ u \in Trees
  BY DEF Unlinked, Trees, Links
<1> HIDE DEF u
<1>2. QED BY <1>1, TreesFields DEF u

LEMMA GoodDropped ==
  ASSUME NEW t, NEW V, IsGood(t, V), NEW e \in Elem \ V
  PROVE  IsGood(Unlinked(t, e, 0), V)
<1> DEFINE u == Unlinked(t, e, 0)
<1>1. PICK S : HasTree(t, V, S)
  BY DEF IsGood
<1>2. t \in Trees /\ V \subseteq Elem
  BY <1>1 DEF HasTree, IsTree, Typed
<1>3. /\ u \in Trees /\ u.root = t.root
      /\ u.left[e] = Null /\ u.right[e] = Null /\ u.parent[e] = Null
      /\ \A x \in Elem \ {e} : /\ u.left[x] = t.left[x] /\ u.right[x] = t.right[x]
                               /\ u.parent[x] = t.parent[x]
  BY <1>2, UnlinkedFields
<1> HIDE DEF u
<1>4. HasTree(u, V, S)
  BY <1>1, <1>2, <1>3, TreeFieldsOnly
<1>5. Loose(u, V)
  BY <1>3 DEF IsGood, Loose
<1>6. QED BY <1>4, <1>5 DEF IsGood, u

LEMMA GoodErased ==
  ASSUME NEW t, NEW V, IsGood(t, V), NEW n \in V, NEW h \in Nat
  PROVE  IsGood(Unlinked(Erase(t, n), n, h), V \ {n})
<1> DEFINE v == Erase(t, n)
           u == Unlinked(v, n, h)
<1>1. PICK S : HasTree(t, V, S)
  BY DEF IsGood
<1>2. V \subseteq Elem
  BY <1>1 DEF HasTree, IsTree, Typed
<1>3. Without(t, v, V, n)
  BY <1>1, EraseLemma
<1> HIDE DEF v
<1>4. PICK S2 : HasTree(v, V \ {n}, S2)
  BY <1>3 DEF Without
<1>5. v \in Trees /\ n \in Elem
  BY <1>2, <1>4 DEF HasTree
<1>6. /\ u \in Trees /\ u.root = v.root
      /\ u.left[n] = Null /\ u.right[n] = Null /\ u.parent[n] = Null
      /\ \A x \in Elem \ {n} : /\ u.left[x] = v.left[x] /\ u.right[x] = v.right[x]
                               /\ u.parent[x] = v.parent[x]
  BY <1>5, UnlinkedFields
<1> HIDE DEF u
<1>7. HasTree(u, V \ {n}, S2)
  BY <1>2, <1>4, <1>6, TreeFieldsOnly
<1>8. Loose(u, V \ {n})
  BY <1>3, <1>6 DEF IsGood, Loose, Without, SameOutside
<1>9. QED BY <1>7, <1>8 DEF IsGood, u, v

LEMMA GoodEmpty ==
  ASSUME NEW t \in Trees, t.root = Null, Loose(t, {})
  PROVE  IsGood(t, {})
<1> DEFINE S == [x \in {} \cup {Null} |-> {}]
<1>1. S[Null] = {} /\ S \in [{} \cup {Null} -> SUBSET {}]
  OBVIOUS
<1> HIDE DEF S
<1>2. Typed(t.root, t.left, t.right, t.parent, {}, S, GetKey)
  BY <1>1, TreesFields, KeyAssumption DEF Typed
<1>3. HasTree(t, {}, S)
  BY <1>2 DEF HasTree, IsTree, Unfolds, Sorted, Parents, Nested
<1>4. QED BY <1>3 DEF IsGood

\* A walk from the root down meets every node.
LEMMA ReachedLemma ==
  ASSUME NEW t, NEW V, NEW S, HasTree(t, V, S)
  PROVE  Reached(t) = V
<1> DEFINE pass == [T \in SUBSET Elem |->
              (T \cup {t.left[n] : n \in T} \cup {t.right[n] : n \in T}) \ {Null}]
           I == {T \in SUBSET V : {t.root} \ {Null} \subseteq T}
           mu == [T \in I |-> IF pass[T] = T THEN 0 ELSE Cardinality(V \ T)]
           start == {t.root} \ {Null}
           end == Loop(pass, start)
<1>1. Reached(t) = end
  BY DEF Reached
<1>2. /\ V \subseteq Elem /\ Null \notin V /\ t.root \in V \cup {Null}
      /\ \A n \in V : t.left[n] \in V \cup {Null} /\ t.right[n] \in V \cup {Null}
  BY DEF HasTree, IsTree, Typed
<1>3. ASSUME NEW T \in I
      PROVE  pass[T] \in I /\ T \subseteq pass[T]
             /\ \A n \in T : {t.left[n], t.right[n]} \ {Null} \subseteq pass[T]
  <2>1. T \in SUBSET Elem /\ Null \notin T
    BY <1>2
  <2>2. pass[T] = (T \cup {t.left[n] : n \in T} \cup {t.right[n] : n \in T}) \ {Null}
    BY <2>1
  <2> HIDE DEF pass
  <2>3. QED BY <1>2, <2>1, <2>2
<1>4. start \in I
  BY <1>2
<1>5. \A T \in SUBSET V : /\ IsFiniteSet(T) /\ Cardinality(T) \in Nat
                          /\ Cardinality(T) <= Cardinality(Elem)
  <2> TAKE T \in SUBSET V
  <2>1. T \in SUBSET Elem
    BY <1>2
  <2>2. QED BY <2>1, ElemAssumption, FS_Subset, FS_CardinalityType
<1> HIDE DEF pass
<1>6. \A T \in I : V \ T \in SUBSET V /\ T \in SUBSET V
  OBVIOUS
<1> HIDE DEF I
<1>7. mu \in [I -> Nat]
  BY <1>5, <1>6
<1>8. ASSUME NEW T \in I PROVE mu[pass[T]] < mu[T] \/ mu[pass[T]] = 0
  <2>1. CASE pass[T] = T
    BY <1>3, <2>1
  <2>2. CASE pass[T] # T
    <3>1. mu[T] = Cardinality(V \ T)
      BY <2>2
    <3>2. mu[pass[T]] = 0 \/ mu[pass[T]] = Cardinality(V \ pass[T])
      BY <1>3
    <3>3. PICK x \in pass[T] : x \notin T
      BY <1>3, <2>2
    <3>4. x \in V \ T /\ x \notin V \ pass[T] /\ V \ pass[T] \subseteq V \ T
      BY <1>3, <1>6, <3>3
    <3>5. IsFiniteSet(V \ T) /\ V \ T # V \ pass[T] /\ V \ pass[T] \in SUBSET (V \ T)
      BY <1>5, <1>6, <3>4
    <3>6. /\ Cardinality(V \ pass[T]) <= Cardinality(V \ T)
          /\ Cardinality(V \ T) # Cardinality(V \ pass[T])
      <4> DEFINE A == V \ T
                 B == V \ pass[T]
      <4> HIDE DEF A, B
      <4>1. IsFiniteSet(A) /\ B \in SUBSET A /\ A # B
        BY <3>5 DEF A, B
      <4>2. Cardinality(B) <= Cardinality(A) /\ (Cardinality(A) = Cardinality(B) => A = B)
        BY <4>1, FS_Subset
      <4>3. QED BY <4>1, <4>2 DEF A, B
    <3>7. Cardinality(V \ pass[T]) \in Nat /\ Cardinality(V \ T) \in Nat
      BY <1>3, <1>5, <1>6
    <3>8. QED BY <3>1, <3>2, <3>6, <3>7
  <2>3. QED BY <2>1, <2>2
<1>9. mu[start] < Passes
  <2>1. mu[start] = 0 \/ mu[start] = Cardinality(V \ start)
    BY <1>4
  <2>2. Cardinality(V \ start) \in Nat /\ Cardinality(V \ start) <= Cardinality(Elem)
    BY <1>5
  <2>3. Cardinality(Elem) \in Nat
    BY ElemAssumption, FS_CardinalityType
  <2> HIDE DEF mu, start
  <2>4. QED BY <2>1, <2>2, <2>3, PassesNat
<1>10. ASSUME NEW T \in I, mu[T] = 0 PROVE pass[T] = T
  <2> SUFFICES ASSUME pass[T] # T PROVE FALSE
    OBVIOUS
  <2>1. Cardinality(V \ T) = 0 /\ IsFiniteSet(V \ T)
    BY <1>5, <1>6, <1>10
  <2>2. V \ T = {}
    BY <2>1, FS_EmptySet
  <2>3. pass[T] \subseteq V /\ T \subseteq pass[T]
    BY <1>3, <1>6
  <2>4. QED BY <2>2, <2>3
<1> HIDE DEF mu, start
<1>11. Closed(pass, I) /\ Decreasing(pass, I, mu)
  BY <1>3, <1>8 DEF Closed, Decreasing
<1>12. end \in I /\ mu[end] = 0
  BY <1>4, <1>7, <1>9, <1>11, LoopEnds
<1> HIDE DEF end
<1>13. /\ end \subseteq V /\ {t.root} \ {Null} \subseteq end
       /\ \A n \in end : {t.left[n], t.right[n]} \ {Null} \subseteq end
  <2>1. pass[end] = end
    BY <1>10, <1>12
  <2>2. QED BY <1>3, <1>12, <2>1 DEF I
<1>14. V \ end = {}
  <2> SUFFICES ASSUME V \ end # {} PROVE FALSE
    OBVIOUS
  <2> DEFINE m == [x \in V \ end |-> Passes - Size(V, S)[x]]
  <2>1. /\ Size(V, S) \in [V \cup {Null} -> Nat]
        /\ \A x \in V \cup {Null} : Size(V, S)[x] < Passes
        /\ \A x \in V : /\ Size(V, S)[t.left[x]] < Size(V, S)[x]
                        /\ Size(V, S)[t.right[x]] < Size(V, S)[x]
    BY SizeLemma
  <2>2. m \in [V \ end -> Nat]
    BY <2>1, PassesNat
  <2>3. PICK x \in V \ end : \A y \in V \ end : m[x] <= m[y]
    <3> HIDE DEF m
    <3> QED BY <2>2, Smallest
  <2>4. x # t.root /\ t.parent[x] \in V /\ x \in {t.left[t.parent[x]], t.right[t.parent[x]]}
    BY <1>2, <1>13 DEF HasTree, IsTree, Parents
  <2> DEFINE y == t.parent[x]
  <2>5. y \in V \ end
    BY <1>2, <1>13, <2>4
  <2>6. Size(V, S)[x] < Size(V, S)[y] /\ Size(V, S)[x] \in Nat /\ Size(V, S)[y] \in Nat
    BY <2>1, <2>4
  <2>7. m[x] <= m[y]
    BY <2>3, <2>5
  <2>8. m[x] = Passes - Size(V, S)[x] /\ m[y] = Passes - Size(V, S)[y]
    BY <2>5
  <2>9. QED BY <2>6, <2>7, <2>8, PassesNat
<1>15. QED BY <1>1, <1>13, <1>14

-----------------------------------------------------------------------------
\* The inductive invariant: the links are those of a search tree of the nodes
\* linked in it, every other node has no links, and a node that a FindNode just
\* returned is in the tree.
LinksGood == IsGood(tree, Nodes(tree))
HeldApart == held \subseteq Elem \ Nodes(tree)
FoundIsIn == ret.op = "Find" /\ ret.ok => \E n \in Nodes(tree) : ret.out = {n}

AInv == LinksGood /\ HeldApart /\ FoundIsIn

LEMMA AInvFacts ==
  ASSUME AInv
  PROVE  /\ IsGood(tree, Nodes(tree)) /\ tree \in Trees /\ Nodes(tree) \subseteq Elem
         /\ \E S : HasTree(tree, Nodes(tree), S)
         /\ tree.height \in [Elem -> Nat]
BY GoodNodes, TreesFields DEF AInv, LinksGood, IsGood

\* The new tree of an action, with its nodes
LEMMA LinksGoodNext ==
  ASSUME NEW V, IsGood(tree', V)
  PROVE  LinksGood' /\ Nodes(tree') = V
BY GoodNodes DEF LinksGood

LEMMA EmptiedLemma ==
  ASSUME AInv, tree' = [EmptyTree EXCEPT !.height =
                           [n \in Elem |-> IF n \in held THEN tree.height[n] ELSE 0]]
  PROVE  IsGood(tree', {})
<1> DEFINE h == [n \in Elem |-> IF n \in held THEN tree.height[n] ELSE 0]
           e == EmptyTree
<1>1. h \in [Elem -> Nat]
  BY AInvFacts
<1> HIDE DEF h
<1>2. tree' = [EmptyTree EXCEPT !.height = h]
  BY DEF h
<1>3. /\ EmptyTree \in Trees /\ EmptyTree.root = Null
      /\ \A x \in Elem : EmptyTree.left[x] = Null /\ EmptyTree.right[x] = Null
                         /\ EmptyTree.parent[x] = Null
  BY DEF EmptyTree, Trees, Links
<1>4. /\ tree' \in Trees /\ tree'.root = EmptyTree.root /\ tree'.left = EmptyTree.left
      /\ tree'.right = EmptyTree.right /\ tree'.parent = EmptyTree.parent
  BY <1>1, <1>2, <1>3 DEF Trees
<1>5. Loose(tree', {})
  BY <1>3, <1>4 DEF Loose
<1>6. QED BY <1>3, <1>4, <1>5, GoodEmpty

LEMMA InitAInv == Init => AInv
<1> SUFFICES ASSUME Init PROVE AInv
  OBVIOUS
<1>1. /\ tree \in Trees /\ tree.root = Null
      /\ \A x \in Elem : tree.left[x] = Null /\ tree.right[x] = Null /\ tree.parent[x] = Null
  BY DEF Init, EmptyTree, Trees, Links
<1>2. IsGood(tree, {})
  BY <1>1, GoodEmpty DEF Loose
<1>3. Nodes(tree) = {}
  BY <1>2, GoodNodes
<1>4. QED BY <1>2, <1>3 DEF AInv, LinksGood, HeldApart, FoundIsIn, Init, Answer

\* What FindNode says of the tree
LEMMA FindInTree ==
  ASSUME AInv, NEW k \in Int
  PROVE  /\ FindNode(tree, k) \in Nodes(tree) \cup {Null}
         /\ {e \in Nodes(tree) : GetKey[e] = k} = {FindNode(tree, k)} \ {Null}
<1>1. PICK S : HasTree(tree, Nodes(tree), S)
  BY AInvFacts
<1>2. QED BY <1>1, FindNodeLemma

LEMMA InsertStep ==
  ASSUME AInv, NEW e \in Elem, Insert(e)
  PROVE  AInv' /\ Nodes(tree') = IF FindNode(tree, GetKey[e]) = Null
                                 THEN Nodes(tree) \cup {e} ELSE Nodes(tree)
<1> DEFINE V == Nodes(tree)
           dup == FindNode(tree, GetKey[e])
           t0 == [tree EXCEPT !.height[e] = 1]
<1>1. IsGood(tree, V) /\ V \subseteq Elem /\ tree \in Trees /\ e \notin held /\ held' = held
  BY AInvFacts DEF Insert
<1>2. ret'.op = "Insert"
  BY DEF Insert, Answer
<1> HIDE DEF V
<1>3. CASE dup = Null
  <2>1. tree' = Linked(t0, e)
    BY <1>3 DEF Insert
  <2>2. e \notin V
    <3>1. {x \in V : GetKey[x] = GetKey[e]} = {dup} \ {Null}
      BY FindInTree, KeyAssumption DEF V
    <3>2. QED BY <1>3, <3>1
  <2>3. IsGood(t0, V)
    BY <1>1, GoodHeight
  <2>4. FindNode(t0, GetKey[e]) = Null
    <3>1. t0.left = tree.left /\ t0.right = tree.right /\ t0.root = tree.root
      BY <1>1 DEF Trees
    <3> HIDE DEF t0
    <3>2. FindNode(t0, GetKey[e]) = FindNode(tree, GetKey[e])
      BY <3>1 DEF FindNode
    <3>3. QED BY <1>3, <3>2
  <2> HIDE DEF t0
  <2>5. IsGood(tree', V \cup {e})
    BY <2>1, <2>2, <2>3, <2>4, GoodLinked
  <2>6. LinksGood' /\ Nodes(tree') = V \cup {e}
    BY <2>5, LinksGoodNext
  <2>7. HeldApart' /\ FoundIsIn'
    BY <1>1, <1>2, <2>6 DEF HeldApart, FoundIsIn, AInv, V
  <2>8. QED BY <1>3, <2>6, <2>7 DEF AInv, V
<1>4. CASE dup # Null
  <2>1. tree' = tree
    BY <1>4 DEF Insert
  <2>2. QED BY <1>1, <1>2, <1>4, <2>1 DEF AInv, LinksGood, HeldApart, FoundIsIn
<1>5. QED BY <1>3, <1>4

LEMMA PushStep ==
  ASSUME AInv, NEW e \in Elem, Push(e)
  PROVE  AInv' /\ Nodes(tree') = IF FindNode(tree, GetKey[e]) = Null
                                 THEN Nodes(tree) \cup {e} ELSE Nodes(tree)
<1> DEFINE V == Nodes(tree)
           dup == FindNode(tree, GetKey[e])
<1>1. /\ IsGood(tree, V) /\ V \subseteq Elem /\ e \in held /\ e \notin V
      /\ held' = IF dup = Null THEN held \ {e} ELSE held
      /\ tree' = IF dup = Null THEN Linked(tree, e) ELSE tree
  BY AInvFacts DEF Push, AInv, HeldApart
<1>2. ret'.op = "Push"
  BY DEF Push, Answer
<1> HIDE DEF V
<1>3. CASE dup = Null
  <2>1. IsGood(tree', V \cup {e})
    BY <1>1, <1>3, GoodLinked
  <2>2. LinksGood' /\ Nodes(tree') = V \cup {e}
    BY <2>1, LinksGoodNext
  <2>3. HeldApart' /\ FoundIsIn'
    BY <1>1, <1>2, <1>3, <2>2 DEF HeldApart, FoundIsIn, AInv, V
  <2>4. QED BY <1>3, <2>2, <2>3 DEF AInv, V
<1>4. CASE dup # Null
  BY <1>1, <1>2, <1>4 DEF AInv, LinksGood, HeldApart, FoundIsIn
<1>5. QED BY <1>3, <1>4

LEMMA DropNodeStep ==
  ASSUME AInv, NEW e \in Elem, DropNode(e)
  PROVE  AInv' /\ Nodes(tree') = Nodes(tree)
<1> DEFINE V == Nodes(tree)
<1>1. /\ IsGood(tree, V) /\ e \in Elem \ V /\ held' = held \ {e} /\ ret' = ret
      /\ tree' = Unlinked(tree, e, 0)
  BY AInvFacts DEF DropNode, AInv, HeldApart
<1> HIDE DEF V
<1>2. IsGood(tree', V)
  BY <1>1, GoodDropped
<1>3. LinksGood' /\ Nodes(tree') = V
  BY <1>2, LinksGoodNext
<1>4. HeldApart' /\ FoundIsIn'
  BY <1>1, <1>3 DEF HeldApart, FoundIsIn, AInv, V
<1>5. QED BY <1>3, <1>4 DEF AInv, V

LEMMA FindStep ==
  ASSUME AInv, NEW k \in Key, Find(k)
  PROVE  AInv' /\ tree' = tree
<1>1. FindNode(tree, k) \in Nodes(tree) \cup {Null}
  BY FindInTree, KeyAssumption
<1>2. /\ tree' = tree /\ held' = held
      /\ ret'.ok = (FindNode(tree, k) # Null) /\ ret'.out = {FindNode(tree, k)} \ {Null}
  BY DEF Find, Answer
<1>3. FoundIsIn'
  BY <1>1, <1>2 DEF FoundIsIn
<1>4. QED BY <1>2, <1>3 DEF AInv, LinksGood, HeldApart

LEMMA ExtractStep ==
  ASSUME AInv, NEW k \in Key, NEW drop \in BOOLEAN, Extract(k, drop)
  PROVE  AInv' /\ Nodes(tree') = Nodes(tree) \ {FindNode(tree, k)}
<1> DEFINE V == Nodes(tree)
           n == FindNode(tree, k)
           h == IF drop THEN 0 ELSE tree.height[n]
<1>1. /\ n \in V \cup {Null} /\ IsGood(tree, V) /\ V \subseteq Elem
      /\ tree.height \in [Elem -> Nat] /\ Null \notin V
  BY FindInTree, AInvFacts, KeyAssumption, NullAssumption
<1>2. /\ tree' = IF n = Null THEN tree ELSE Unlinked(Erase(tree, n), n, h)
      /\ held' = IF n = Null \/ drop THEN held ELSE held \cup {n}
      /\ ret'.op = "Extract"
  BY DEF Extract, Answer
<1> HIDE DEF V, n
<1>3. CASE n = Null
  <2>1. tree' = tree /\ held' = held /\ V \ {n} = V
    BY <1>1, <1>2, <1>3
  <2>2. QED BY <1>2, <2>1 DEF AInv, LinksGood, HeldApart, FoundIsIn, V, n
<1>4. CASE n # Null
  <2>1. n \in V /\ h \in Nat
    BY <1>1, <1>4
  <2> HIDE DEF h
  <2>2. IsGood(tree', V \ {n})
    BY <1>1, <1>2, <1>4, <2>1, GoodErased
  <2>3. LinksGood' /\ Nodes(tree') = V \ {n}
    BY <2>2, LinksGoodNext
  <2>4. HeldApart' /\ FoundIsIn'
    BY <1>1, <1>2, <2>1, <2>3 DEF HeldApart, FoundIsIn, AInv, V
  <2>5. QED BY <2>3, <2>4 DEF AInv, V, n
<1>5. QED BY <1>3, <1>4

LEMMA EraseNodeStep ==
  ASSUME AInv, EraseNode
  PROVE  AInv' /\ Nodes(tree') = Nodes(tree) \ ret.out
<1> DEFINE V == Nodes(tree)
<1>1. PICK n \in V : ret.out = {n}
  BY DEF AInv, FoundIsIn, EraseNode
<1>2. tree' = Unlinked(Erase(tree, n), n, 0) /\ held' = held /\ ret'.op = "EraseNode"
  BY <1>1 DEF EraseNode, Answer
<1>3. IsGood(tree, V)
  BY AInvFacts
<1> HIDE DEF V
<1>4. IsGood(tree', V \ {n})
  BY <1>2, <1>3, GoodErased
<1>5. LinksGood' /\ Nodes(tree') = V \ {n}
  BY <1>4, LinksGoodNext
<1>6. HeldApart' /\ FoundIsIn'
  BY <1>2, <1>5 DEF HeldApart, FoundIsIn, AInv, V
<1>7. QED BY <1>1, <1>5, <1>6 DEF AInv, V

-----------------------------------------------------------------------------
\* The subtrees once the nodes A have been cut off
Pruned(V, S, A) == [x \in (V \ A) \cup {Null} |-> S[x] \ A]

\* The nodes with n in their subtree
Above(V, S, A, n) == {m \in V \ A : n \in S[m]}

\* Where ReuseAllNodes can be
Pruning(V, S) ==
    {s \in Cutting :
        /\ Range(s.out) \subseteq V /\ Len(s.out) = Cardinality(Range(s.out))
        /\ s.node = Null => Range(s.out) = V
        /\ s.node # Null => /\ s.node \in V \ Range(s.out)
                            /\ HasTree(s.t, V \ Range(s.out), Pruned(V, S, Range(s.out)))}

\* Passes left: a node is entered and cut, those on the way to the node at hand
\* have been entered.
PassesLeft(V, S, s) ==
    IF s.node = Null THEN 0
    ELSE 2 * Cardinality(V \ Range(s.out)) - Cardinality(Above(V, S, Range(s.out), s.node))

\* The next state when the walk enters the child c
LEMMA PruningDown ==
  ASSUME NEW V, NEW S, V \subseteq Elem, NEW s \in Pruning(V, S), s.node # Null,
         NEW c \in {s.t.left[s.node], s.t.right[s.node]}, c # Null,
         NEW u, u = [s EXCEPT !.node = c]
  PROVE  u \in Pruning(V, S) /\ PassesLeft(V, S, u) = PassesLeft(V, S, s) - 1
         /\ PassesLeft(V, S, s) \in Nat /\ PassesLeft(V, S, s) > 0
<1> DEFINE A == Range(s.out)
           W == V \ A
           S1 == Pruned(V, S, A)
           n == s.node
           up == Above(V, S, A, n)
           upc == Above(V, S, A, c)
<1>1. s \in Cutting /\ n \in W /\ HasTree(s.t, W, S1)
  BY DEF Pruning
<1>2. IsTree(s.t.root, s.t.left, s.t.right, s.t.parent, W, S1, GetKey) /\ s.t \in Trees
  BY <1>1 DEF HasTree
<1>3. c \in W /\ c # n /\ c # s.t.root /\ s.t.parent[c] = n /\ c \in S1[c] /\ n \in S1[n] /\ n \notin S1[c]
  <2>1. s.t.left[n] # Null => /\ s.t.left[n] \in W /\ s.t.left[n] # n /\ s.t.left[n] # s.t.root
                              /\ s.t.parent[s.t.left[n]] = n /\ s.t.left[n] \in S1[s.t.left[n]]
                              /\ n \in S1[n] /\ n \notin S1[s.t.left[n]]
    BY <1>1, <1>2, LeftChild
  <2>2. s.t.right[n] # Null => /\ s.t.right[n] \in W /\ s.t.right[n] # n /\ s.t.right[n] # s.t.root
                               /\ s.t.parent[s.t.right[n]] = n /\ s.t.right[n] \in S1[s.t.right[n]]
                               /\ n \in S1[n] /\ n \notin S1[s.t.right[n]]
    BY <1>1, <1>2, RightChild
  <2>3. QED BY <2>1, <2>2
<1>4. \A x, m \in W : x \in S1[m] <=> x \in S[m]
  BY DEF Pruned
<1>5. \A m \in W : c # m => (c \in S1[m] <=> n \in S1[m])
  BY <1>2, <1>3 DEF IsTree, Nested
<1>6. upc = up \cup {c} /\ c \notin up /\ n \in up /\ up \subseteq W
  <2> HIDE DEF W, S1
  <2>1. up = {m \in W : n \in S[m]} /\ upc = {m \in W : c \in S[m]}
    BY DEF Above, W
  <2>2. QED BY <1>1, <1>3, <1>4, <1>5, <2>1
<1>7. /\ IsFiniteSet(W) /\ IsFiniteSet(up) /\ Cardinality(up) <= Cardinality(W)
      /\ Cardinality(W) \in Nat /\ Cardinality(up) \in Nat /\ Cardinality(up) > 0
  <2>1. W \in SUBSET Elem /\ up \in SUBSET W
    BY <1>6
  <2> HIDE DEF W, up
  <2>2. IsFiniteSet(W)
    BY <2>1, ElemAssumption, FS_Subset
  <2>3. IsFiniteSet(up) /\ Cardinality(up) <= Cardinality(W)
    BY <2>1, <2>2, FS_Subset
  <2>4. Cardinality(up) \in Nat /\ Cardinality(W) \in Nat
    BY <2>2, <2>3, FS_CardinalityType
  <2>5. Cardinality(up) # 0
    BY <1>6, <2>3, FS_EmptySet
  <2>6. QED BY <2>2, <2>3, <2>4, <2>5
<1>8. Cardinality(upc) = Cardinality(up) + 1
  <2> HIDE DEF up, upc
  <2> QED BY <1>6, <1>7, FS_AddElement
<1>9. u \in Cutting /\ u.node = c /\ u.t = s.t /\ u.out = s.out
  BY <1>1, <1>3 DEF Cutting, Links
<1>10. u \in Pruning(V, S)
  BY <1>1, <1>3, <1>9 DEF Pruning
<1>11. PassesLeft(V, S, s) = 2 * Cardinality(W) - Cardinality(up)
  BY DEF PassesLeft
<1>12. PassesLeft(V, S, u) = 2 * Cardinality(W) - Cardinality(upc)
  BY <1>9 DEF PassesLeft
<1> HIDE DEF W, up, upc
<1>13. QED BY <1>7, <1>8, <1>10, <1>11, <1>12

\* The next state when the leaf at hand is cut off
LEMMA PruningCut ==
  ASSUME NEW V, NEW S, V \subseteq Elem, NEW s \in Pruning(V, S), s.node # Null,
         s.t.left[s.node] = Null, s.t.right[s.node] = Null,
         NEW p, p = s.t.parent[s.node],
         NEW u, u = [node |-> p,
                     t    |-> IF p = Null THEN s.t ELSE ChildPlace(s.t, s.node, Null, p),
                     out  |-> Append(s.out, s.node)]
  PROVE  u \in Pruning(V, S) /\ PassesLeft(V, S, s) \in Nat /\ PassesLeft(V, S, s) > 0
         /\ (PassesLeft(V, S, u) = PassesLeft(V, S, s) - 1 \/ PassesLeft(V, S, u) = 0)
<1> DEFINE A == Range(s.out)
           W == V \ A
           S1 == Pruned(V, S, A)
           n == s.node
           t1 == IF p = Null THEN s.t ELSE ChildPlace(s.t, n, Null, p)
           A2 == A \cup {n}
           W2 == V \ A2
           up == Above(V, S, A, n)
           up2 == Above(V, S, A2, p)
<1>1. /\ s \in Cutting /\ n \in W /\ HasTree(s.t, W, S1) /\ A \subseteq V
      /\ Len(s.out) = Cardinality(A) /\ s.out \in Seq(Elem) /\ s.t \in Trees
  BY DEF Pruning, Cutting
<1>2. /\ IsTree(s.t.root, s.t.left, s.t.right, s.t.parent, W, S1, GetKey) /\ n \in Elem
      /\ Null \notin Elem /\ Null \in Links
  BY <1>1, NullAssumption DEF HasTree, Links
<1>3. /\ Append(s.out, n) \in Seq(Elem) /\ Range(Append(s.out, n)) = A2
      /\ Len(Append(s.out, n)) = Len(s.out) + 1
  <2>1. /\ Append(s.out, n) \in Seq(Elem) /\ Len(Append(s.out, n)) = Len(s.out) + 1
        /\ \A i \in 1 .. Len(s.out) : Append(s.out, n)[i] = s.out[i]
        /\ Append(s.out, n)[Len(s.out) + 1] = n
        /\ DOMAIN Append(s.out, n) = 1 .. Len(s.out) + 1 /\ DOMAIN s.out = 1 .. Len(s.out)
        /\ Len(s.out) \in Nat
    BY <1>1, <1>2
  <2> DEFINE o == s.out
             q == Append(s.out, n)
             l == Len(s.out)
  <2> HIDE DEF o, q, l, n
  <2>2. /\ l \in Nat /\ DOMAIN q = 1 .. l + 1 /\ DOMAIN o = 1 .. l /\ q[l + 1] = n
        /\ \A i \in 1 .. l : q[i] = o[i]
    BY <2>1 DEF o, q, l
  <2>3. {q[i] : i \in DOMAIN q} = {o[i] : i \in DOMAIN o} \cup {n}
    <3>1. \A i \in DOMAIN q : i \in DOMAIN o \/ i = l + 1
      BY <2>2
    <3>2. \A i \in DOMAIN o : i \in DOMAIN q
      BY <2>2
    <3>3. l + 1 \in DOMAIN q
      BY <2>2
    <3>4. QED BY <2>2, <3>1, <3>2, <3>3
  <2>4. Range(q) = Range(o) \cup {n}
    BY <2>3 DEF Range
  <2>5. QED BY <2>1, <2>4 DEF o, q, n
<1>4. /\ IsFiniteSet(A) /\ IsFiniteSet(W) /\ Cardinality(A) \in Nat /\ Cardinality(W) \in Nat
      /\ W \in SUBSET Elem
  <2>1. A \in SUBSET Elem /\ W \in SUBSET Elem
    BY <1>1
  <2> HIDE DEF A, W
  <2>2. QED BY <2>1, ElemAssumption, FS_Subset, FS_CardinalityType
<1>5. Cardinality(A2) = Cardinality(A) + 1
  BY <1>1, <1>4, FS_AddElement
<1>6. W2 = W \ {n} /\ Cardinality(W2) = Cardinality(W) - 1
  <2>1. W2 = W \ {n}
    OBVIOUS
  <2> HIDE DEF W, W2, n
  <2>2. QED BY <1>1, <1>4, <2>1, FS_RemoveElement
<1>7. S1[n] = {n} /\ n \in S1[n]
  <2>1. S1[n] = {n} \cup S1[Null] \cup S1[Null] /\ S1[Null] = {}
    BY <1>1, <1>2 DEF IsTree, Unfolds, Typed
  <2>2. QED BY <2>1
<1>8. \A x, m \in W : x \in S1[m] <=> x \in S[m]
  BY DEF Pruned
<1>9. n \in up /\ up \subseteq W
  BY <1>1, <1>7, <1>8 DEF Above
<1>10. IsFiniteSet(up) /\ Cardinality(up) <= Cardinality(W) /\ Cardinality(up) \in Nat /\ Cardinality(up) > 0
  <2>1. up \in SUBSET W
    BY <1>9
  <2> HIDE DEF W, up
  <2>2. IsFiniteSet(up) /\ Cardinality(up) <= Cardinality(W)
    BY <1>4, <2>1, FS_Subset
  <2>3. Cardinality(up) \in Nat /\ Cardinality(up) # 0
    BY <1>9, <2>2, FS_CardinalityType, FS_EmptySet
  <2>4. QED BY <2>2, <2>3
<1>11. PassesLeft(V, S, s) = 2 * Cardinality(W) - Cardinality(up)
  BY DEF PassesLeft
<1>12. PassesLeft(V, S, s) \in Nat /\ PassesLeft(V, S, s) > 0
  <2> HIDE DEF W, up
  <2> QED BY <1>4, <1>10, <1>11
<1>13. u.node = p /\ u.t = t1 /\ u.out = Append(s.out, n) /\ Range(u.out) = A2 /\ Len(u.out) = Cardinality(A2)
  <2>1. u.node = p /\ u.t = t1 /\ u.out = Append(s.out, n)
    OBVIOUS
  <2>2. Range(u.out) = A2
    BY <1>3
  <2>3. Len(u.out) = Len(s.out) + 1 /\ Len(s.out) = Cardinality(A)
    BY <1>1
  <2>4. QED BY <1>5, <2>1, <2>2, <2>3
<1>14. CASE p = Null
  <2>1. n = s.t.root
    <3>1. \A x \in W : x # s.t.root => s.t.parent[x] \in W
      BY <1>2 DEF IsTree, Parents
    <3>2. Null \notin W
      BY <1>2 DEF IsTree, Typed
    <3>3. QED BY <1>1, <1>14, <3>1, <3>2
  <2>2. W = {n}
    BY <1>2, <1>7, <2>1 DEF IsTree, Typed
  <2>3. A2 = V
    BY <1>1, <2>2
  <2>4. u \in Cutting
    <3>1. t1 = s.t /\ p \in Links
      BY <1>2, <1>14
    <3>2. QED BY <1>1, <1>3, <3>1 DEF Cutting
  <2> HIDE DEF A2, W
  <2>5. u \in Pruning(V, S)
    BY <1>13, <1>14, <2>3, <2>4 DEF Pruning
  <2>6. PassesLeft(V, S, u) = 0
    BY <1>13, <1>14 DEF PassesLeft
  <2>7. QED BY <1>12, <2>5, <2>6
<1>15. CASE p # Null
  <2>1. t1 = Bypassed(s.t, n, Null, s.t.parent[n])
    BY <1>15 DEF Bypassed, SetParent
  <2>2. HasTree(t1, W \ {n}, CutSets(W, S1, n))
    <3> HIDE DEF t1, W, S1, n
    <3> QED BY <1>1, <2>1, BypassedLemma DEF n
  <2> HIDE DEF t1
  <2>3. CutSets(W, S1, n) = Pruned(V, S, A2)
    <3>1. (W \ {n}) \cup {Null} = (V \ A2) \cup {Null}
      OBVIOUS
    <3>2. \A x \in (W \ {n}) \cup {Null} : S1[x] \ {n} = S[x] \ A2
      BY DEF Pruned
    <3> HIDE DEF S1, A2, W
    <3>3. QED BY <3>1, <3>2 DEF CutSets, Pruned
  <2>4. p \in W /\ p # n /\ n # s.t.root
    <3>1. n # s.t.root /\ p \in W /\ (n = s.t.left[p] \/ n = s.t.right[p])
      BY <1>1, <1>2, <1>15 DEF IsTree, Parents, Typed
    <3>2. p # n
      BY <1>2, <3>1
    <3>3. QED BY <3>1, <3>2
  <2>5. HasTree(t1, W2, Pruned(V, S, A2)) /\ p \in W2 /\ A2 \subseteq V
    BY <1>1, <1>6, <2>2, <2>3, <2>4
  <2>6. u \in Cutting
    <3>1. t1 \in Trees /\ p \in Links
      BY <1>4, <2>2, <2>4 DEF HasTree, Links
    <3>2. u = [node |-> p, t |-> t1, out |-> Append(s.out, n)]
      BY DEF t1
    <3>3. QED BY <1>3, <3>1, <3>2 DEF Cutting
  <2>7. u \in Pruning(V, S)
    <3> HIDE DEF A2
    <3> QED BY <1>13, <1>15, <2>5, <2>6 DEF Pruning
  <2>8. up2 = up \ {n}
    <3>1. \A m \in W : n # m => (n \in S1[m] <=> p \in S1[m])
      BY <1>1, <1>2, <2>4 DEF IsTree, Nested
    <3>2. up = {m \in W : n \in S[m]} /\ up2 = {m \in W \ {n} : p \in S[m]}
      BY DEF Above
    <3> HIDE DEF W, S1, up, up2
    <3>3. QED BY <1>1, <1>8, <2>4, <3>1, <3>2
  <2>9. Cardinality(up2) = Cardinality(up) - 1
    <3> HIDE DEF up, up2
    <3> QED BY <1>9, <1>10, <2>8, FS_RemoveElement
  <2>10. PassesLeft(V, S, u) = 2 * Cardinality(W2) - Cardinality(up2)
    <3> HIDE DEF A2
    <3> QED BY <1>13, <1>15 DEF PassesLeft
  <2> HIDE DEF W, W2, up, up2
  <2>11. PassesLeft(V, S, u) = PassesLeft(V, S, s) - 1
    BY <1>4, <1>6, <1>10, <1>11, <2>9, <2>10
  <2>12. QED BY <1>12, <2>7, <2>11
<1>16. QED BY <1>14, <1>15

\* Every node goes to the callback, once.
LEMMA ReuseLemma ==
  ASSUME NEW t, NEW V, NEW S, HasTree(t, V, S)
  PROVE  /\ Range(ReuseAllNodes(t)) = V
         /\ Len(ReuseAllNodes(t)) = Cardinality(Range(ReuseAllNodes(t)))
<1> DEFINE pass == [s \in Cutting |->
              LET n == s.node
                  p == s.t.parent[n]
              IN  IF n = Null THEN s
                  ELSE IF s.t.left[n] # Null THEN [s EXCEPT !.node = s.t.left[n]]
                  ELSE IF s.t.right[n] # Null THEN [s EXCEPT !.node = s.t.right[n]]
                  ELSE [node |-> p,
                        t    |-> IF p = Null THEN s.t ELSE ChildPlace(s.t, n, Null, p),
                        out  |-> Append(s.out, n)]]
           I == Pruning(V, S)
           mu == [s \in I |-> PassesLeft(V, S, s)]
           start == [node |-> t.root, t |-> t, out |-> <<>>]
           half == Loop(pass, start)
           end == Loop(pass, half)
<1>1. ReuseAllNodes(t) = end.out
  BY Zenon DEF ReuseAllNodes
<1>2. /\ V \subseteq Elem /\ Null \notin V /\ t \in Trees /\ t.root \in V \cup {Null} /\ S[t.root] = V
      /\ S \in [V \cup {Null} -> SUBSET V] /\ S[Null] = {}
  BY DEF HasTree, IsTree, Typed
<1>3. ASSUME NEW s \in I
      PROVE  /\ pass[s] \in I /\ PassesLeft(V, S, s) \in Nat
             /\ s.node = Null => PassesLeft(V, S, s) = 0
             /\ s.node # Null => PassesLeft(V, S, s) > 0
             /\ PassesLeft(V, S, pass[s]) < PassesLeft(V, S, s) \/ PassesLeft(V, S, pass[s]) = 0
  <2>1. s \in Cutting
    BY DEF Pruning
  <2>2. CASE s.node = Null
    <3>1. pass[s] = s
      BY <2>1, <2>2
    <3>2. PassesLeft(V, S, s) = 0
      BY <2>2 DEF PassesLeft
    <3> HIDE DEF pass
    <3>3. QED BY <2>2, <3>1, <3>2
  <2>3. CASE s.node # Null /\ s.t.left[s.node] # Null
    <3> DEFINE u == [s EXCEPT !.node = s.t.left[s.node]]
    <3>1. pass[s] = u
      BY <2>1, <2>3
    <3>2. u \in I /\ PassesLeft(V, S, u) = PassesLeft(V, S, s) - 1
          /\ PassesLeft(V, S, s) \in Nat /\ PassesLeft(V, S, s) > 0
      BY <1>2, <2>3, PruningDown
    <3> HIDE DEF pass, u, I
    <3>3. QED BY <2>3, <3>1, <3>2
  <2>4. CASE s.node # Null /\ s.t.left[s.node] = Null /\ s.t.right[s.node] # Null
    <3> DEFINE u == [s EXCEPT !.node = s.t.right[s.node]]
    <3>1. pass[s] = u
      BY <2>1, <2>4
    <3>2. u \in I /\ PassesLeft(V, S, u) = PassesLeft(V, S, s) - 1
          /\ PassesLeft(V, S, s) \in Nat /\ PassesLeft(V, S, s) > 0
      BY <1>2, <2>4, PruningDown
    <3> HIDE DEF pass, u, I
    <3>3. QED BY <2>4, <3>1, <3>2
  <2>5. CASE s.node # Null /\ s.t.left[s.node] = Null /\ s.t.right[s.node] = Null
    <3> DEFINE p == s.t.parent[s.node]
               u == [node |-> p,
                     t    |-> IF p = Null THEN s.t ELSE ChildPlace(s.t, s.node, Null, p),
                     out  |-> Append(s.out, s.node)]
    <3>1. pass[s] = u
      BY <2>1, <2>5
    <3> HIDE DEF pass
    <3>2. u \in I /\ PassesLeft(V, S, s) \in Nat /\ PassesLeft(V, S, s) > 0
          /\ (PassesLeft(V, S, u) = PassesLeft(V, S, s) - 1 \/ PassesLeft(V, S, u) = 0)
      BY <1>2, <2>5, PruningCut
    <3> HIDE DEF u, I
    <3>3. QED BY <2>5, <3>1, <3>2
  <2>6. QED BY <2>2, <2>3, <2>4, <2>5
<1>4. Range(<<>>) = {} /\ Len(<<>>) = 0 /\ <<>> \in Seq(Elem) /\ Cardinality({}) = 0
  BY FS_EmptySet DEF Range
<1>5. start \in I
  <2>1. start \in Cutting /\ start.node = t.root /\ start.t = t /\ start.out = <<>>
    BY <1>2, <1>4 DEF Cutting, Links
  <2>2. Pruned(V, S, {}) = S /\ V \ {} = V
    <3>1. \A x \in V \cup {Null} : S[x] \ {} = S[x]
      OBVIOUS
    <3>2. QED BY <1>2, <3>1 DEF Pruned
  <2>3. t.root = Null => V = {}
    BY <1>2
  <2> HIDE DEF start
  <2>4. QED BY <1>2, <1>4, <2>1, <2>2, <2>3 DEF Pruning
<1>6. PassesLeft(V, S, start) < 2 * Passes
  <2>1. start.node = t.root /\ start.out = <<>> /\ V \ {} = V
    OBVIOUS
  <2>2. CASE t.root = Null
    BY <2>1, <2>2, PassesNat DEF PassesLeft
  <2>3. CASE t.root # Null
    <3> DEFINE B == Above(V, S, {}, t.root)
    <3>1. PassesLeft(V, S, start) = 2 * Cardinality(V) - Cardinality(B)
      BY <1>4, <2>1, <2>3 DEF PassesLeft
    <3>2. V \in SUBSET Elem /\ B \in SUBSET Elem
      BY <1>2 DEF Above
    <3> HIDE DEF B
    <3>3. /\ Cardinality(V) \in Nat /\ Cardinality(V) <= Cardinality(Elem)
          /\ Cardinality(B) \in Nat /\ Cardinality(Elem) \in Nat
      BY <3>2, ElemAssumption, FS_Subset, FS_CardinalityType
    <3>4. QED BY <3>1, <3>3, PassesNat
  <2>4. QED BY <2>2, <2>3
<1> HIDE DEF pass, start, I
<1>7. mu \in [I -> Nat]
  BY <1>3
<1>8. \A s \in I : mu[pass[s]] < mu[s] \/ mu[pass[s]] = 0
  BY <1>3
<1>9. \A s \in I : mu[s] = PassesLeft(V, S, s)
  OBVIOUS
<1> HIDE DEF mu
<1>10. Closed(pass, I) /\ Decreasing(pass, I, mu)
  BY <1>3, <1>8 DEF Closed, Decreasing
<1>11. half \in I /\ mu[half] < Passes
  <2>1. half \in I
    BY <1>5, <1>10, LoopInvariant
  <2>2. mu[half] = 0 \/ mu[half] <= mu[start] - Passes
    BY <1>5, <1>7, <1>10, LoopMeasure
  <2>3. mu[half] \in Nat /\ mu[start] \in Nat /\ mu[start] < 2 * Passes
    BY <1>5, <1>6, <1>7, <1>9, <2>1
  <2> HIDE DEF half
  <2>4. Passes > 0
    BY PassesNat, ElemAssumption, FS_CardinalityType
  <2>5. QED BY <2>1, <2>2, <2>3, <2>4, PassesNat
<1> HIDE DEF half
<1>12. end \in I /\ mu[end] = 0
  BY <1>7, <1>10, <1>11, LoopEnds
<1> HIDE DEF end
<1>13. end.node = Null
  BY <1>3, <1>9, <1>12
<1>14. Range(end.out) = V /\ Len(end.out) = Cardinality(Range(end.out))
  BY <1>12, <1>13 DEF I, Pruning
<1>15. QED BY <1>1, <1>14

-----------------------------------------------------------------------------
LEMMA ReuseInTree ==
  ASSUME AInv
  PROVE  /\ Range(ReuseAllNodes(tree)) = Nodes(tree)
         /\ Len(ReuseAllNodes(tree)) = Cardinality(Range(ReuseAllNodes(tree)))
<1>1. PICK S : HasTree(tree, Nodes(tree), S)
  BY AInvFacts
<1>2. QED BY <1>1, ReuseLemma

LEMMA ClearStep ==
  ASSUME AInv, NEW op \in {"Clear", "ClearApply"}, Clear(op)
  PROVE  AInv' /\ Nodes(tree') = {}
<1>1. IsGood(tree', {})
  BY EmptiedLemma DEF Clear
<1>2. LinksGood' /\ Nodes(tree') = {}
  BY <1>1, LinksGoodNext
<1>3. held' = held /\ held \subseteq Elem /\ ret'.op = op
  BY DEF Clear, Answer, AInv, HeldApart
<1>4. HeldApart' /\ FoundIsIn'
  BY <1>2, <1>3 DEF HeldApart, FoundIsIn
<1>5. QED BY <1>2, <1>4 DEF AInv

LEMMA TakeAllStep ==
  ASSUME AInv, TakeAll
  PROVE  AInv' /\ Nodes(tree') = {}
<1>1. IsGood(tree', {})
  BY EmptiedLemma DEF TakeAll
<1>2. LinksGood' /\ Nodes(tree') = {}
  BY <1>1, LinksGoodNext
<1>3. held' = held \cup Nodes(tree) /\ held \subseteq Elem /\ ret'.op = "ClearApply"
  BY ReuseInTree DEF TakeAll, Answer, AInv, HeldApart
<1>4. Nodes(tree) \subseteq Elem
  BY AInvFacts
<1>5. HeldApart' /\ FoundIsIn'
  BY <1>2, <1>3, <1>4 DEF HeldApart, FoundIsIn
<1>6. QED BY <1>2, <1>5 DEF AInv

LEMMA NextAInv == AInv /\ [Next]_vars => AInv'
<1> SUFFICES ASSUME AInv, [Next]_vars PROVE AInv'
  OBVIOUS
<1>1. CASE UNCHANGED vars
  BY <1>1 DEF vars, AInv, LinksGood, HeldApart, FoundIsIn
<1>2. ASSUME NEW e \in Elem, Insert(e) PROVE AInv'
  BY <1>2, InsertStep
<1>3. ASSUME NEW e \in Elem, Push(e) PROVE AInv'
  BY <1>3, PushStep
<1>4. ASSUME NEW e \in Elem, DropNode(e) PROVE AInv'
  BY <1>4, DropNodeStep
<1>5. ASSUME NEW k \in Key, Find(k) PROVE AInv'
  BY <1>5, FindStep
<1>6. ASSUME NEW k \in Key, NEW drop \in BOOLEAN, Extract(k, drop) PROVE AInv'
  BY <1>6, ExtractStep
<1>7. CASE EraseNode
  BY <1>7, EraseNodeStep
<1>8. CASE TakeAll
  BY <1>8, TakeAllStep
<1>9. ASSUME NEW op \in {"Clear", "ClearApply"}, Clear(op) PROVE AInv'
  BY <1>9, ClearStep
<1>10. QED BY <1>1, <1>2, <1>3, <1>4, <1>5, <1>6, <1>7, <1>8, <1>9 DEF Next

\* The inductive invariant holds in every reachable state.
THEOREM AInvCorrect == Spec => []AInv
<1>1. Init => AInv
  BY InitAInv
<1>2. AInv /\ [Next]_vars => AInv'
  BY NextAInv
<1>3. QED BY <1>1, <1>2, PTL DEF Spec

LEMMA WellLinkedNow == AInv => WellLinked
<1> SUFFICES ASSUME AInv PROVE WellLinked
  OBVIOUS
<1> DEFINE t == tree
           V == Nodes(tree)
<1>1. PICK S : HasTree(t, V, S)
  BY AInvFacts
<1>2. held \subseteq Elem \ V /\ Loose(t, V)
  BY DEF AInv, HeldApart, LinksGood, IsGood
<1> HIDE DEF V, t
<1>3. V = Reached(t)
  BY <1>1, ReachedLemma
<1>4. IsTree(t.root, t.left, t.right, t.parent, V, S, GetKey)
  BY <1>1 DEF HasTree
<1>5. t.root # Null => t.parent[t.root] = Null
  BY <1>4 DEF IsTree, Parents
<1>6. ASSUME NEW n \in V
      PROVE  /\ \A c \in {t.left[n], t.right[n]} \ {Null} : t.parent[c] = n
             /\ t.left[n] = t.right[n] => t.left[n] = Null
             /\ n # t.root => n \in {t.left[t.parent[n]], t.right[t.parent[n]]}
  <2>1. \A c \in {t.left[n], t.right[n]} \ {Null} : t.parent[c] = n
    BY <1>4 DEF IsTree, Parents
  <2>2. t.left[n] = t.right[n] => t.left[n] = Null
    BY <1>4, LeftChild
  <2>3. n # t.root => n \in {t.left[t.parent[n]], t.right[t.parent[n]]}
    BY <1>4 DEF IsTree, Parents
  <2>4. QED BY <2>1, <2>2, <2>3
<1>7. \A n \in Elem \ V : {t.left[n], t.right[n], t.parent[n]} = {Null}
  BY <1>2 DEF Loose
<1>8. QED BY <1>2, <1>3, <1>5, <1>6, <1>7 DEF WellLinked, V, t

\* After any sequence of calls, rotations and relinking, every linked node is
\* reached from the root, parent and child links agree, and no link leads into or
\* out of a node that is not in the tree.
THEOREM WellLinkedCorrect == Spec => []WellLinked
<1>1. QED BY AInvCorrect, WellLinkedNow, PTL

\* What Bound returns is what the least node above a key is.
LEMMA LeastIs ==
  ASSUME NEW t, NEW V, NEW S, HasTree(t, V, S), NEW W \in SUBSET V, NEW b,
         IF W = {} THEN b = Null
         ELSE b \in W /\ \A e \in W : GetKey[b] <= GetKey[e]
  PROVE  b = IF W = {} THEN Null
             ELSE CHOOSE n \in W : \A m \in W : GetKey[n] <= GetKey[m]
<1>1. CASE W = {}
  BY <1>1
<1>2. CASE W # {}
  <2> DEFINE c == CHOOSE n \in W : \A m \in W : GetKey[n] <= GetKey[m]
  <2>1. b \in W /\ \A e \in W : GetKey[b] <= GetKey[e]
    BY <1>2
  <2>2. c \in W /\ \A m \in W : GetKey[c] <= GetKey[m]
    BY <2>1
  <2> HIDE DEF c
  <2>3. \A x \in V : GetKey[x] \in Int
    BY KeyAssumption DEF HasTree, IsTree, Typed
  <2>4. GetKey[b] = GetKey[c]
    BY <2>1, <2>2, <2>3
  <2>5. b = c
    BY <2>1, <2>2, <2>4, KeysDistinct
  <2>6. QED BY <1>2, <2>5 DEF c
<1>3. QED BY <1>1, <1>2

LEMMA BoundsExactNow == AInv => BoundsExact
<1> SUFFICES ASSUME AInv, NEW k \in Key
             PROVE  LET Least(S) == IF S = {} THEN Null
                                    ELSE CHOOSE n \in S : \A m \in S : GetKey[n] <= GetKey[m]
                    IN  /\ LowerBound(tree, k) = Least({n \in Nodes(tree) : GetKey[n] >= k})
                        /\ UpperBound(tree, k) = Least({n \in Nodes(tree) : GetKey[n] > k})
  BY DEF BoundsExact
<1> DEFINE V == Nodes(tree)
           from == {j \in Key : j >= k}
           past == {j \in Key : j > k}
           W1 == {n \in V : GetKey[n] >= k}
           W2 == {n \in V : GetKey[n] > k}
<1>1. PICK S : HasTree(tree, V, S)
  BY AInvFacts
<1>2. V \subseteq Elem /\ k \in Int /\ Key \subseteq Int /\ \A x \in Elem : GetKey[x] \in Key
  BY AInvFacts, KeyAssumption
<1>3. FromOn(from) /\ FromOn(past)
  BY <1>2 DEF FromOn
<1>4. W1 = {e \in V : GetKey[e] \in from} /\ W2 = {e \in V : GetKey[e] \in past}
  BY <1>2
<1>5. LowerBound(tree, k) = Bound(tree, from) /\ UpperBound(tree, k) = Bound(tree, past)
  BY DEF LowerBound, UpperBound
<1> HIDE DEF V, from, past
<1>6. IsLeast(Bound(tree, from), V, from) /\ IsLeast(Bound(tree, past), V, past)
  BY <1>1, <1>3, BoundLemma
<1>7. /\ IF W1 = {} THEN LowerBound(tree, k) = Null
         ELSE LowerBound(tree, k) \in W1 /\ \A e \in W1 : GetKey[LowerBound(tree, k)] <= GetKey[e]
      /\ IF W2 = {} THEN UpperBound(tree, k) = Null
         ELSE UpperBound(tree, k) \in W2 /\ \A e \in W2 : GetKey[UpperBound(tree, k)] <= GetKey[e]
  <2> HIDE DEF W1, W2
  <2> QED BY <1>4, <1>5, <1>6 DEF IsLeast
<1>8. W1 \in SUBSET V /\ W2 \in SUBSET V
  OBVIOUS
<1> HIDE DEF W1, W2
<1>9. LowerBound(tree, k) = IF W1 = {} THEN Null
                            ELSE CHOOSE n \in W1 : \A m \in W1 : GetKey[n] <= GetKey[m]
  BY <1>1, <1>7, <1>8, LeastIs
<1>10. UpperBound(tree, k) = IF W2 = {} THEN Null
                             ELSE CHOOSE n \in W2 : \A m \in W2 : GetKey[n] <= GetKey[m]
  BY <1>1, <1>7, <1>8, LeastIs
<1>11. QED BY <1>9, <1>10 DEF W1, W2, V

\* LowerBound and UpperBound return the least node at or above a key, and the
\* least node above it.
THEOREM BoundsExactCorrect == Spec => []BoundsExact
<1>1. QED BY AInvCorrect, BoundsExactNow, PTL

-----------------------------------------------------------------------------
\* The steps of the set that the caller sees
LEMMA AbstractKeyed ==
  ASSUME AInv, NEW k \in Int
  PROVE  /\ KS!WithKey(Nodes(tree), k) = {FindNode(tree, k)} \ {Null}
         /\ (KS!WithKey(Nodes(tree), k) = {}) <=> (FindNode(tree, k) = Null)
         /\ FindNode(tree, k) # Null =>
               KS!WithKey(Nodes(tree), k) = {FindNode(tree, k)}
BY FindInTree DEF KS!WithKey

LEMMA AbstractInsert ==
  ASSUME AInv, NEW e \in Elem, Insert(e)
  PROVE  KS!Insert(e)
<1> DEFINE dup == FindNode(tree, GetKey[e])
           V == Nodes(tree)
           W == KS!WithKey(Nodes(tree), GetKey[e])
<1>1. W = {dup} \ {Null} /\ (W = {} <=> dup = Null) /\ (dup # Null => W = {dup})
  BY AbstractKeyed, KeyAssumption
<1>2. Nodes(tree') = IF dup = Null THEN V \cup {e} ELSE V
  BY InsertStep
<1>3. ret' = IF dup = Null THEN Answer("Insert", TRUE, {e}) ELSE Answer("Insert", FALSE, {dup})
  BY DEF Insert
<1> HIDE DEF W, dup
<1>4. QED BY <1>1, <1>2, <1>3 DEF KS!Insert, KS!Answer, Answer, W

LEMMA AbstractPush ==
  ASSUME AInv, NEW e \in Elem, Push(e)
  PROVE  KS!Push(e)
<1> DEFINE dup == FindNode(tree, GetKey[e])
           V == Nodes(tree)
           W == KS!WithKey(Nodes(tree), GetKey[e])
<1>1. W = {} <=> dup = Null
  BY AbstractKeyed, KeyAssumption
<1>2. Nodes(tree') = IF dup = Null THEN V \cup {e} ELSE V
  BY PushStep
<1>3. ret' = Answer("Push", dup = Null, {})
  BY DEF Push
<1>4. (W = {}) = (dup = Null)
  BY <1>1
<1> HIDE DEF W, dup
<1>5. QED BY <1>1, <1>2, <1>3, <1>4 DEF KS!Push, KS!Answer, Answer, W

LEMMA AbstractFind ==
  ASSUME AInv, NEW k \in Key, Find(k)
  PROVE  KS!Find(k)
<1> DEFINE n == FindNode(tree, k)
           W == KS!WithKey(Nodes(tree), k)
<1>1. W = {n} \ {Null} /\ (W = {} <=> n = Null)
  BY AbstractKeyed, KeyAssumption
<1>2. Nodes(tree') = Nodes(tree) /\ ret' = Answer("Find", n # Null, {n} \ {Null})
  BY DEF Find
<1>3. (W # {}) = (n # Null)
  BY <1>1
<1> HIDE DEF W, n
<1>4. QED BY <1>1, <1>2, <1>3 DEF KS!Find, KS!Answer, Answer, W

LEMMA AbstractExtract ==
  ASSUME AInv, NEW k \in Key, NEW drop \in BOOLEAN, Extract(k, drop)
  PROVE  KS!Extract(k)
<1> DEFINE n == FindNode(tree, k)
           V == Nodes(tree)
           W == KS!WithKey(Nodes(tree), k)
<1>1. W = {n} \ {Null} /\ (W = {} <=> n = Null)
  BY AbstractKeyed, KeyAssumption
<1>2. Nodes(tree') = V \ {n} /\ ret' = Answer("Extract", n # Null, {n} \ {Null})
  BY ExtractStep DEF Extract
<1>3. Null \notin V
  BY AInvFacts, NullAssumption
<1>4. (W # {}) = (n # Null) /\ V \ {n} = V \ W
  BY <1>1, <1>3
<1> HIDE DEF W, n
<1>5. QED BY <1>1, <1>2, <1>4 DEF KS!Extract, KS!Answer, Answer, W

LEMMA AbstractEraseNode ==
  ASSUME AInv, EraseNode
  PROVE  KS!EraseNode
<1>1. Nodes(tree') = Nodes(tree) \ ret.out
  BY EraseNodeStep
<1>2. QED BY <1>1 DEF EraseNode, KS!EraseNode, KS!Answer, Answer

LEMMA AbstractClear ==
  ASSUME AInv, NEW op \in {"Clear", "ClearApply"}, Clear(op)
  PROVE  KS!Clear \/ KS!ClearApply
<1> DEFINE out == ReuseAllNodes(tree)
<1>1. Nodes(tree') = {}
  BY ClearStep
<1>2. Range(out) = Nodes(tree) /\ Len(out) = Cardinality(Range(out))
  BY ReuseInTree
<1>3. ret' = Answer(op, Len(out) = Cardinality(Range(out)), IF op = "Clear" THEN {} ELSE Range(out))
  BY DEF Clear
<1> HIDE DEF out
<1>4. (Len(out) = Cardinality(Range(out))) = TRUE
  BY <1>2
<1>5. ret' = Answer(op, TRUE, IF op = "Clear" THEN {} ELSE Nodes(tree))
  BY <1>2, <1>3, <1>4
<1>6. QED BY <1>1, <1>5 DEF KS!Clear, KS!ClearApply, KS!Answer, Answer

LEMMA AbstractTakeAll ==
  ASSUME AInv, TakeAll
  PROVE  KS!ClearApply
<1> DEFINE out == ReuseAllNodes(tree)
<1>1. Nodes(tree') = {}
  BY TakeAllStep
<1>2. Range(out) = Nodes(tree) /\ Len(out) = Cardinality(Range(out))
  BY ReuseInTree
<1>3. ret' = Answer("ClearApply", Len(out) = Cardinality(Range(out)), Range(out))
  BY DEF TakeAll
<1> HIDE DEF out
<1>4. (Len(out) = Cardinality(Range(out))) = TRUE
  BY <1>2
<1>5. ret' = Answer("ClearApply", TRUE, Nodes(tree))
  BY <1>2, <1>3, <1>4
<1>6. QED BY <1>1, <1>5 DEF KS!ClearApply, KS!Answer, Answer

LEMMA AbstractNext == AInv /\ [Next]_vars => [KS!Next]_KS!absVars
<1> SUFFICES ASSUME AInv, [Next]_vars PROVE [KS!Next]_KS!absVars
  OBVIOUS
<1>1. CASE UNCHANGED vars
  BY <1>1 DEF vars, KS!absVars
<1>2. ASSUME NEW e \in Elem, Insert(e) PROVE KS!Next
  BY <1>2, AbstractInsert DEF KS!Next
<1>3. ASSUME NEW e \in Elem, Push(e) PROVE KS!Next
  BY <1>3, AbstractPush DEF KS!Next
<1>4. ASSUME NEW e \in Elem, DropNode(e) PROVE UNCHANGED KS!absVars
  <2>1. Nodes(tree') = Nodes(tree) /\ ret' = ret
    BY <1>4, DropNodeStep DEF DropNode
  <2>2. QED BY <2>1 DEF KS!absVars
<1>5. ASSUME NEW k \in Key, Find(k) PROVE KS!Next
  BY <1>5, AbstractFind DEF KS!Next
<1>6. ASSUME NEW k \in Key, NEW drop \in BOOLEAN, Extract(k, drop) PROVE KS!Next
  BY <1>6, AbstractExtract DEF KS!Next
<1>7. CASE EraseNode
  BY <1>7, AbstractEraseNode DEF KS!Next
<1>8. CASE TakeAll
  BY <1>8, AbstractTakeAll DEF KS!Next
<1>9. ASSUME NEW op \in {"Clear", "ClearApply"}, Clear(op) PROVE KS!Next
  BY <1>9, AbstractClear DEF KS!Next
<1>10. QED BY <1>1, <1>2, <1>3, <1>4, <1>5, <1>6, <1>7, <1>8, <1>9 DEF Next

\* Whatever shape the rotations give the links and whatever the heights say, the
\* caller of Insert, Push, Find, Extract, Erase, Clear and ReuseAllNodes sees a
\* set with one element per key, and every element when the nodes are handed out.
THEOREM Refinement == Spec => ImplementsKeyedSet
<1>1. Init => KS!Init
  <2> SUFFICES ASSUME Init PROVE KS!Init
    OBVIOUS
  <2>1. Nodes(tree) = {}
    BY NullAssumption DEF Init, EmptyTree, Nodes
  <2>2. QED BY <2>1 DEF Init, KS!Init, KS!Answer, Answer
<1>2. AInv /\ [Next]_vars => [KS!Next]_KS!absVars
  BY AbstractNext
<1>3. QED BY <1>1, <1>2, AInvCorrect, PTL DEF Spec, ImplementsKeyedSet, KS!Spec

-----------------------------------------------------------------------------
\* The balance factor of n
Lean(t, n) == LEFT_HEIGHT(t, n) - RIGHT_HEIGHT(t, n)

\* Balance in the terms of the code
LEMMA FineCode ==
  ASSUME NEW t, NEW x
  PROVE  FineIn(t, x) <=> t.height[x] = HeightAbove(t, x) /\ Lean(t, x) \in -1 .. 1
BY DEF FineIn, Fine, Tall, Even, Ht, HeightAbove, LEFT_HEIGHT, RIGHT_HEIGHT, Lean

\* A node one of whose subtrees has grown by one at most (e = 1), or lost one at
\* most (e = 0), while its own height is that of before
Off(t, n, e) ==
    /\ Lean(t, n) \in -2 .. 2
    /\ HeightAbove(t, n) - t.height[n] \in {e - 1, e}
    /\ Lean(t, n) \in {-2, 2} => HeightAbove(t, n) = t.height[n] + e

LEMMA Grown ==
  ASSUME NEW t \in Trees, NEW u \in Trees, NEW p \in Elem, NEW e \in {0, 1}, FineIn(t, p),
         NEW old \in Links, NEW new \in Links,
         Relinked(t.left, t.right, t.height, u.left, u.right, u.height, p, old, new),
         Ht(u.height, new) - Ht(t.height, old) \in {e - 1, e}
  PROVE  Off(u, p, e)
<1> DEFINE a == Ht(t.height, t.left[p])
           b == Ht(t.height, t.right[p])
           c == Ht(u.height, u.left[p])
           d == Ht(u.height, u.right[p])
<1>1. a \in Nat /\ b \in Nat /\ c \in Nat /\ d \in Nat
  BY TreesFields, HtNat
<1>2. t.height[p] = AVL_MAX(a, b) + 1 /\ a - b \in -1 .. 1 /\ u.height[p] = t.height[p]
  BY DEF FineIn, Fine, Tall, Even, Relinked
<1>3. Lean(u, p) = c - d /\ HeightAbove(u, p) = AVL_MAX(c, d) + 1
  BY DEF Lean, HeightAbove, LEFT_HEIGHT, RIGHT_HEIGHT, Ht
<1>4. (c - a \in {e - 1, e} /\ d = b) \/ (d - b \in {e - 1, e} /\ c = a)
  BY DEF Relinked
<1> HIDE DEF a, b, c, d
<1>5. c - d \in -2 .. 2
  BY <1>1, <1>2, <1>4
<1>6. HeightAbove(u, p) - u.height[p] \in {e - 1, e}
  BY <1>1, <1>2, <1>3, <1>4 DEF AVL_MAX
<1>7. Lean(u, p) \in {-2, 2} => HeightAbove(u, p) = u.height[p] + e
  BY <1>1, <1>2, <1>3, <1>4 DEF AVL_MAX
<1>8. Lean(u, p) \in -2 .. 2
  BY <1>3, <1>5
<1>9. QED BY <1>6, <1>7, <1>8 DEF Off

\* What UpdateHeight(t, n) changes, for n, its parent and the others
Touched(t, u, V, S, n) ==
    /\ HasTree(u, V, S) /\ u.left = t.left /\ u.right = t.right /\ u.parent = t.parent
    /\ u.root = t.root /\ u.height[n] = HeightAbove(t, n)
    /\ Lean(u, n) = Lean(t, n) /\ HeightAbove(u, n) = HeightAbove(t, n)
    /\ \A x \in V \ {n, t.parent[n]} :
          Same(t.left, t.right, t.height, u.left, u.right, u.height, x)
    /\ t.parent[n] # Null =>
          /\ t.parent[n] \in V /\ t.parent[n] # n
          /\ t.left[t.parent[n]] # t.right[t.parent[n]]
          /\ Relinked(t.left, t.right, t.height, u.left, u.right, u.height, t.parent[n], n, n)

LEMMA TouchLemma ==
  ASSUME NEW t, NEW V, NEW S, HasTree(t, V, S), NEW n \in V
  PROVE  Touched(t, UpdateHeight(t, n), V, S, n)
<1> DEFINE u == UpdateHeight(t, n)
           p == t.parent[n]
<1>1. /\ IsTree(t.root, t.left, t.right, t.parent, V, S, GetKey) /\ t \in Trees
      /\ V \subseteq Elem /\ Null \notin V
      /\ \A x \in V : t.left[x] \in V \cup {Null} /\ t.right[x] \in V \cup {Null}
      /\ \A x \in V : /\ t.left[x] # Null => t.parent[t.left[x]] = x
                      /\ t.right[x] # Null => t.parent[t.right[x]] = x
  BY DEF HasTree, IsTree, Typed, Parents
<1>2. /\ HasTree(u, V, S) /\ u.left = t.left /\ u.right = t.right /\ u.parent = t.parent
  BY HeightOnly
<1>3. /\ u.root = t.root /\ u.height = [t.height EXCEPT ![n] = HeightAbove(t, n)]
  BY <1>1, UpdateHeightLemma
<1> HIDE DEF u
<1>4. t.height \in [Elem -> Nat]
  BY <1>1, TreesFields
<1>5. u.height[n] = HeightAbove(t, n) /\ \A x \in V \ {n} : u.height[x] = t.height[x]
  BY <1>1, <1>3, <1>4
<1>6. \A x \in (V \cup {Null}) \ {n} : Ht(u.height, x) = Ht(t.height, x)
  BY <1>1, <1>5 DEF Ht
<1>7. p # Null => p \in V /\ p # n /\ (n = t.left[p] \/ n = t.right[p])
  <2>1. p # Null => p \in V /\ p # n
    BY <1>1, ParentOutside
  <2>2. p # Null => n # t.root
    BY <1>1 DEF IsTree, Parents
  <2>3. QED BY <1>1, <2>1, <2>2 DEF IsTree, Parents
<1>8. t.left[n] # n /\ t.right[n] # n
  BY <1>1, LeftChild, RightChild
<1>9. LEFT_HEIGHT(u, n) = LEFT_HEIGHT(t, n) /\ RIGHT_HEIGHT(u, n) = RIGHT_HEIGHT(t, n)
  BY <1>1, <1>2, <1>5, <1>8 DEF LEFT_HEIGHT, RIGHT_HEIGHT
<1>10. Lean(u, n) = Lean(t, n) /\ HeightAbove(u, n) = HeightAbove(t, n)
  BY <1>9 DEF Lean, HeightAbove
<1>11. ASSUME NEW x \in V \ {n, p}
       PROVE  Same(t.left, t.right, t.height, u.left, u.right, u.height, x)
  <2>1. t.left[x] # n /\ t.right[x] # n
    BY <1>1, <1>11
  <2>2. QED BY <1>1, <1>2, <1>5, <1>6, <2>1 DEF Same
<1>12. ASSUME p # Null
       PROVE  /\ t.left[p] # t.right[p]
              /\ Relinked(t.left, t.right, t.height, u.left, u.right, u.height, p, n, n)
  <2>1. t.left[p] # t.right[p]
    BY <1>1, <1>7, <1>12, LeftChild, RightChild
  <2>2. u.height[p] = t.height[p]
    BY <1>5, <1>7, <1>12
  <2>3. CASE n = t.left[p]
    <3>1. Ht(u.height, t.right[p]) = Ht(t.height, t.right[p])
      BY <1>1, <1>6, <1>7, <1>12, <2>1, <2>3
    <3>2. QED BY <1>2, <2>1, <2>2, <2>3, <3>1 DEF Relinked
  <2>4. CASE n = t.right[p]
    <3>1. Ht(u.height, t.left[p]) = Ht(t.height, t.left[p])
      BY <1>1, <1>6, <1>7, <1>12, <2>1, <2>4
    <3>2. QED BY <1>2, <2>1, <2>2, <2>4, <3>1 DEF Relinked
  <2>5. QED BY <1>7, <1>12, <2>3, <2>4
<1>13. QED BY <1>2, <1>3, <1>5, <1>7, <1>10, <1>11, <1>12 DEF Touched, u

\* The root, whose height nobody else relies on
AtTop(t, n) == /\ n = t.root /\ Lean(t, n) \in -2 .. 2
               /\ Lean(t, n) \in {-2, 2} => HeightAbove(t, n) # t.height[n]

\* Where retracing is: only the node it has reached may be out of balance.
Climb(t, V, S, n, e) ==
    /\ HasTree(t, V, S) /\ n \in V \cup {Null}
    /\ \A x \in V \ {n} : FineIn(t, x)
    /\ n # Null => Off(t, n, e) \/ AtTop(t, n)

\* From n retracing went to m, which has more below it.
Higher(t, V, S, n, m, e) ==
    \E S2 : /\ Climb(t, V, S2, m, e)
            /\ m # Null => S[n] \subseteq S2[m] /\ m \notin S[n] /\ m \in S2[m]

LEMMA RelinkedTwice ==
  ASSUME NEW t, NEW u, NEW v, NEW p, NEW n, NEW m, t.left[p] # t.right[p],
         Relinked(t.left, t.right, t.height, u.left, u.right, u.height, p, n, n),
         Relinked(u.left, u.right, u.height, v.left, v.right, v.height, p, n, m)
  PROVE  Relinked(t.left, t.right, t.height, v.left, v.right, v.height, p, n, m)
BY DEF Relinked

\* After a pass at n, where m is now, the parent p may be out of balance only.
Carried(t, u, V, S, S2, n, m, p, e) ==
    /\ HasTree(u, V, S2) /\ (p # Null => S2[p] = S[p])
    /\ \A x \in V \ {p} : FineIn(u, x)
    /\ p # Null =>
          /\ Relinked(t.left, t.right, t.height, u.left, u.right, u.height, p, n, m)
          /\ Ht(u.height, m) - Ht(t.height, n) \in {e - 1, e}

LEMMA CarriedUp ==
  ASSUME NEW t, NEW V, NEW S, NEW n \in V, HasTree(t, V, S), NEW e \in {0, 1}, NEW p,
         p = t.parent[n], p # Null => FineIn(t, p),
         NEW u, NEW m \in V, NEW S2, Carried(t, u, V, S, S2, n, m, p, e)
  PROVE  Higher(u, V, S, n, p, e)
<1>1. /\ HasTree(u, V, S2) /\ (p # Null => S2[p] = S[p])
      /\ \A x \in V \ {p} : FineIn(u, x)
      /\ p # Null =>
            /\ Relinked(t.left, t.right, t.height, u.left, u.right, u.height, p, n, m)
            /\ Ht(u.height, m) - Ht(t.height, n) \in {e - 1, e}
  BY DEF Carried
<1>2. CASE p = Null
  <2>1. Climb(u, V, S2, p, e)
    BY <1>1, <1>2 DEF Climb
  <2>2. QED BY <1>2, <2>1 DEF Higher
<1>3. CASE p # Null
  <2>1. p \in V /\ S[n] \subseteq S[p] /\ p \notin S[n] /\ p \in S[p]
    BY <1>3, ParentOutside DEF HasTree
  <2>2. V \subseteq Elem
    BY DEF HasTree, IsTree, Typed
  <2>3. t \in Trees /\ u \in Trees /\ n \in Links /\ m \in Links /\ p \in Elem
    BY <1>1, <2>1, <2>2 DEF HasTree, Links
  <2>4. Off(u, p, e)
    BY <1>1, <1>3, <2>3, Grown
  <2>5. Climb(u, V, S2, p, e)
    BY <1>1, <2>1, <2>4 DEF Climb
  <2>6. QED BY <1>1, <1>3, <2>1, <2>5 DEF Higher
<1>4. QED BY <1>2, <1>3

\* One pass of retracing that does not stop
LEMMA ClimbStep ==
  ASSUME NEW s \in Retracing, NEW V, NEW S, NEW e \in {0, 1},
         Climb(s.t, V, S, s.node, e), s.node # Null
  PROVE  LET q == Rebalanced([s EXCEPT !.t = UpdateHeight(s.t, s.node)])
         IN  Higher(q.t, V, S, s.node, q.node, e)
<1> DEFINE t == s.t
           n == s.node
           p == t.parent[n]
           t1 == UpdateHeight(t, n)
           v == [s EXCEPT !.t = t1]
           q == Rebalanced(v)
<1>1. /\ HasTree(t, V, S) /\ n \in V /\ \A x \in V \ {n} : FineIn(t, x)
      /\ Off(t, n, e) \/ AtTop(t, n)
  BY DEF Climb
<1>2. Touched(t, t1, V, S, n)
  BY <1>1, TouchLemma
<1>3. v.t = t1 /\ v.node = n
  BY DEF Retracing
<1> HIDE DEF t1, v
<1>4. t \in Trees /\ t1 \in Trees /\ V \subseteq Elem /\ Null \notin V
      /\ IsTree(t.root, t.left, t.right, t.parent, V, S, GetKey) /\ t1.parent[n] = p
  BY <1>1, <1>2 DEF HasTree, IsTree, Typed, Touched
<1>5. \A x \in V \ {n, p} : FineIn(t1, x)
  <2> SUFFICES ASSUME NEW x \in V \ {n, p} PROVE FineIn(t1, x)
    OBVIOUS
  <2>1. FineIn(t, x) /\ Same(t.left, t.right, t.height, t1.left, t1.right, t1.height, x)
    BY <1>1, <1>2 DEF Touched
  <2>2. QED BY <2>1, SameFine DEF FineIn
<1>6. /\ t1.height[n] = HeightAbove(t1, n) /\ t1.height[n] = HeightAbove(t, n)
      /\ Lean(t1, n) = Lean(t, n)
  BY <1>2 DEF Touched
<1>7. Lean(t1, n) \in -2 .. 2
  BY <1>1, <1>6 DEF Off, AtTop
<1>8. ASSUME p # Null
      PROVE  /\ p \in V /\ p # n /\ FineIn(t, p) /\ t.left[p] # t.right[p]
             /\ Relinked(t.left, t.right, t.height, t1.left, t1.right, t1.height, p, n, n)
             /\ Off(t, n, e) /\ S[n] \subseteq S[p] /\ p \notin S[n] /\ p \in S[p]
  <2>1. /\ p \in V /\ p # n /\ t.left[p] # t.right[p]
        /\ Relinked(t.left, t.right, t.height, t1.left, t1.right, t1.height, p, n, n)
    BY <1>2, <1>8 DEF Touched
  <2>2. n # t.root
    BY <1>4, <1>8 DEF IsTree, Parents
  <2>3. Off(t, n, e)
    BY <1>1, <2>2 DEF AtTop
  <2>4. S[n] \subseteq S[p] /\ p \notin S[n] /\ p \in S[p]
    BY <1>1, <1>4, <1>8, ParentOutside
  <2>5. QED BY <1>1, <2>1, <2>3, <2>4
<1>10. ASSUME Lean(t1, n) \in -1 .. 1 PROVE Higher(q.t, V, S, n, q.node, e)
  <2>1. q.t = t1 /\ q.node = p
    BY <1>3, <1>4, <1>10 DEF Rebalanced, Lean
  <2>2. FineIn(t1, n)
    BY <1>6, <1>10, FineCode
  <2>3. p # Null => Ht(t1.height, n) - Ht(t.height, n) \in {e - 1, e}
    <3>1. n # Null
      BY <1>1, <1>4
    <3>2. QED BY <1>6, <1>8, <3>1 DEF Ht, Off
  <2>4. HasTree(t1, V, S)
    BY <1>2 DEF Touched
  <2>5. \A x \in V \ {p} : FineIn(t1, x)
    BY <1>5, <2>2
  <2>8. Carried(t, t1, V, S, S, n, n, p, e)
    BY <1>8, <2>3, <2>4, <2>5 DEF Carried
  <2>6. Higher(t1, V, S, n, p, e)
    <3>1. p # Null => FineIn(t, p)
      BY <1>8
    <3>2. HasTree(t, V, S) /\ n \in V
      BY <1>1
    <3> HIDE DEF t, n
    <3>3. QED BY <2>8, <3>1, <3>2, CarriedUp
  <2>7. QED BY <2>1, <2>6
<1>11. ASSUME Lean(t1, n) \in {-2, 2} PROVE Higher(q.t, V, S, n, q.node, e)
  <2> DEFINE fix == IF Lean(t1, n) >= 2 THEN FixupLeftHeavy(t1, n) ELSE FixupRigtHeavy(t1, n)
             m == fix.parent[n]
  <2>1. q.t = fix /\ q.node = fix.parent[m]
    BY <1>3, <1>11 DEF Rebalanced, Lean
  <2>2. Leaning(t1, V, S, n)
    <3>1. HasTree(t1, V, S)
      BY <1>2 DEF Touched
    <3>2. Tall(t1.left, t1.right, t1.height, n)
      BY <1>6 DEF Tall, HeightAbove, Ht, LEFT_HEIGHT, RIGHT_HEIGHT
    <3>3. QED BY <1>1, <1>4, <1>5, <3>1, <3>2 DEF Leaning
  <2>3. Rebalance(t1, fix, V, S, n)
    <3>1. Lean(t1, n) = Ht(t1.height, t1.left[n]) - Ht(t1.height, t1.right[n])
      BY DEF Lean, Ht, LEFT_HEIGHT, RIGHT_HEIGHT
    <3>2. Ht(t1.height, t1.left[n]) \in Nat /\ Ht(t1.height, t1.right[n]) \in Nat
      BY <1>1, <1>4, TreesFields, HtNat
    <3>3. CASE Lean(t1, n) = 2
      BY <2>2, <3>1, <3>3, FixupLeftHeavySettles
    <3>4. CASE Lean(t1, n) = -2
      <4>1. Ht(t1.height, t1.right[n]) - Ht(t1.height, t1.left[n]) = 2
        BY <3>1, <3>2, <3>4
      <4>2. QED BY <2>2, <3>4, <4>1, FixupRigtHeavySettles
    <3>5. QED BY <1>11, <3>3, <3>4
  <2> HIDE DEF fix
  <2>4. /\ m \in V /\ fix.parent[m] = p
        /\ \A x \in V \ {p} : FineIn(fix, x)
        /\ fix.height[m] \in {t1.height[n] - 1, t1.height[n]}
        /\ p # Null => Relinked(t1.left, t1.right, t1.height, fix.left, fix.right, fix.height, p, n, m)
    BY <1>4, <2>3 DEF Rebalance, Settled, FineIn
  <2>5. PICK S2 : HasTree(fix, V, S2) /\ (p # Null => S2[p] = S[p])
    BY <1>4, <2>3 DEF Rebalance
  <2> HIDE DEF m
  <2>6. ASSUME p # Null PROVE Ht(fix.height, m) - Ht(t.height, n) \in {e - 1, e}
    <3>1. Ht(fix.height, m) = fix.height[m] /\ Ht(t.height, n) = t.height[n]
      BY <1>1, <1>4, <2>4 DEF Ht
    <3>2. t1.height[n] = t.height[n] + e
      BY <1>6, <1>8, <1>11, <2>6 DEF Off
    <3>3. t.height[n] \in Nat
      BY <1>1, <1>4, TreesFields
    <3>4. QED BY <2>4, <3>1, <3>2, <3>3
  <2>7. p # Null => Relinked(t.left, t.right, t.height, fix.left, fix.right, fix.height, p, n, m)
    BY <1>8, <2>4, RelinkedTwice
  <2>10. Carried(t, fix, V, S, S2, n, m, p, e)
    <3>1. HasTree(fix, V, S2) /\ (p # Null => S2[p] = S[p])
      BY <2>5
    <3>2. \A x \in V \ {p} : FineIn(fix, x)
      BY <2>4
    <3>3. QED BY <2>6, <2>7, <3>1, <3>2 DEF Carried
  <2>8. Higher(fix, V, S, n, p, e)
    <3>1. p # Null => FineIn(t, p)
      BY <1>8
    <3>2. HasTree(t, V, S) /\ n \in V /\ m \in V
      BY <1>1, <2>4
    <3> HIDE DEF t, n
    <3>3. QED BY <2>10, <3>1, <3>2, CarriedUp
  <2>9. QED BY <2>1, <2>4, <2>8
<1>12. Higher(q.t, V, S, n, q.node, e)
  BY <1>7, <1>10, <1>11
<1>13. QED BY <1>12 DEF t1, v

\* J[k] holds every state after k passes, so the loop ends in J[Passes].
LEMMA LoopCounts ==
  ASSUME NEW I, NEW F, NEW s \in I, Closed(F, I), NEW J, s \in J[0],
         \A k \in Nat : \A x \in I : x \in J[k] => F[x] \in J[k + 1]
  PROVE  Loop(F, s) \in J[Passes]
<1> DEFINE M == Passes
           h == Run(F, s, M)
           A == {n \in Nat : n <= M => h[n] \in J[n]}
<1>0. M \in Nat
  BY PassesNat
<1>1. h \in [0 .. M -> I] /\ h[0] = s /\ \A n \in 1 .. M : h[n] = F[h[n - 1]]
  <2>1. IsRun(Run(F, s, M), F, s, M, I)
    BY <1>0, RunLemma
  <2>2. QED BY <2>1 DEF IsRun
<1>2. Loop(F, s) = h[M]
  BY LoopRun
<1> HIDE DEF h, M
<1>3. 0 \in A
  BY <1>1
<1>4. ASSUME NEW n \in A PROVE n + 1 \in A
  <2>1. CASE n + 1 <= M
    <3>1. n \in 0 .. M /\ n + 1 \in 1 .. M /\ n + 1 - 1 = n
      BY <1>0, <1>4, <2>1
    <3>2. h[n] \in I /\ h[n + 1] = F[h[n]] /\ h[n] \in J[n]
      BY <1>1, <1>4, <3>1
    <3>3. h[n + 1] \in J[n + 1]
      BY <1>4, <3>2
    <3>4. QED BY <1>4, <3>3
  <2>2. CASE ~(n + 1 <= M)
    BY <1>4, <2>2
  <2>3. QED BY <2>1, <2>2
<1> HIDE DEF A
<1>5. Nat \subseteq A
  BY <1>3, <1>4, SetInduction
<1>6. M \in A
  BY <1>0, <1>5
<1>7. QED BY <1>0, <1>2, <1>6 DEF A, M

\* The second insertion left the root's height at 1; the third one, at n below
\* its child, makes up for it when it comes to the root.
Late(t, V, S, n) ==
    /\ HasTree(t, V, S) /\ n \in V /\ t.root \in V /\ n # t.root
    /\ t.height[t.root] = 1 /\ t.height[n] = 1 /\ HeightAbove(t, n) = 2
    /\ Lean(t, n) \in -1 .. 1
    /\ {t.left[t.root], t.right[t.root]} = {n, Null}
    /\ \A x \in V \ {n, t.root} : FineIn(t, x)

LEMMA LateStep ==
  ASSUME NEW s \in Retracing, NEW V, NEW S, Late(s.t, V, S, s.node)
  PROVE  LET q == Rebalanced([s EXCEPT !.t = UpdateHeight(s.t, s.node)])
         IN  Higher(q.t, V, S, s.node, q.node, 1)
<1> DEFINE t == s.t
           n == s.node
           p == t.parent[n]
           t1 == UpdateHeight(t, n)
           v == [s EXCEPT !.t = t1]
           q == Rebalanced(v)
<1>1. /\ HasTree(t, V, S) /\ n \in V /\ t.root \in V /\ n # t.root
      /\ t.height[t.root] = 1 /\ t.height[n] = 1 /\ HeightAbove(t, n) = 2
      /\ Lean(t, n) \in -1 .. 1
      /\ {t.left[t.root], t.right[t.root]} = {n, Null}
      /\ \A x \in V \ {n, t.root} : FineIn(t, x)
  BY DEF Late
<1>2. Touched(t, t1, V, S, n)
  BY <1>1, TouchLemma
<1>3. v.t = t1 /\ v.node = n
  BY DEF Retracing
<1> HIDE DEF t1, v
<1>4. /\ V \subseteq Elem /\ Null \notin V
      /\ IsTree(t.root, t.left, t.right, t.parent, V, S, GetKey)
  BY <1>1 DEF HasTree, IsTree, Typed
<1>5. p = t.root /\ p # Null
  BY <1>1, <1>4 DEF IsTree, Parents
<1>6. q.t = t1 /\ q.node = p
  BY <1>1, <1>2, <1>3 DEF Rebalanced, Lean, Touched
<1>7. /\ t1.height[n] = 2 /\ t1.height[p] = 1 /\ t1.root = p
      /\ {t1.left[p], t1.right[p]} = {n, Null}
  BY <1>1, <1>2, <1>5 DEF Touched, Relinked
<1>8. {LEFT_HEIGHT(t1, p), RIGHT_HEIGHT(t1, p)} = {0, 2}
  BY <1>1, <1>4, <1>7 DEF LEFT_HEIGHT, RIGHT_HEIGHT
<1>9. AtTop(t1, p)
  <2>1. HeightAbove(t1, p) = 3 /\ Lean(t1, p) \in {-2, 2}
    <3>1. \/ LEFT_HEIGHT(t1, p) = 0 /\ RIGHT_HEIGHT(t1, p) = 2
          \/ LEFT_HEIGHT(t1, p) = 2 /\ RIGHT_HEIGHT(t1, p) = 0
      BY <1>8
    <3>2. QED BY <3>1 DEF HeightAbove, Lean, AVL_MAX
  <2>2. QED BY <1>7, <2>1 DEF AtTop
<1>10. ASSUME NEW x \in V \ {p} PROVE FineIn(t1, x)
  <2>1. CASE x = n
    <3>1. t1.height[n] = HeightAbove(t1, n) /\ Lean(t1, n) \in -1 .. 1
      BY <1>1, <1>2 DEF Touched
    <3>2. QED BY <2>1, <3>1, FineCode
  <2>2. CASE x # n
    <3>1. FineIn(t, x) /\ Same(t.left, t.right, t.height, t1.left, t1.right, t1.height, x)
      BY <1>1, <1>2, <1>5, <1>10, <2>2 DEF Touched
    <3>2. QED BY <3>1, SameFine DEF FineIn
  <2>3. QED BY <2>1, <2>2
<1>11. Climb(t1, V, S, p, 1)
  BY <1>1, <1>2, <1>5, <1>9, <1>10 DEF Climb, Touched
<1>12. S[n] \subseteq S[p] /\ p \notin S[n] /\ p \in S[p]
  BY <1>1, <1>4, <1>5, ParentOutside
<1>13. Higher(t1, V, S, n, p, 1)
  BY <1>11, <1>12 DEF Higher
<1>14. Higher(q.t, V, S, n, q.node, 1)
  BY <1>6, <1>13
<1>15. QED BY <1>14 DEF t1, v

\* The states of retracing after k passes or more: k nodes are below at least.
Climbing(V, e, k) ==
    {s \in Retracing :
        /\ s.node \in V \cup {Null}
        /\ \E S : /\ Climb(s.t, V, S, s.node, e) \/ (e = 1 /\ Late(s.t, V, S, s.node))
                  /\ s.node # Null => Cardinality(S[s.node]) >= k}

LEMMA ClimbOn ==
  ASSUME NEW V, NEW e \in {0, 1}, NEW k \in Nat, NEW s \in Climbing(V, e, k), s.node # Null
  PROVE  Rebalanced([s EXCEPT !.t = UpdateHeight(s.t, s.node)]) \in Climbing(V, e, k + 1)
<1> DEFINE q == Rebalanced([s EXCEPT !.t = UpdateHeight(s.t, s.node)])
<1>1. s \in Retracing /\ s.node \in V
  BY DEF Climbing
<1>2. PICK S : /\ Climb(s.t, V, S, s.node, e) \/ (e = 1 /\ Late(s.t, V, S, s.node))
               /\ Cardinality(S[s.node]) >= k
  BY DEF Climbing
<1>3. HasTree(s.t, V, S)
  BY <1>2 DEF Climb, Late
<1>4. q \in Retracing /\ q.node \in V \cup {Null}
  <2>1. Rearranged(s.t, s.t, V)
    BY <1>3 DEF Rearranged, SameOutside
  <2>2. s \in At(s.t, V)
    BY <1>1, <2>1 DEF At
  <2>3. q \in At(s.t, V)
    BY <2>2, RetracingStep
  <2> HIDE DEF q
  <2>4. QED BY <2>3 DEF At
<1>5. Higher(q.t, V, S, s.node, q.node, e)
  <2>1. CASE Climb(s.t, V, S, s.node, e)
    BY <1>1, <2>1, ClimbStep
  <2>2. CASE e = 1 /\ Late(s.t, V, S, s.node)
    BY <1>1, <2>2, LateStep
  <2>3. QED BY <1>2, <2>1, <2>2
<1> HIDE DEF q
<1>6. PICK S2 : /\ Climb(q.t, V, S2, q.node, e)
                /\ q.node # Null => S[s.node] \subseteq S2[q.node] /\ q.node \notin S[s.node]
                                    /\ q.node \in S2[q.node]
  BY <1>5 DEF Higher
<1>7. ASSUME q.node # Null PROVE Cardinality(S2[q.node]) >= k + 1
  <2> DEFINE A == S[s.node]
             B == S2[q.node]
  <2>1. B \subseteq Elem
    BY <1>4, <1>6, <1>7 DEF Climb, HasTree, IsTree, Typed
  <2>2. IsFiniteSet(B)
    BY <2>1, ElemAssumption, FS_Subset
  <2>3. A \subseteq B /\ q.node \in B /\ q.node \notin A
    BY <1>6, <1>7
  <2> HIDE DEF A, B
  <2>4. IsFiniteSet(A) /\ Cardinality(A) <= Cardinality(B)
        /\ (Cardinality(A) = Cardinality(B) => A = B)
    BY <2>2, <2>3, FS_Subset
  <2>5. Cardinality(A) \in Nat /\ Cardinality(B) \in Nat
    BY <2>2, <2>4, FS_CardinalityType
  <2>6. Cardinality(A) # Cardinality(B)
    BY <2>3, <2>4
  <2>7. Cardinality(A) >= k
    BY <1>2 DEF A
  <2>8. Cardinality(B) >= k + 1
    BY <2>4, <2>5, <2>6, <2>7
  <2>9. QED BY <2>8 DEF B
<1>8. q \in Climbing(V, e, k + 1)
  BY <1>4, <1>6, <1>7 DEF Climbing
<1>9. QED BY <1>8 DEF q

LEMMA ClimbDone ==
  ASSUME NEW V, NEW e, NEW k, NEW s \in Retracing, NEW S, Climb(s.t, V, S, s.node, e),
         s.node # Null => FineIn(s.t, s.node)
  PROVE  [s EXCEPT !.node = Null] \in Climbing(V, e, k)
<1> DEFINE d == [s EXCEPT !.node = Null]
<1>1. d \in Retracing /\ d.t = s.t /\ d.node = Null
  BY DEF Retracing, Links
<1> HIDE DEF d
<1>2. Climb(s.t, V, S, Null, e)
  BY DEF Climb
<1>3. QED BY <1>1, <1>2 DEF Climbing, d

\* More passes than there are nodes have left the tree.
LEMMA ClimbEnd ==
  ASSUME NEW V, V \subseteq Elem, NEW e, NEW s \in Climbing(V, e, Passes)
  PROVE  \A x \in V : FineIn(s.t, x)
<1>1. PICK S : /\ Climb(s.t, V, S, s.node, e) \/ (e = 1 /\ Late(s.t, V, S, s.node))
               /\ s.node # Null => Cardinality(S[s.node]) >= Passes
  BY DEF Climbing
<1>2. s.node = Null
  <2> SUFFICES ASSUME s.node # Null PROVE FALSE
    OBVIOUS
  <2>1. HasTree(s.t, V, S) /\ s.node \in V
    BY <1>1 DEF Climb, Late
  <2>2. S[s.node] \subseteq Elem
    BY <2>1 DEF HasTree, IsTree, Typed
  <2>3. Cardinality(S[s.node]) \in Nat /\ Cardinality(S[s.node]) <= Cardinality(Elem)
        /\ Cardinality(Elem) \in Nat
    BY <2>2, ElemAssumption, FS_Subset, FS_CardinalityType
  <2>4. QED BY <1>1, <2>3 DEF Passes
<1>3. Null \notin V
  BY <1>1 DEF Climb, Late, HasTree, IsTree, Typed
<1>4. Climb(s.t, V, S, Null, e)
  BY <1>1, <1>2, <1>3 DEF Late
<1>5. QED BY <1>3, <1>4 DEF Climb

AllFine(t, V) == \A x \in V : FineIn(t, x)

LEMMA ClimbStart ==
  ASSUME NEW t, NEW V, NEW S, NEW n, NEW e,
         Climb(t, V, S, n, e) \/ (e = 1 /\ Late(t, V, S, n))
  PROVE  [t |-> t, node |-> n] \in Climbing(V, e, 0) /\ V \subseteq Elem
<1> DEFINE s == [t |-> t, node |-> n]
<1>1. HasTree(t, V, S) /\ n \in V \cup {Null}
  BY DEF Climb, Late
<1>2. V \subseteq Elem /\ t \in Trees
  BY <1>1 DEF HasTree, IsTree, Typed
<1>3. s.t = t /\ s.node = n /\ s \in Retracing
  BY <1>1, <1>2 DEF Retracing, Links
<1>4. n # Null => Cardinality(S[n]) >= 0
  <2> SUFFICES ASSUME n # Null PROVE Cardinality(S[n]) >= 0
    OBVIOUS
  <2>1. S[n] \subseteq Elem
    BY <1>1 DEF HasTree, IsTree, Typed
  <2>2. Cardinality(S[n]) \in Nat
    BY <2>1, ElemAssumption, FS_Subset, FS_CardinalityType
  <2>3. QED BY <2>2
<1> HIDE DEF s
<1>5. s \in Climbing(V, e, 0)
  BY <1>1, <1>3, <1>4 DEF Climbing
<1>6. QED BY <1>2, <1>5 DEF s

LEMMA ClimbingLess ==
  ASSUME NEW V, NEW e, NEW k \in Nat, NEW s \in Climbing(V, e, k)
  PROVE  s \in Climbing(V, e, 0)
<1>1. PICK T : /\ Climb(s.t, V, T, s.node, e) \/ (e = 1 /\ Late(s.t, V, T, s.node))
               /\ s.node # Null => Cardinality(T[s.node]) >= k
  BY DEF Climbing
<1>2. s = [t |-> s.t, node |-> s.node]
  BY DEF Climbing, Retracing
<1>3. QED BY <1>1, <1>2, ClimbStart

\* Retracing after an insertion below n leaves every node balanced.
LEMMA InsertFixupBalances ==
  ASSUME NEW t, NEW V, NEW S, NEW n, Climb(t, V, S, n, 1) \/ Late(t, V, S, n)
  PROVE  AllFine(InsertFixup(t, n), V)
<1> DEFINE pass == [s \in Retracing |->
              IF s.node = Null THEN s
              ELSE IF s.t.height[s.node] = HeightAbove(s.t, s.node)
                   THEN [s EXCEPT !.node = Null]
                   ELSE Rebalanced([s EXCEPT !.t = UpdateHeight(s.t, s.node)])]
           start == [t |-> t, node |-> n]
           J == [k \in Nat |-> Climbing(V, 1, k)]
<1>1. InsertFixup(t, n) = Loop(pass, start).t
  BY DEF InsertFixup
<1>2. start \in Climbing(V, 1, 0) /\ V \subseteq Elem
  BY ClimbStart
<1>3. ASSUME NEW k \in Nat, NEW s \in Climbing(V, 1, k) PROVE pass[s] \in Climbing(V, 1, k + 1)
  <2>1. s \in Retracing
    BY DEF Climbing
  <2>2. pass[s] = IF s.node = Null THEN s
                  ELSE IF s.t.height[s.node] = HeightAbove(s.t, s.node)
                       THEN [s EXCEPT !.node = Null]
                       ELSE Rebalanced([s EXCEPT !.t = UpdateHeight(s.t, s.node)])
    BY <2>1
  <2> HIDE DEF pass
  <2>3. CASE s.node = Null
    BY <2>2, <2>3 DEF Climbing
  <2>4. CASE s.node # Null /\ s.t.height[s.node] # HeightAbove(s.t, s.node)
    BY <1>3, <2>2, <2>4, ClimbOn
  <2>5. CASE s.node # Null /\ s.t.height[s.node] = HeightAbove(s.t, s.node)
    <3>1. PICK T : Climb(s.t, V, T, s.node, 1) \/ Late(s.t, V, T, s.node)
      BY DEF Climbing
    <3>2. ~Late(s.t, V, T, s.node)
      BY <2>5 DEF Late
    <3>3. Climb(s.t, V, T, s.node, 1)
      BY <3>1, <3>2
    <3>4. s.t.height[s.node] \in Nat
      <4>1. s.t \in Trees /\ s.node \in Elem
        BY <2>5, <3>3 DEF Climb, HasTree, IsTree, Typed
      <4>2. QED BY <4>1, TreesFields
    <3>5. Off(s.t, s.node, 1) \/ AtTop(s.t, s.node)
      BY <2>5, <3>3 DEF Climb
    <3>6. Lean(s.t, s.node) \in -1 .. 1
      <4>1. Lean(s.t, s.node) \in -2 .. 2 /\ ~(Lean(s.t, s.node) \in {-2, 2})
        BY <2>5, <3>4, <3>5 DEF Off, AtTop
      <4>2. QED BY <4>1
    <3>7. FineIn(s.t, s.node)
      BY <2>5, <3>6, FineCode
    <3>8. [s EXCEPT !.node = Null] \in Climbing(V, 1, k + 1)
      BY <2>1, <3>3, <3>7, ClimbDone
    <3>9. QED BY <2>2, <2>5, <3>8
  <2>6. QED BY <2>3, <2>4, <2>5
<1> HIDE DEF pass, start
<1>4. Closed(pass, Climbing(V, 1, 0))
  <2> SUFFICES ASSUME NEW s \in Climbing(V, 1, 0) PROVE pass[s] \in Climbing(V, 1, 0)
    BY DEF Closed
  <2>1. pass[s] \in Climbing(V, 1, 0 + 1)
    BY <1>3
  <2>2. QED BY <2>1, ClimbingLess
<1>5. \A k \in Nat : J[k] = Climbing(V, 1, k) /\ J[k + 1] = Climbing(V, 1, k + 1)
  OBVIOUS
<1> HIDE DEF J
<1>6. start \in J[0]
  BY <1>2, <1>5
<1>7. \A k \in Nat : \A s \in Climbing(V, 1, 0) : s \in J[k] => pass[s] \in J[k + 1]
  BY <1>3, <1>5
<1>8. Loop(pass, start) \in J[Passes]
  BY <1>2, <1>4, <1>6, <1>7, LoopCounts
<1>9. Loop(pass, start) \in Climbing(V, 1, Passes)
  BY <1>5, <1>8, PassesNat
<1>10. QED BY <1>1, <1>2, <1>9, ClimbEnd DEF AllFine

\* Retracing after a removal below n leaves every node balanced.
LEMMA EraseFixupBalances ==
  ASSUME NEW t, NEW V, NEW S, NEW n, Climb(t, V, S, n, 0)
  PROVE  AllFine(EraseFixup(t, n), V)
<1> DEFINE pass == [s \in Retracing |->
              IF s.node = Null THEN s
              ELSE IF /\ s.t.height[s.node] = HeightAbove(s.t, s.node)
                      /\ LEFT_HEIGHT(s.t, s.node) - RIGHT_HEIGHT(s.t, s.node) \in -1 .. 1
                   THEN [s EXCEPT !.node = Null]
                   ELSE Rebalanced([s EXCEPT !.t = UpdateHeight(s.t, s.node)])]
           start == [t |-> t, node |-> n]
           J == [k \in Nat |-> Climbing(V, 0, k)]
<1>1. EraseFixup(t, n) = Loop(pass, start).t
  BY DEF EraseFixup
<1>2. start \in Climbing(V, 0, 0) /\ V \subseteq Elem
  BY ClimbStart
<1>3. ASSUME NEW k \in Nat, NEW s \in Climbing(V, 0, k) PROVE pass[s] \in Climbing(V, 0, k + 1)
  <2> DEFINE stops == /\ s.t.height[s.node] = HeightAbove(s.t, s.node)
                      /\ Lean(s.t, s.node) \in -1 .. 1
  <2>1. s \in Retracing
    BY DEF Climbing
  <2>2. pass[s] = IF s.node = Null THEN s
                  ELSE IF stops
                       THEN [s EXCEPT !.node = Null]
                       ELSE Rebalanced([s EXCEPT !.t = UpdateHeight(s.t, s.node)])
    BY <2>1 DEF Lean
  <2> HIDE DEF pass
  <2>3. CASE s.node = Null
    BY <2>2, <2>3 DEF Climbing
  <2>4. CASE s.node # Null /\ ~stops
    BY <1>3, <2>2, <2>4, ClimbOn
  <2>5. CASE s.node # Null /\ stops
    <3>1. PICK T : Climb(s.t, V, T, s.node, 0)
      BY DEF Climbing
    <3>2. FineIn(s.t, s.node)
      BY <2>5, FineCode
    <3>3. [s EXCEPT !.node = Null] \in Climbing(V, 0, k + 1)
      BY <2>1, <3>1, <3>2, ClimbDone
    <3>4. QED BY <2>2, <2>5, <3>3
  <2>6. QED BY <2>3, <2>4, <2>5
<1> HIDE DEF pass, start
<1>4. Closed(pass, Climbing(V, 0, 0))
  <2> SUFFICES ASSUME NEW s \in Climbing(V, 0, 0) PROVE pass[s] \in Climbing(V, 0, 0)
    BY DEF Closed
  <2>1. pass[s] \in Climbing(V, 0, 0 + 1)
    BY <1>3
  <2>2. QED BY <2>1, ClimbingLess
<1>5. \A k \in Nat : J[k] = Climbing(V, 0, k) /\ J[k + 1] = Climbing(V, 0, k + 1)
  OBVIOUS
<1> HIDE DEF J
<1>6. start \in J[0]
  BY <1>2, <1>5
<1>7. \A k \in Nat : \A s \in Climbing(V, 0, 0) : s \in J[k] => pass[s] \in J[k + 1]
  BY <1>3, <1>5
<1>8. Loop(pass, start) \in J[Passes]
  BY <1>2, <1>4, <1>6, <1>7, LoopCounts
<1>9. Loop(pass, start) \in Climbing(V, 0, Passes)
  BY <1>5, <1>8, PassesNat
<1>10. QED BY <1>1, <1>2, <1>9, ClimbEnd DEF AllFine

\* A node with the right child links and heights around it
LEMMA FineBy ==
  ASSUME NEW t, NEW u, NEW x, FineIn(t, x),
         Same(t.left, t.right, t.height, u.left, u.right, u.height, x)
  PROVE  FineIn(u, x)
BY SameFine DEF FineIn

\* A leaf of height 1
LEMMA LeafFine ==
  ASSUME NEW t, NEW n, t.left[n] = Null, t.right[n] = Null
  PROVE  FineIn(t, n) <=> t.height[n] = 1
BY DEF FineIn, Fine, Tall, Even, Ht, AVL_MAX

\* What the second insertion leaves: a root of height 1 with one child
Short(t, V, x) ==
    /\ x = t.root /\ t.height[x] = 1
    /\ \E c \in V : /\ V = {x, c} /\ c # x /\ t.height[c] = 1
                    /\ {t.left[x], t.right[x]} = {c, Null}

\* The tree is balanced and its heights are right, but for a short root.
Kept(t, V) == \A x \in V : FineIn(t, x) \/ Short(t, V, x)

\* What LinkSlot does
IsLinked(t, u, n, p) ==
    /\ u \in Trees /\ u.root = t.root /\ u.height = t.height
    /\ \A x \in Elem \ {p} : u.left[x] = t.left[x] /\ u.right[x] = t.right[x]
    /\ \/ t.left[p] = Null /\ u.left[p] = n /\ u.right[p] = t.right[p]
       \/ t.right[p] = Null /\ u.right[p] = n /\ u.left[p] = t.left[p]

LEMMA LinkSlotFields ==
  ASSUME NEW t \in Trees, NEW n \in Elem, NEW p \in Elem,
         GetKey[p] > GetKey[n] => t.left[p] = Null,
         ~(GetKey[p] > GetKey[n]) => t.right[p] = Null
  PROVE  IsLinked(t, LinkSlot(t, n, p), n, p)
<1> DEFINE u == LinkSlot(t, n, p)
<1>1. t.left \in [Elem -> Links] /\ t.right \in [Elem -> Links]
  BY TreesFields
<1>2. CASE GetKey[p] > GetKey[n]
  <2>1. /\ u \in Trees /\ u.root = t.root /\ u.left = [t.left EXCEPT ![p] = n]
        /\ u.right = t.right /\ u.height = t.height
    BY <1>2 DEF LinkSlot, Trees, Links
  <2>2. QED BY <1>1, <1>2, <2>1 DEF IsLinked
<1>3. CASE ~(GetKey[p] > GetKey[n])
  <2>1. /\ u \in Trees /\ u.root = t.root /\ u.right = [t.right EXCEPT ![p] = n]
        /\ u.left = t.left /\ u.height = t.height
    BY <1>3 DEF LinkSlot, Trees, Links
  <2>2. QED BY <1>1, <1>3, <2>1 DEF IsLinked
<1>4. QED BY <1>2, <1>3

\* Linking n changes nothing at the other nodes but p, which is where retracing
\* begins.
LEMMA LinkedStart ==
  ASSUME NEW t, NEW V, NEW S, HasTree(t, V, S), Kept(t, V), NEW n \in Elem \ V,
         t.left[n] = Null, t.right[n] = Null, t.height[n] = 1, NEW p \in V,
         NEW u, IsLinked(t, u, n, p), NEW S2, HasTree(u, V \cup {n}, S2)
  PROVE  Climb(u, V \cup {n}, S2, p, 1) \/ Late(u, V \cup {n}, S2, p)
<1>1. /\ t \in Trees /\ V \subseteq Elem /\ Null \notin V /\ Null \notin Elem
      /\ IsTree(t.root, t.left, t.right, t.parent, V, S, GetKey)
      /\ \A x \in V : t.left[x] \in V \cup {Null} /\ t.right[x] \in V \cup {Null}
  BY NullAssumption DEF HasTree, IsTree, Typed
<1>2. /\ u \in Trees /\ u.root = t.root /\ u.height = t.height
      /\ \A x \in Elem \ {p} : u.left[x] = t.left[x] /\ u.right[x] = t.right[x]
      /\ \/ t.left[p] = Null /\ u.left[p] = n /\ u.right[p] = t.right[p]
         \/ t.right[p] = Null /\ u.right[p] = n /\ u.left[p] = t.left[p]
  BY DEF IsLinked
<1>3. \A x \in V \ {p} : Same(t.left, t.right, t.height, u.left, u.right, u.height, x)
  BY <1>1, <1>2 DEF Same
<1>4. FineIn(u, n)
  BY <1>2, LeafFine
<1>5. Relinked(t.left, t.right, t.height, u.left, u.right, u.height, p, Null, n)
  BY <1>2 DEF Relinked
<1>6. Ht(u.height, n) = 1 /\ Ht(t.height, Null) = 0 /\ n # Null /\ n # p
  BY <1>1, <1>2 DEF Ht
<1>7. CASE \A x \in V : FineIn(t, x)
  <2>1. \A x \in (V \cup {n}) \ {p} : FineIn(u, x)
    BY <1>3, <1>4, <1>7, FineBy
  <2>2. Ht(u.height, n) - Ht(t.height, Null) \in {1 - 1, 1}
    BY <1>6
  <2>3. Off(u, p, 1)
    <3>1. n \in Links /\ Null \in Links /\ p \in Elem
      BY <1>1 DEF Links
    <3>2. FineIn(t, p)
      BY <1>7
    <3>3. QED BY <1>1, <1>2, <1>5, <2>2, <3>1, <3>2, Grown
  <2>4. QED BY <2>1, <2>3 DEF Climb
<1>8. CASE \E x \in V : Short(t, V, x)
  <2> DEFINE r == t.root
  <2>1. PICK c \in V : /\ V = {r, c} /\ c # r /\ t.height[c] = 1 /\ t.height[r] = 1
                       /\ {t.left[r], t.right[r]} = {c, Null} /\ r \in V
    BY <1>8 DEF Short
  <2>2. FineIn(t, c)
    BY <2>1 DEF Kept, Short
  <2>3. c # Null /\ n # c /\ n # r
    BY <1>1, <2>1
  <2>4. CASE p = r
    <3>1. \A x \in (V \cup {n}) \ {p} : FineIn(u, x)
      BY <1>3, <1>4, <2>1, <2>2, <2>4, FineBy
    <3>2. {u.left[p], u.right[p]} = {n, c}
      BY <1>2, <2>1, <2>3, <2>4
    <3>3. LEFT_HEIGHT(u, p) = 1 /\ RIGHT_HEIGHT(u, p) = 1
      BY <1>2, <1>6, <2>1, <2>3, <3>2 DEF LEFT_HEIGHT, RIGHT_HEIGHT
    <3>4. Lean(u, p) = 0
      BY <3>3 DEF Lean
    <3>5. AtTop(u, p)
      BY <1>2, <2>4, <3>4 DEF AtTop
    <3>6. QED BY <3>1, <3>5 DEF Climb
  <2>5. CASE p = c
    <3>1. Ht(t.height, t.left[c]) \in Nat /\ Ht(t.height, t.right[c]) \in Nat
      BY <1>1, <2>1, TreesFields, HtNat
    <3>2. Ht(t.height, t.left[c]) = 0 /\ Ht(t.height, t.right[c]) = 0
      <4>1. t.height[c] = AVL_MAX(Ht(t.height, t.left[c]), Ht(t.height, t.right[c])) + 1
        BY <2>2 DEF FineIn, Fine, Tall
      <4>2. QED BY <2>1, <3>1, <4>1 DEF AVL_MAX
    <3>3. \/ Ht(u.height, u.left[c]) = 1 /\ Ht(u.height, u.right[c]) = 0
          \/ Ht(u.height, u.left[c]) = 0 /\ Ht(u.height, u.right[c]) = 1
      BY <1>2, <1>6, <2>5, <3>2
    <3>4. HeightAbove(u, c) = 2 /\ Lean(u, c) \in -1 .. 1
      <4>1. LEFT_HEIGHT(u, c) = Ht(u.height, u.left[c])
            /\ RIGHT_HEIGHT(u, c) = Ht(u.height, u.right[c])
        BY DEF LEFT_HEIGHT, RIGHT_HEIGHT, Ht
      <4>2. QED BY <3>3, <4>1 DEF HeightAbove, Lean, AVL_MAX
    <3>5. u.left[r] = t.left[r] /\ u.right[r] = t.right[r]
      BY <1>1, <1>2, <2>1, <2>5
    <3>6. \A x \in (V \cup {n}) \ {c, r} : FineIn(u, x)
      BY <1>4, <2>1
    <3>7. Late(u, V \cup {n}, S2, c)
      BY <1>2, <2>1, <3>4, <3>5, <3>6 DEF Late
    <3>8. QED BY <2>5, <3>7
  <2>6. QED BY <2>1, <2>4, <2>5
<1>9. QED BY <1>7, <1>8 DEF Kept

\* A new node of height 1 is linked in, and the tree is balanced again.
LEMMA LinkedBalances ==
  ASSUME NEW t, NEW V, NEW S, HasTree(t, V, S), Kept(t, V), NEW n \in Elem \ V,
         t.left[n] = Null, t.right[n] = Null, t.parent[n] = Null, t.height[n] = 1,
         \A e \in V : GetKey[e] # GetKey[n]
  PROVE  Kept(Linked(t, n), V \cup {n})
<1> DEFINE single == t.left[t.root] = Null /\ t.right[t.root] = Null
           p == SlotParent(t, GetKey[n])
<1>1. /\ t \in Trees /\ V \subseteq Elem /\ n \in Elem /\ n # Null /\ Null \notin V
      /\ S \in [V \cup {Null} -> SUBSET V] /\ S[Null] = {}
      /\ t.root \in V \cup {Null} /\ S[t.root] = V
      /\ IsTree(t.root, t.left, t.right, t.parent, V, S, GetKey)
  BY NullAssumption DEF HasTree, IsTree, Typed
<1>2. CASE t.root = Null
  <2> DEFINE u == [t EXCEPT !.root = n]
  <2>1. V \cup {n} = {n} /\ Linked(t, n) = u
    BY <1>1, <1>2 DEF Linked
  <2>2. u.left = t.left /\ u.right = t.right /\ u.height = t.height
    BY <1>1 DEF Trees
  <2> HIDE DEF u
  <2>3. FineIn(u, n)
    BY <2>2, LeafFine
  <2>4. QED BY <2>1, <2>3 DEF Kept
<1>3. CASE t.root # Null /\ single
  <2> DEFINE r == t.root
             u == LinkSlot(t, n, r)
  <2>1. r \in V /\ r # n /\ Linked(t, n) = u
    BY <1>1, <1>3 DEF Linked
  <2>2. V = {r}
    BY <1>1, <1>3, <2>1 DEF IsTree, Unfolds
  <2>3. IsLinked(t, u, n, r)
    BY <1>1, <1>3, <2>1, LinkSlotFields
  <2> HIDE DEF u
  <2>4. t.height[r] = 1
    <3>1. ~Short(t, V, r)
      BY <2>2 DEF Short
    <3>2. FineIn(t, r)
      BY <2>1, <3>1 DEF Kept
    <3>3. QED BY <1>3, <3>2, LeafFine
  <2>5. FineIn(u, n)
    <3>1. u.left[n] = Null /\ u.right[n] = Null /\ u.height[n] = 1
      BY <1>1, <2>1, <2>3 DEF IsLinked
    <3>2. QED BY <3>1, LeafFine
  <2>6. Short(u, V \cup {n}, r)
    <3>1. u.root = r /\ u.height[r] = 1 /\ u.height[n] = 1
      BY <2>3, <2>4 DEF IsLinked
    <3>2. {u.left[r], u.right[r]} = {n, Null}
      BY <1>3, <2>3 DEF IsLinked
    <3>3. V \cup {n} = {r, n}
      BY <2>2
    <3>4. QED BY <2>1, <3>1, <3>2, <3>3 DEF Short
  <2>7. QED BY <2>1, <2>2, <2>5, <2>6 DEF Kept
<1>4. CASE t.root # Null /\ ~single
  <2>1. Linked(t, n) = InsertFixup(LinkSlot(t, n, p), p)
    BY <1>4 DEF Linked
  <2>2. /\ p \in V /\ Fits(t.left, t.right, V, S, GetKey, n, p)
        /\ GetKey[p] > GetKey[n] => t.left[p] = Null
        /\ ~(GetKey[p] > GetKey[n]) => t.right[p] = Null
    BY <1>1, <1>4, SlotParentLemma
  <2> HIDE DEF p
  <2> DEFINE u == LinkSlot(t, n, p)
  <2>3. Rearranged(t, u, V \cup {n})
    BY <2>2, LinkSlotLemma
  <2>4. IsLinked(t, u, n, p)
    BY <1>1, <2>2, LinkSlotFields
  <2> HIDE DEF u
  <2>5. PICK S2 : HasTree(u, V \cup {n}, S2)
    BY <2>3 DEF Rearranged
  <2>6. Climb(u, V \cup {n}, S2, p, 1) \/ Late(u, V \cup {n}, S2, p)
    BY <2>2, <2>4, <2>5, LinkedStart
  <2>7. AllFine(InsertFixup(u, p), V \cup {n})
    BY <2>6, InsertFixupBalances
  <2>8. QED BY <2>1, <2>7 DEF AllFine, Kept, u
<1>5. QED BY <1>2, <1>3, <1>4

\* n is cut out: retracing begins at its parent.
LEMMA BypassedClimbs ==
  ASSUME NEW t, NEW V, NEW S, HasTree(t, V, S), Kept(t, V), NEW n \in V, NEW c,
         (t.left[n] = Null /\ t.right[n] = c) \/ (t.right[n] = Null /\ t.left[n] = c)
  PROVE  Climb(Bypassed(t, n, c, t.parent[n]), V \ {n}, CutSets(V, S, n), t.parent[n], 0)
<1> DEFINE p == t.parent[n]
           u == Bypassed(t, n, c, p)
           S2 == CutSets(V, S, n)
<1>1. /\ t \in Trees /\ V \subseteq Elem /\ Null \notin V /\ Null \notin Elem
      /\ c \in V \cup {Null} /\ c \in Links /\ p \in Links
      /\ IsTree(t.root, t.left, t.right, t.parent, V, S, GetKey)
      /\ \A x \in V : t.left[x] \in V \cup {Null} /\ t.right[x] \in V \cup {Null}
  BY TreesFields, NullAssumption DEF HasTree, IsTree, Typed, Links
<1>2. HasTree(u, V \ {n}, S2)
  BY BypassedLemma
<1>3. c # Null => c # n /\ p # c
  BY <1>1, LeftChild, RightChild
<1>4. p # Null => /\ p \in V /\ p # n /\ n # t.root /\ n \in {t.left[p], t.right[p]}
                  /\ t.left[p] # t.right[p]
  <2> SUFFICES ASSUME p # Null
               PROVE  /\ p \in V /\ p # n /\ n # t.root /\ n \in {t.left[p], t.right[p]}
                      /\ t.left[p] # t.right[p]
    OBVIOUS
  <2>1. p \in V /\ p # n
    BY <1>1, ParentOutside
  <2>2. n # t.root /\ n \in {t.left[p], t.right[p]}
    BY <1>1 DEF IsTree, Parents
  <2>3. t.left[p] # t.right[p]
    BY <1>1, <2>1, <2>2, LeftChild, RightChild
  <2>4. QED BY <2>1, <2>2, <2>3
<1>5. n # t.root => p # Null
  BY <1>1 DEF IsTree, Parents
<1> HIDE DEF p
<1>6. IsBypassed(t, u, n, c, p)
  BY <1>1, BypassedFields
<1> HIDE DEF u
<1>7. /\ u \in Trees /\ u.height = t.height
      /\ \A x \in V \ {p} : u.left[x] = t.left[x] /\ u.right[x] = t.right[x]
  BY <1>1, <1>6, TreesFields DEF IsBypassed
<1>8. p # Null => \/ t.left[p] = n /\ u.left[p] = c /\ u.right[p] = t.right[p]
                  \/ t.right[p] = n /\ u.right[p] = c /\ u.left[p] = t.left[p]
  BY <1>1, <1>4, <1>6, TreesFields DEF IsBypassed
<1>9. \A x \in V \ {p} : Same(t.left, t.right, t.height, u.left, u.right, u.height, x)
  BY <1>7 DEF Same
<1>10. ASSUME NEW x \in (V \ {n}) \ {p} PROVE FineIn(u, x)
  <2>1. ~Short(t, V, x)
    <3> SUFFICES ASSUME Short(t, V, x) PROVE FALSE
      OBVIOUS
    <3>1. n # t.root /\ V = {x, n}
      BY <1>10 DEF Short
    <3>2. QED BY <1>4, <1>5, <1>10, <3>1
  <2>2. FineIn(t, x)
    BY <1>10, <2>1 DEF Kept
  <2>3. QED BY <1>9, <1>10, <2>2, FineBy
<1>11. ASSUME p # Null PROVE Off(u, p, 0)
  <2>1. FineIn(t, n)
    BY <1>4, <1>11 DEF Kept, Short
  <2>2. t.height[n] \in Nat /\ Ht(t.height, c) \in Nat
    BY <1>1, TreesFields, HtNat
  <2>3. t.height[n] = Ht(t.height, c) + 1
    <3>1. t.height[n] = AVL_MAX(Ht(t.height, t.left[n]), Ht(t.height, t.right[n])) + 1
      BY <2>1 DEF FineIn, Fine, Tall
    <3>2. Ht(t.height, Null) = 0
      BY DEF Ht
    <3>3. QED BY <2>2, <3>1, <3>2 DEF AVL_MAX
  <2>4. CASE FineIn(t, p)
    <3>1. Relinked(t.left, t.right, t.height, u.left, u.right, u.height, p, n, c)
      BY <1>7, <1>8, <1>11 DEF Relinked
    <3>2. Ht(u.height, c) - Ht(t.height, n) \in {0 - 1, 0}
      <4>1. Ht(t.height, n) = t.height[n]
        BY <1>1 DEF Ht
      <4>2. QED BY <1>7, <2>2, <2>3, <4>1
    <3>3. p \in Elem /\ n \in Links
      BY <1>1, <1>4, <1>11 DEF Links
    <3>4. QED BY <1>1, <1>7, <2>4, <3>1, <3>2, <3>3, Grown
  <2>5. CASE Short(t, V, p)
    <3>1. /\ V = {p, n} /\ t.height[n] = 1 /\ t.height[p] = 1
          /\ {t.left[p], t.right[p]} = {n, Null}
      BY <1>4, <1>11, <2>5 DEF Short
    <3>2. c = Null
      BY <1>1, <1>3, <3>1
    <3>3. u.left[p] = Null /\ u.right[p] = Null
      BY <1>1, <1>8, <1>11, <3>1, <3>2
    <3>4. LEFT_HEIGHT(u, p) = 0 /\ RIGHT_HEIGHT(u, p) = 0 /\ u.height[p] = 1
      BY <1>7, <3>1, <3>3 DEF LEFT_HEIGHT, RIGHT_HEIGHT
    <3>5. HeightAbove(u, p) = 1 /\ Lean(u, p) = 0
      BY <3>4 DEF HeightAbove, Lean, AVL_MAX
    <3>6. QED BY <3>4, <3>5 DEF Off
  <2>6. QED BY <1>4, <1>11, <2>4, <2>5 DEF Kept
<1>12. p \in (V \ {n}) \cup {Null}
  BY <1>4
<1>13. Climb(u, V \ {n}, S2, p, 0)
  BY <1>2, <1>10, <1>11, <1>12 DEF Climb
<1>14. QED BY <1>13 DEF u, p

\* A tree with a node of two children has no short root.
LEMMA NoneShort ==
  ASSUME NEW t, NEW V, NEW S, HasTree(t, V, S), Kept(t, V), NEW n \in V,
         t.left[n] # Null, t.right[n] # Null
  PROVE  AllFine(t, V)
<1>1. t.left[n] \in V /\ t.right[n] \in V /\ t.left[n] # t.right[n]
      /\ t.left[n] # n /\ t.right[n] # n
  BY LeftChild, RightChild DEF HasTree
<1>2. \A x \in V : ~Short(t, V, x)
  BY <1>1 DEF Short
<1>3. QED BY <1>2 DEF Kept, AllFine

\* Node s takes the place of node n, its children but one and its height.
Moved(t, v, V, n, s) ==
    LET p == t.parent[n]
        m == t.parent[s]
    IN  /\ v \in Trees
        /\ v.left[s] = t.left[n] /\ v.height[s] = t.height[n]
        /\ \A x \in V \ {s} : v.height[x] = t.height[x]
        /\ \A x \in V \ {n, s, p, m} : v.left[x] = t.left[x] /\ v.right[x] = t.right[x]
        /\ p # Null => \/ t.left[p] = n /\ v.left[p] = s /\ v.right[p] = t.right[p]
                       \/ t.right[p] = n /\ v.right[p] = s /\ v.left[p] = t.left[p]
        /\ m = n => v.right[s] = t.right[s]
        /\ m # n => /\ v.right[s] = t.right[n]
                    /\ \/ t.left[m] = s /\ v.left[m] = t.right[s] /\ v.right[m] = t.right[m]
                       \/ t.right[m] = s /\ v.right[m] = t.right[s] /\ v.left[m] = t.left[m]

LEMMA PlacedHeight ==
  ASSUME NEW t \in Trees, NEW old, NEW new \in Links, NEW p \in Links
  PROVE  ChildPlace(t, old, new, p).height = t.height
BY DEF ChildPlace, Trees, Links

LEMMA PromotedHeights ==
  ASSUME NEW u \in Trees, NEW l \in Elem, NEW s \in Elem, NEW p \in Links, NEW n,
         NEW h \in Nat
  PROVE  LET v == Promoted(u, l, s, p, n, h)
         IN  v.height[s] = h /\ \A x \in Elem \ {s} : v.height[x] = u.height[x]
<1> DEFINE a == SetParent(u, l, s)
           b == [a EXCEPT !.left[s] = l, !.parent[s] = p, !.height[s] = h]
           v == ChildPlace(b, n, s, p)
<1>1. /\ l \in Links /\ s \in Links /\ l # Null /\ s # Null /\ Null \notin Elem
      /\ Links = Elem \cup {Null}
  BY NullAssumption DEF Links
<1>2. /\ a \in Trees /\ a.root = u.root /\ a.left = u.left /\ a.right = u.right
      /\ a.height = u.height /\ a.parent = [u.parent EXCEPT ![l] = s]
  BY <1>1, SetParentLemma
<1> HIDE DEF a
<1>3. b \in Trees /\ b.height = [a.height EXCEPT ![s] = h]
  BY <1>1, <1>2 DEF Trees
<1> HIDE DEF b
<1>4. v.height = b.height
  BY <1>1, <1>3, PlacedHeight
<1> HIDE DEF v
<1>5. a.height \in [Elem -> Nat]
  BY <1>2, TreesFields
<1>6. v.height[s] = h /\ \A x \in Elem \ {s} : v.height[x] = u.height[x]
  BY <1>2, <1>3, <1>4, <1>5
<1>7. QED BY <1>6 DEF v, b, a, Promoted

LEMMA MovedChild ==
  ASSUME NEW t, NEW V, NEW S, HasTree(t, V, S), NEW n, NEW s, Succeeds(t, V, S, n, s),
         t.parent[s] = n
  PROVE  Moved(t, Promoted(t, t.left[n], s, t.parent[n], n, t.height[n]), V, n, s)
<1> DEFINE l == t.left[n]
           p == t.parent[n]
           h == t.height[n]
           v == Promoted(t, l, s, p, n, h)
<1>1. /\ t \in Trees /\ V \subseteq Elem /\ Null \notin V
  BY DEF HasTree, IsTree, Typed
<1>2. /\ n \in V /\ s \in V /\ s # n /\ l \in V /\ p # n /\ s \in S[t.right[n]]
      /\ l \notin S[t.right[n]] /\ p \notin S[t.right[n]]
      /\ p # Null => p \in V /\ n \in {t.left[p], t.right[p]}
  BY DEF Succeeds
<1>3. l \in Elem /\ s \in Elem /\ p \in Links /\ h \in Nat /\ p # s /\ l # s
  BY <1>1, <1>2, TreesFields
<1> HIDE DEF l, p, h
<1>4. v.height[s] = h /\ \A x \in Elem \ {s} : v.height[x] = t.height[x]
  BY <1>1, <1>3, PromotedHeights
<1>5. IsPromoted(t, v, l, s, p, n)
  BY <1>1, <1>3, PromotedFields
<1> HIDE DEF v
<1>6. /\ v \in Trees /\ v.left[s] = l
      /\ \A x \in Elem \ {s, p} : v.left[x] = t.left[x]
      /\ \A x \in Elem \ {p} : v.right[x] = t.right[x]
      /\ p # Null => IF n = t.left[p] THEN v.left[p] = s /\ v.right[p] = t.right[p]
                                      ELSE v.left[p] = t.left[p] /\ v.right[p] = s
  BY <1>5 DEF IsPromoted
<1>7. p # Null => \/ t.left[p] = n /\ v.left[p] = s /\ v.right[p] = t.right[p]
                  \/ t.right[p] = n /\ v.right[p] = s /\ v.left[p] = t.left[p]
  BY <1>2, <1>6
<1>8. v.right[s] = t.right[s]
  BY <1>3, <1>6
<1>9. Moved(t, v, V, n, s)
  BY <1>1, <1>4, <1>6, <1>7, <1>8 DEF Moved, l, p, h
<1>10. QED BY <1>9 DEF v, l, p, h

\* s, which has no left child, gets the right child of n.
IsGrown(cut, u, s, r) ==
    /\ u \in Trees /\ u.left = cut.left /\ u.height = cut.height
    /\ u.right[s] = r /\ \A x \in Elem \ {s} : u.right[x] = cut.right[x]

LEMMA GrownFields ==
  ASSUME NEW cut \in Trees, NEW s \in Elem, NEW r \in Elem
  PROVE  IsGrown(cut, [SetParent(cut, r, s) EXCEPT !.right[s] = r], s, r)
<1> DEFINE a == SetParent(cut, r, s)
           u == [a EXCEPT !.right[s] = r]
<1>1. /\ s \in Links /\ r \in Links /\ r # Null /\ Null \notin Elem
      /\ Links = Elem \cup {Null}
  BY NullAssumption DEF Links
<1>2. /\ a \in Trees /\ a.root = cut.root /\ a.left = cut.left /\ a.right = cut.right
      /\ a.height = cut.height /\ a.parent = [cut.parent EXCEPT ![r] = s]
  BY <1>1, SetParentLemma
<1> HIDE DEF a
<1>3. /\ u \in Trees /\ u.left = a.left /\ u.height = a.height
      /\ u.right = [a.right EXCEPT ![s] = r]
  BY <1>1, <1>2 DEF Trees
<1> HIDE DEF u
<1>4. a.right \in [Elem -> Links]
  BY <1>2, TreesFields
<1>5. IsGrown(cut, u, s, r)
  BY <1>2, <1>3, <1>4 DEF IsGrown
<1>6. QED BY <1>5 DEF u, a

LEMMA MovedDeep ==
  ASSUME NEW t, NEW V, NEW S, HasTree(t, V, S), NEW n, NEW s, Succeeds(t, V, S, n, s),
         NEW cut, cut = Bypassed(t, s, t.right[s], t.parent[s]), t.parent[s] # n,
         NEW u, IsGrown(cut, u, s, t.right[n])
  PROVE  Moved(t, Promoted(u, t.left[n], s, t.parent[n], n, t.height[n]), V, n, s)
<1> DEFINE l == t.left[n]
           p == t.parent[n]
           h == t.height[n]
           m == t.parent[s]
           r == t.right[n]
           c == t.right[s]
           v == Promoted(u, l, s, p, n, h)
<1>1. /\ t \in Trees /\ V \subseteq Elem /\ Null \notin V
  BY DEF HasTree, IsTree, Typed
<1>2. /\ n \in V /\ s \in V /\ s # n /\ l \in V /\ p # n /\ s \in S[r]
      /\ l \notin S[r] /\ p \notin S[r] /\ m \in V /\ m # s /\ m \in S[r]
      /\ s \in {t.left[m], t.right[m]} /\ r \in V /\ s # r
      /\ p # Null => p \in V /\ n \in {t.left[p], t.right[p]}
  BY DEF Succeeds
<1>3. /\ l \in Elem /\ s \in Elem /\ p \in Links /\ h \in Nat /\ p # s /\ l # s /\ m # p
      /\ m \in Links /\ m # Null /\ m \in Elem /\ c \in Links /\ r \in Links
      /\ s \in Links /\ r # Null /\ r \in Elem
  BY <1>1, <1>2, TreesFields DEF Links
<1>4. cut.right[n] = r /\ cut \in Trees
  <2>1. IsCutFor(t, cut, V, S, n, s)
    BY SuccessorBetween
  <2>2. QED BY <1>2, <2>1 DEF IsCutFor, HasTree
<1>5. IsBypassed(t, cut, s, c, m)
  BY <1>1, <1>3, BypassedFields
<1> HIDE DEF l, p, h, m, r, c
<1>6. /\ cut.height = t.height
      /\ \A x \in Elem \ {m} : cut.left[x] = t.left[x] /\ cut.right[x] = t.right[x]
      /\ \/ t.left[m] = s /\ cut.left[m] = c /\ cut.right[m] = t.right[m]
         \/ t.right[m] = s /\ cut.right[m] = c /\ cut.left[m] = t.left[m]
  BY <1>1, <1>2, <1>3, <1>5, TreesFields DEF IsBypassed
<1>7. /\ u \in Trees /\ u.left = cut.left /\ u.height = cut.height
      /\ u.right[s] = r /\ \A x \in Elem \ {s} : u.right[x] = cut.right[x]
  BY DEF IsGrown, r
<1>8. v.height[s] = h /\ \A x \in Elem \ {s} : v.height[x] = t.height[x]
  <2>1. l \in Elem /\ s \in Elem /\ p \in Links /\ h \in Nat /\ u \in Trees
    BY <1>3, <1>7
  <2>2. v.height[s] = h /\ \A x \in Elem \ {s} : v.height[x] = u.height[x]
    BY <2>1, PromotedHeights
  <2> HIDE DEF v
  <2>3. QED BY <1>6, <1>7, <2>2
<1>9. IsPromoted(u, v, l, s, p, n)
  BY <1>3, <1>7, PromotedFields
<1> HIDE DEF v
<1>10. /\ v \in Trees /\ v.left[s] = l
       /\ \A x \in Elem \ {s, p} : v.left[x] = u.left[x]
       /\ \A x \in Elem \ {p} : v.right[x] = u.right[x]
       /\ p # Null => IF n = u.left[p] THEN v.left[p] = s /\ v.right[p] = u.right[p]
                                       ELSE v.left[p] = u.left[p] /\ v.right[p] = s
  BY <1>9 DEF IsPromoted
<1>11. p # Null => u.left[p] = t.left[p] /\ u.right[p] = t.right[p]
  BY <1>1, <1>2, <1>3, <1>6, <1>7
<1>12. p # Null => \/ t.left[p] = n /\ v.left[p] = s /\ v.right[p] = t.right[p]
                   \/ t.right[p] = n /\ v.right[p] = s /\ v.left[p] = t.left[p]
  BY <1>2, <1>10, <1>11
<1>13. v.right[s] = r
  BY <1>3, <1>7, <1>10
<1>14. \/ t.left[m] = s /\ v.left[m] = c /\ v.right[m] = t.right[m]
       \/ t.right[m] = s /\ v.right[m] = c /\ v.left[m] = t.left[m]
  <2>1. v.left[m] = u.left[m] /\ v.right[m] = u.right[m] /\ u.right[m] = cut.right[m]
        /\ u.left[m] = cut.left[m]
    BY <1>2, <1>3, <1>7, <1>10
  <2>2. QED BY <1>6, <2>1
<1>15. \A x \in V \ {n, s, p, m} : v.left[x] = t.left[x] /\ v.right[x] = t.right[x]
  <2> SUFFICES ASSUME NEW x \in V \ {n, s, p, m}
               PROVE  v.left[x] = t.left[x] /\ v.right[x] = t.right[x]
    BY DEF p, m
  <2>1. x \in Elem /\ x # s /\ x # p /\ x # m
    BY <1>1
  <2>2. v.left[x] = u.left[x] /\ v.right[x] = u.right[x]
    BY <1>10, <2>1
  <2>3. u.left[x] = cut.left[x] /\ u.right[x] = cut.right[x]
    BY <1>7, <2>1
  <2>4. QED BY <1>6, <2>1, <2>2, <2>3
<1>16. Moved(t, v, V, n, s)
  BY <1>1, <1>8, <1>10, <1>12, <1>13, <1>14, <1>15 DEF Moved, l, p, h, m, r, c
<1>17. QED BY <1>16 DEF v, l, p, h

\* Where retracing begins when s has taken the place of n
Under(t, n, s) == IF t.parent[s] = n THEN s ELSE t.parent[s]

LEMMA MovedClimbs ==
  ASSUME NEW t, NEW V, NEW S, HasTree(t, V, S), AllFine(t, V), NEW n, NEW s,
         Succeeds(t, V, S, n, s), NEW v, Moved(t, v, V, n, s),
         NEW S2, HasTree(v, V \ {n}, S2)
  PROVE  Climb(v, V \ {n}, S2, Under(t, n, s), 0)
<1> DEFINE p == t.parent[n]
           m == t.parent[s]
           c == t.right[s]
<1>1. /\ t \in Trees /\ v \in Trees /\ V \subseteq Elem /\ Null \notin V
      /\ \A x \in V : t.left[x] \in V \cup {Null} /\ t.right[x] \in V \cup {Null}
      /\ \A x \in V : /\ t.left[x] # Null => t.parent[t.left[x]] = x
                      /\ t.right[x] # Null => t.parent[t.right[x]] = x
      /\ IsTree(t.root, t.left, t.right, t.parent, V, S, GetKey)
  BY DEF HasTree, IsTree, Typed, Parents
<1>2. /\ n \in V /\ s \in V /\ s # n /\ t.left[s] = Null /\ m \in V /\ m # s
      /\ m = n <=> s = t.right[n]
      /\ m # n => m \in S[t.right[n]]
      /\ p \notin S[t.right[n]] /\ p # n /\ s \in S[t.right[n]]
      /\ t.left[n] \in V /\ t.right[n] \in V /\ t.left[n] \notin S[t.right[n]]
      /\ p # Null => p \in V /\ n \in {t.left[p], t.right[p]}
      /\ s \in {t.left[m], t.right[m]}
  BY DEF Succeeds
<1>3. /\ v.left[s] = t.left[n] /\ v.height[s] = t.height[n]
      /\ \A x \in V \ {s} : v.height[x] = t.height[x]
      /\ \A x \in V \ {n, s, p, m} : v.left[x] = t.left[x] /\ v.right[x] = t.right[x]
      /\ p # Null => \/ t.left[p] = n /\ v.left[p] = s /\ v.right[p] = t.right[p]
                     \/ t.right[p] = n /\ v.right[p] = s /\ v.left[p] = t.left[p]
      /\ m = n => v.right[s] = t.right[s]
      /\ m # n => /\ v.right[s] = t.right[n]
                  /\ \/ t.left[m] = s /\ v.left[m] = t.right[s] /\ v.right[m] = t.right[m]
                     \/ t.right[m] = s /\ v.right[m] = t.right[s] /\ v.left[m] = t.left[m]
  BY DEF Moved
<1>4. c \in V \cup {Null} /\ c # s /\ c # n
  <2>1. c # Null => c # s /\ t.parent[s] # c
    BY <1>1, <1>2, RightChild
  <2>2. c # Null => c \in S[t.right[n]] /\ n \notin S[t.right[n]]
    BY DEF Succeeds
  <2>3. QED BY <1>1, <1>2, <2>1, <2>2
<1>5. \A x \in (V \cup {Null}) \ {s} : Ht(v.height, x) = Ht(t.height, x)
  BY <1>3 DEF Ht
<1>6. \A x \in V : FineIn(t, x)
  BY DEF AllFine
<1>7. p # s /\ t.left[n] # s /\ (p # Null => p # m)
  BY <1>2
<1>8. t.height \in [Elem -> Nat] /\ v.height \in [Elem -> Nat]
  BY <1>1, TreesFields
<1>9. t.height[s] = Ht(t.height, c) + 1 /\ Ht(t.height, c) \in Nat
  <2>1. t.height[s] = AVL_MAX(Ht(t.height, t.left[s]), Ht(t.height, c)) + 1
    BY <1>2, <1>6 DEF FineIn, Fine, Tall
  <2>2. Ht(t.height, c) \in Nat /\ Ht(t.height, t.left[s]) = 0
    BY <1>1, <1>2, <1>4, <1>8, HtNat DEF Links, Ht
  <2>3. QED BY <2>1, <2>2 DEF AVL_MAX
<1>10. ASSUME NEW x \in (V \ {n}) \ {s, m} PROVE FineIn(v, x)
  <2>1. CASE x = p
    <3>1. t.left[p] # t.right[p]
      BY <1>1, <1>2, <1>10, <2>1, LeftChild, RightChild
    <3>2. t.left[p] # s /\ t.right[p] # s
      BY <1>1, <1>2, <1>10, <2>1
    <3>3. Ht(v.height, s) = Ht(t.height, n)
      BY <1>1, <1>2, <1>3 DEF Ht
    <3>4. Ht(v.height, v.left[p]) = Ht(t.height, t.left[p])
          /\ Ht(v.height, v.right[p]) = Ht(t.height, t.right[p])
      BY <1>1, <1>3, <1>5, <1>10, <2>1, <3>1, <3>2, <3>3
    <3>5. v.height[p] = t.height[p]
      BY <1>3, <1>10, <2>1
    <3>6. QED BY <1>6, <1>10, <2>1, <3>4, <3>5 DEF FineIn, Fine, Tall, Even
  <2>2. CASE x # p
    <3>1. t.left[x] # s /\ t.right[x] # s
      BY <1>1, <1>2, <1>10
    <3>2. Same(t.left, t.right, t.height, v.left, v.right, v.height, x)
      BY <1>1, <1>3, <1>5, <1>10, <2>2, <3>1 DEF Same
    <3>3. QED BY <1>6, <1>10, <3>2, FineBy
  <2>3. QED BY <2>1, <2>2
<1>11. ASSUME m = n PROVE Climb(v, V \ {n}, S2, s, 0)
  <2>1. v.left[s] = t.left[n] /\ v.right[s] = c /\ v.height[s] = t.height[n]
    BY <1>3, <1>11
  <2> DEFINE a == Ht(t.height, t.left[n])
             b == Ht(t.height, c)
  <2>2. LEFT_HEIGHT(v, s) = a /\ RIGHT_HEIGHT(v, s) = b
    BY <1>2, <1>4, <1>5, <1>7, <2>1 DEF LEFT_HEIGHT, RIGHT_HEIGHT, Ht
  <2>3. t.height[n] = AVL_MAX(a, b + 1) + 1 /\ a - (b + 1) \in -1 .. 1
    <3>1. Ht(t.height, t.right[n]) = b + 1
      BY <1>1, <1>2, <1>9, <1>11 DEF Ht
    <3>2. FineIn(t, n)
      BY <1>2, <1>6
    <3>3. QED BY <3>1, <3>2 DEF FineIn, Fine, Tall, Even
  <2>4. a \in Nat /\ b \in Nat
    BY <1>2, <1>8, <1>9, HtNat, <1>1 DEF Links
  <2> HIDE DEF a, b
  <2>5. Lean(v, s) = a - b /\ HeightAbove(v, s) = AVL_MAX(a, b) + 1
    BY <2>2 DEF Lean, HeightAbove
  <2>6. Lean(v, s) \in -2 .. 2
    BY <2>3, <2>4, <2>5
  <2>7. HeightAbove(v, s) - v.height[s] \in {0 - 1, 0}
    BY <2>1, <2>3, <2>4, <2>5 DEF AVL_MAX
  <2>8. Lean(v, s) \in {-2, 2} => HeightAbove(v, s) = v.height[s] + 0
    BY <2>1, <2>3, <2>4, <2>5 DEF AVL_MAX
  <2>9. Off(v, s, 0)
    BY <2>6, <2>7, <2>8 DEF Off
  <2>10. QED BY <1>2, <1>10, <1>11, <2>9 DEF Climb
<1>12. ASSUME m # n PROVE Climb(v, V \ {n}, S2, m, 0)
  <2>1. FineIn(v, s)
    <3>1. v.right[s] = t.right[n] /\ t.right[n] # s
      BY <1>2, <1>3, <1>12
    <3>2. Ht(v.height, v.left[s]) = Ht(t.height, t.left[n])
          /\ Ht(v.height, v.right[s]) = Ht(t.height, t.right[n])
      BY <1>2, <1>3, <1>5, <1>7, <3>1
    <3>3. QED BY <1>2, <1>3, <1>6, <3>2 DEF FineIn, Fine, Tall, Even
  <2>2. Off(v, m, 0)
    <3>1. t.left[m] # t.right[m]
      BY <1>1, <1>2, LeftChild, RightChild
    <3>2. Relinked(t.left, t.right, t.height, v.left, v.right, v.height, m, s, c)
      BY <1>1, <1>2, <1>3, <1>5, <1>12, <3>1 DEF Relinked
    <3>3. Ht(v.height, c) - Ht(t.height, s) \in {0 - 1, 0}
      <4>1. Ht(t.height, s) = t.height[s] /\ Ht(v.height, c) = Ht(t.height, c)
        BY <1>1, <1>2, <1>4, <1>5 DEF Ht
      <4>2. QED BY <1>9, <4>1
    <3>4. m \in Elem /\ s \in Links /\ c \in Links /\ FineIn(t, m)
      BY <1>1, <1>2, <1>4, <1>6 DEF Links
    <3>5. QED BY <1>1, <3>2, <3>3, <3>4, Grown
  <2>3. \A x \in (V \ {n}) \ {m} : FineIn(v, x)
    BY <1>10, <2>1
  <2>4. QED BY <1>2, <1>12, <2>2, <2>3 DEF Climb
<1>13. QED BY <1>11, <1>12 DEF Under

\* A node is taken out, and the tree of the others is balanced.
LEMMA EraseBalances ==
  ASSUME NEW t, NEW V, NEW S, HasTree(t, V, S), Kept(t, V), NEW n \in V
  PROVE  AllFine(Erase(t, n), V \ {n})
<1> DEFINE parent == t.parent[n]
           s == GetFirstNode(t, t.right[n])
           under == t.parent[s]
           child == IF t.left[n] # Null THEN t.left[n] ELSE t.right[n]
           cut == Bypassed(t, s, t.right[s], under)
           grown == [SetParent(cut, cut.right[n], s) EXCEPT !.right[s] = cut.right[n]]
           InPlace(u) == Promoted(u, t.left[n], s, parent, n, t.height[n])
<1>1. t.height[n] \in Nat
  BY TreesFields DEF HasTree, IsTree, Typed
<1>2. Erase(t, n) = IF t.left[n] # Null /\ t.right[n] # Null
                    THEN IF under = n THEN EraseFixup(InPlace(t), s)
                                      ELSE EraseFixup(InPlace(grown), under)
                    ELSE EraseFixup(Bypassed(t, n, child, parent), parent)
  BY Zenon DEF Erase, Bypassed, Promoted
<1>3. CASE t.left[n] # Null /\ t.right[n] # Null
  <2>1. Succeeds(t, V, S, n, s)
    BY <1>3, SuccessorLemma
  <2>2. AllFine(t, V)
    BY <1>3, NoneShort
  <2> HIDE DEF s
  <2>3. CASE under = n
    <3>1. Ready(t, cut, t, V, n, s)
      BY <2>1, <2>3, ReadyChild
    <3>2. Without(t, InPlace(t), V, n)
      BY <1>1, <2>1, <3>1, PromotedLemma
    <3>3. Moved(t, InPlace(t), V, n, s)
      BY <2>1, <2>3, MovedChild
    <3> HIDE DEF cut, grown, InPlace
    <3>4. PICK S2 : HasTree(InPlace(t), V \ {n}, S2)
      BY <3>2 DEF Without
    <3>5. Climb(InPlace(t), V \ {n}, S2, s, 0)
      BY <2>1, <2>2, <2>3, <3>3, <3>4, MovedClimbs DEF Under
    <3>6. QED BY <1>2, <1>3, <2>3, <3>5, EraseFixupBalances
  <2>4. CASE under # n
    <3>1. Ready(t, cut, grown, V, n, s)
      BY <2>1, <2>4, ReadyDeep
    <3>2. Moved(t, InPlace(grown), V, n, s)
      <4>1. cut.right[n] = t.right[n] /\ cut \in Trees
        <5>1. IsCutFor(t, cut, V, S, n, s)
          BY <2>1, SuccessorBetween
        <5>2. s # t.right[n]
          BY <2>1, <2>4 DEF Succeeds
        <5>3. QED BY <5>1, <5>2 DEF IsCutFor, HasTree
      <4>2. s \in Elem /\ t.right[n] \in Elem
        BY <2>1 DEF Succeeds, HasTree, IsTree, Typed
      <4>3. IsGrown(cut, grown, s, t.right[n])
        <5>1. grown = [SetParent(cut, t.right[n], s) EXCEPT !.right[s] = t.right[n]]
          BY <4>1
        <5> HIDE DEF cut, grown
        <5>2. QED BY <4>1, <4>2, <5>1, GrownFields
      <4> HIDE DEF grown
      <4>4. QED BY <2>1, <2>4, <4>3, MovedDeep
    <3> HIDE DEF grown
    <3>3. Without(t, InPlace(grown), V, n)
      BY <1>1, <2>1, <3>1, PromotedLemma
    <3> HIDE DEF cut, InPlace
    <3>4. PICK S2 : HasTree(InPlace(grown), V \ {n}, S2)
      BY <3>3 DEF Without
    <3>5. Climb(InPlace(grown), V \ {n}, S2, under, 0)
      BY <2>1, <2>2, <2>4, <3>2, <3>4, MovedClimbs DEF Under
    <3>6. QED BY <1>2, <1>3, <2>4, <3>5, EraseFixupBalances
  <2>5. QED BY <2>3, <2>4
<1>4. CASE t.left[n] = Null \/ t.right[n] = Null
  <2>1. (t.left[n] = Null /\ t.right[n] = child) \/ (t.right[n] = Null /\ t.left[n] = child)
    BY <1>4
  <2> HIDE DEF child
  <2>2. Climb(Bypassed(t, n, child, parent), V \ {n}, CutSets(V, S, n), parent, 0)
    BY <2>1, BypassedClimbs
  <2>3. Erase(t, n) = EraseFixup(Bypassed(t, n, child, parent), parent)
    BY <1>2, <1>4
  <2>4. QED BY <2>2, <2>3, EraseFixupBalances
<1>5. QED BY <1>3, <1>4

-----------------------------------------------------------------------------
\* Heights that every node has in the way of a balanced tree are the true ones,
\* and with them the tree passes VerifyAvlProperties.
LEMMA TrueHeights ==
  ASSUME NEW t, NEW V, NEW S, HasTree(t, V, S), NEW H \in [Elem -> Nat],
         \A x \in V : Tall(t.left, t.right, H, x)
  PROVE  \A x \in V : CalculateHeight(t)[x] = H[x]
<1> DEFINE I == [Elem -> Nat]
           above(h, n) == AVL_MAX(Ht(h, t.left[n]), Ht(h, t.right[n])) + 1
           pass == [h \in I |-> [n \in Elem |-> above(h, n)]]
           zero == [n \in Elem |-> 0]
           J == [k \in Nat |-> {h \in I : \A x \in V : Size(V, S)[x] <= k => h[x] = H[x]}]
<1>1. CalculateHeight(t) = Loop(pass, zero)
  BY Zenon DEF CalculateHeight, Ht
<1>2. /\ t \in Trees /\ V \subseteq Elem /\ Null \notin V
      /\ \A x \in V : t.left[x] \in V \cup {Null} /\ t.right[x] \in V \cup {Null}
  BY DEF HasTree, IsTree, Typed
<1>3. \A h \in I, n \in Elem : above(h, n) \in Nat
  <2> SUFFICES ASSUME NEW h \in I, NEW n \in Elem PROVE above(h, n) \in Nat
    OBVIOUS
  <2>1. Ht(h, t.left[n]) \in Nat /\ Ht(h, t.right[n]) \in Nat
    BY <1>2, TreesFields, HtNat
  <2>2. QED BY <2>1 DEF AVL_MAX
<1>4. \A h \in I : pass[h] \in I /\ \A n \in Elem : pass[h][n] = above(h, n)
  BY <1>3
<1>5. /\ Size(V, S) \in [V \cup {Null} -> Nat]
      /\ \A n \in V \cup {Null} : Size(V, S)[n] < Passes
      /\ \A n \in V : /\ Size(V, S)[n] > 0
                      /\ Size(V, S)[t.left[n]] < Size(V, S)[n]
                      /\ Size(V, S)[t.right[n]] < Size(V, S)[n]
  BY SizeLemma
<1> DEFINE size == Size(V, S)
<1>6. ASSUME NEW k \in Nat, NEW h \in I, h \in J[k] PROVE pass[h] \in J[k + 1]
  <2>1. \A x \in V : size[x] <= k => h[x] = H[x]
    BY <1>6
  <2>2. ASSUME NEW x \in V, size[x] <= k + 1 PROVE pass[h][x] = H[x]
    <3>1. size[x] \in Nat /\ size[t.left[x]] \in Nat /\ size[t.right[x]] \in Nat
      BY <1>2, <1>5
    <3>2. size[t.left[x]] <= k /\ size[t.right[x]] <= k
      BY <1>5, <2>2, <3>1
    <3>3. Ht(h, t.left[x]) = Ht(H, t.left[x]) /\ Ht(h, t.right[x]) = Ht(H, t.right[x])
      BY <1>2, <2>1, <3>2 DEF Ht
    <3>4. pass[h][x] = above(h, x)
      BY <1>2, <1>4
    <3>5. H[x] = AVL_MAX(Ht(H, t.left[x]), Ht(H, t.right[x])) + 1
      BY DEF Tall
    <3> HIDE DEF pass
    <3>6. QED BY <3>3, <3>4, <3>5
  <2>3. pass[h] \in I
    BY <1>4
  <2> HIDE DEF pass, I, size
  <2>4. J[k + 1] = {g \in I : \A x \in V : size[x] <= k + 1 => g[x] = H[x]}
    BY DEF size
  <2> HIDE DEF J
  <2>5. QED BY <2>2, <2>3, <2>4
<1>7. Closed(pass, I)
  BY <1>4 DEF Closed
<1>8. zero \in I /\ zero \in J[0]
  <2>1. zero \in I
    OBVIOUS
  <2>2. \A x \in V : ~(size[x] <= 0)
    BY <1>5
  <2> HIDE DEF zero, I
  <2>3. QED BY <2>1, <2>2
<1>9. Loop(pass, zero) \in J[Passes]
  <2> HIDE DEF pass, zero, I, J
  <2>1. \A k \in Nat : \A h \in I : h \in J[k] => pass[h] \in J[k + 1]
    BY <1>6
  <2>2. QED BY <1>7, <1>8, <2>1, LoopCounts
<1>10. J[Passes] = {h \in I : \A x \in V : size[x] <= Passes => h[x] = H[x]}
  BY PassesNat
<1> HIDE DEF J, pass, zero
<1>11. \A x \in V : size[x] <= Passes
  BY <1>5, PassesNat
<1>12. QED BY <1>1, <1>9, <1>10, <1>11

LEMMA TrulyBalanced ==
  ASSUME NEW t, NEW S, HasTree(t, Nodes(t), S), NEW H \in [Elem -> Nat],
         \A x \in Nodes(t) : Fine(t.left, t.right, H, x)
  PROVE  VerifyAvlProperties(t) /\ \A x \in Nodes(t) : CalculateHeight(t)[x] = H[x]
<1> DEFINE V == Nodes(t)
           C == CalculateHeight(t)
<1>1. \A x \in V : C[x] = H[x]
  BY TrueHeights DEF Fine
<1>2. \A x \in V : t.left[x] \in V \cup {Null} /\ t.right[x] \in V \cup {Null}
  BY DEF HasTree, IsTree, Typed
<1> HIDE DEF C, V
<1>3. \A x \in V : Ht(C, t.left[x]) - Ht(C, t.right[x]) \in -1 .. 1
  <2> SUFFICES ASSUME NEW x \in V PROVE Ht(C, t.left[x]) - Ht(C, t.right[x]) \in -1 .. 1
    OBVIOUS
  <2>1. Ht(C, t.left[x]) = Ht(H, t.left[x]) /\ Ht(C, t.right[x]) = Ht(H, t.right[x])
    BY <1>1, <1>2 DEF Ht
  <2>2. QED BY <2>1 DEF Fine, Even, V
<1>4. VerifyAvlProperties(t)
  BY <1>3, Zenon DEF VerifyAvlProperties, Ht, C, V
<1>5. QED BY <1>1, <1>4 DEF C, V

-----------------------------------------------------------------------------
\* A tree that keeps its nodes' links and heights keeps its balance.
Alike(t, u, V) ==
    /\ u.root = t.root
    /\ \A x \in V : /\ u.left[x] = t.left[x] /\ u.right[x] = t.right[x]
                    /\ u.height[x] = t.height[x]

LEMMA KeptSame ==
  ASSUME NEW t, NEW V, NEW S, HasTree(t, V, S), Kept(t, V), NEW u, Alike(t, u, V)
  PROVE  Kept(u, V)
<1>1. \A x \in V : t.left[x] \in V \cup {Null} /\ t.right[x] \in V \cup {Null}
  BY DEF HasTree, IsTree, Typed
<1>2. \A x \in V : Same(t.left, t.right, t.height, u.left, u.right, u.height, x)
  BY <1>1 DEF Same, Ht, Alike
<1>3. \A x \in V : FineIn(t, x) => FineIn(u, x)
  BY <1>2, FineBy
<1>4. \A x \in V : Short(t, V, x) => Short(u, V, x)
  BY DEF Short, Alike
<1>5. QED BY <1>3, <1>4 DEF Kept

LEMMA UnlinkedHeights ==
  ASSUME NEW t \in Trees, NEW n \in Elem, NEW h \in Nat
  PROVE  \A x \in Elem \ {n} : Unlinked(t, n, h).height[x] = t.height[x]
<1>1. Unlinked(t, n, h).height = [t.height EXCEPT ![n] = h]
  BY DEF Unlinked, Trees
<1>2. QED BY <1>1, TreesFields

\* A node that leaves the tree, or is dropped outside of it, has no say in it.
LEMMA KeptUnlinked ==
  ASSUME NEW t, NEW V, NEW S, HasTree(t, V, S), Kept(t, V), NEW n \in Elem \ V, NEW h \in Nat
  PROVE  Kept(Unlinked(t, n, h), V)
<1> DEFINE u == Unlinked(t, n, h)
<1>1. t \in Trees /\ V \subseteq Elem
  BY DEF HasTree, IsTree, Typed
<1>2. /\ u.root = t.root
      /\ \A x \in Elem \ {n} : u.left[x] = t.left[x] /\ u.right[x] = t.right[x]
  BY <1>1, UnlinkedFields
<1>3. \A x \in Elem \ {n} : u.height[x] = t.height[x]
  BY <1>1, UnlinkedHeights
<1> HIDE DEF u
<1>4. Alike(t, u, V)
  BY <1>1, <1>2, <1>3 DEF Alike
<1>5. Kept(u, V)
  BY <1>4, KeptSame
<1>6. QED BY <1>5 DEF u

LEMMA KeptErased ==
  ASSUME NEW t, NEW V, IsGood(t, V), Kept(t, V), NEW n \in V, NEW h \in Nat
  PROVE  Kept(Unlinked(Erase(t, n), n, h), V \ {n})
<1> DEFINE v == Erase(t, n)
<1>1. PICK S : HasTree(t, V, S)
  BY DEF IsGood
<1>2. AllFine(v, V \ {n}) /\ Without(t, v, V, n)
  BY <1>1, EraseBalances, EraseLemma
<1> HIDE DEF v
<1>3. PICK S2 : HasTree(v, V \ {n}, S2)
  BY <1>2 DEF Without
<1>4. Kept(v, V \ {n}) /\ n \in Elem \ (V \ {n})
  BY <1>1, <1>2 DEF AllFine, Kept, HasTree, IsTree, Typed
<1>5. QED BY <1>3, <1>4, KeptUnlinked DEF v

LEMMA KeptLinked ==
  ASSUME NEW t, NEW V, IsGood(t, V), Kept(t, V), NEW e \in Elem \ V,
         FindNode(t, GetKey[e]) = Null, t.height[e] = 1
  PROVE  Kept(Linked(t, e), V \cup {e})
<1>1. PICK S : HasTree(t, V, S)
  BY DEF IsGood
<1>2. \A x \in V : GetKey[x] # GetKey[e]
  <2>1. GetKey[e] \in Int
    BY KeyAssumption
  <2>2. {x \in V : GetKey[x] = GetKey[e]} = {FindNode(t, GetKey[e])} \ {Null}
    BY <1>1, <2>1, FindNodeLemma
  <2>3. QED BY <2>2
<1>3. t.left[e] = Null /\ t.right[e] = Null /\ t.parent[e] = Null
  BY DEF IsGood, Loose
<1>4. QED BY <1>1, <1>2, <1>3, LinkedBalances

-----------------------------------------------------------------------------
\* The inductive invariant of the heights: as long as no node came back with a
\* stale height, only a short root is not what it should be.
HeightsGood == ~stale => Kept(tree, Nodes(tree))

LEMMA InsertKeeps ==
  ASSUME AInv, HeightsGood, NEW e \in Elem, Insert(e)
  PROVE  HeightsGood'
<1> DEFINE V == Nodes(tree)
           t0 == [tree EXCEPT !.height[e] = 1]
<1> SUFFICES ASSUME ~stale' PROVE Kept(tree', Nodes(tree'))
  BY DEF HeightsGood
<1>1. IsGood(tree, V) /\ tree \in Trees /\ tree.height \in [Elem -> Nat] /\ V \subseteq Elem
  BY AInvFacts
<1>2. Kept(tree, V)
  BY DEF HeightsGood, Insert
<1>3. Nodes(tree') = IF FindNode(tree, GetKey[e]) = Null THEN V \cup {e} ELSE V
  BY InsertStep
<1> HIDE DEF V
<1>4. CASE FindNode(tree, GetKey[e]) = Null
  <2>1. tree' = Linked(t0, e)
    BY <1>4 DEF Insert
  <2>2. e \notin V
    <3>1. {x \in V : GetKey[x] = GetKey[e]} = {FindNode(tree, GetKey[e])} \ {Null}
      BY FindInTree, KeyAssumption DEF V
    <3>2. QED BY <1>4, <3>1
  <2>3. IsGood(t0, V)
    BY <1>1, GoodHeight
  <2>4. /\ t0.left = tree.left /\ t0.right = tree.right /\ t0.root = tree.root
        /\ t0.height = [tree.height EXCEPT ![e] = 1]
    BY <1>1 DEF Trees
  <2> HIDE DEF t0
  <2>5. t0.height[e] = 1 /\ \A x \in V : t0.height[x] = tree.height[x]
    BY <1>1, <2>2, <2>4
  <2>6. FindNode(t0, GetKey[e]) = Null
    <3>1. FindNode(t0, GetKey[e]) = FindNode(tree, GetKey[e])
      BY <2>4 DEF FindNode
    <3>2. QED BY <1>4, <3>1
  <2>7. Kept(t0, V)
    <3>1. PICK S : HasTree(tree, V, S)
      BY <1>1 DEF IsGood
    <3>2. Alike(tree, t0, V)
      BY <2>4, <2>5 DEF Alike
    <3>3. QED BY <1>2, <3>1, <3>2, KeptSame
  <2>8. Kept(tree', V \cup {e})
    BY <2>1, <2>2, <2>3, <2>5, <2>6, <2>7, KeptLinked
  <2>9. QED BY <1>3, <1>4, <2>8
<1>5. CASE FindNode(tree, GetKey[e]) # Null
  BY <1>2, <1>3, <1>5 DEF Insert
<1>6. QED BY <1>4, <1>5

LEMMA PushKeeps ==
  ASSUME AInv, HeightsGood, NEW e \in Elem, Push(e)
  PROVE  HeightsGood'
<1> DEFINE V == Nodes(tree)
           ok == FindNode(tree, GetKey[e]) = Null
<1> SUFFICES ASSUME ~stale' PROVE Kept(tree', Nodes(tree'))
  BY DEF HeightsGood
<1>1. /\ IsGood(tree, V) /\ e \in Elem \ V
      /\ tree' = IF ok THEN Linked(tree, e) ELSE tree
      /\ ~stale /\ (ok => tree.height[e] = 1)
  BY AInvFacts DEF Push, AInv, HeldApart
<1>2. Kept(tree, V)
  BY <1>1 DEF HeightsGood
<1>3. Nodes(tree') = IF ok THEN V \cup {e} ELSE V
  BY PushStep
<1> HIDE DEF V
<1>4. CASE ok
  <2>1. Kept(Linked(tree, e), V \cup {e})
    BY <1>1, <1>2, <1>4, KeptLinked
  <2>2. QED BY <1>1, <1>3, <1>4, <2>1
<1>5. CASE ~ok
  BY <1>1, <1>2, <1>3, <1>5
<1>6. QED BY <1>4, <1>5

LEMMA DropNodeKeeps ==
  ASSUME AInv, HeightsGood, NEW e \in Elem, DropNode(e)
  PROVE  HeightsGood'
<1> DEFINE V == Nodes(tree)
<1> SUFFICES ASSUME ~stale' PROVE Kept(tree', Nodes(tree'))
  BY DEF HeightsGood
<1>1. /\ IsGood(tree, V) /\ e \in Elem \ V /\ tree' = Unlinked(tree, e, 0) /\ ~stale
  BY AInvFacts DEF DropNode, AInv, HeldApart
<1>2. Kept(tree, V)
  BY <1>1 DEF HeightsGood
<1>3. Nodes(tree') = V
  BY DropNodeStep
<1> HIDE DEF V
<1>4. PICK S : HasTree(tree, V, S)
  BY <1>1 DEF IsGood
<1>5. Kept(Unlinked(tree, e, 0), V)
  BY <1>1, <1>2, <1>4, KeptUnlinked
<1>6. QED BY <1>1, <1>3, <1>5

LEMMA ExtractKeeps ==
  ASSUME AInv, HeightsGood, NEW k \in Key, NEW drop \in BOOLEAN, Extract(k, drop)
  PROVE  HeightsGood'
<1> DEFINE V == Nodes(tree)
           n == FindNode(tree, k)
           h == IF drop THEN 0 ELSE tree.height[n]
<1> SUFFICES ASSUME ~stale' PROVE Kept(tree', Nodes(tree'))
  BY DEF HeightsGood
<1>1. /\ n \in V \cup {Null} /\ IsGood(tree, V) /\ V \subseteq Elem
      /\ tree.height \in [Elem -> Nat] /\ Null \notin V
  BY FindInTree, AInvFacts, KeyAssumption, NullAssumption
<1>2. tree' = IF n = Null THEN tree ELSE Unlinked(Erase(tree, n), n, h)
  BY DEF Extract
<1>3. Kept(tree, V)
  BY DEF HeightsGood, Extract
<1>4. Nodes(tree') = V \ {n}
  BY ExtractStep
<1> HIDE DEF V, n
<1>5. CASE n = Null
  <2>1. V \ {n} = V
    BY <1>1, <1>5
  <2>2. QED BY <1>2, <1>3, <1>4, <1>5, <2>1
<1>6. CASE n # Null
  <2>1. n \in V /\ h \in Nat
    BY <1>1, <1>6
  <2> HIDE DEF h
  <2>2. Kept(Unlinked(Erase(tree, n), n, h), V \ {n})
    BY <1>1, <1>3, <2>1, KeptErased
  <2>3. QED BY <1>2, <1>4, <1>6, <2>2
<1>7. QED BY <1>5, <1>6

LEMMA EraseNodeKeeps ==
  ASSUME AInv, HeightsGood, EraseNode
  PROVE  HeightsGood'
<1> DEFINE V == Nodes(tree)
<1> SUFFICES ASSUME ~stale' PROVE Kept(tree', Nodes(tree'))
  BY DEF HeightsGood
<1>1. PICK n \in V : ret.out = {n}
  BY DEF AInv, FoundIsIn, EraseNode
<1>2. tree' = Unlinked(Erase(tree, n), n, 0) /\ ~stale
  BY <1>1 DEF EraseNode
<1>3. IsGood(tree, V) /\ Kept(tree, V)
  BY <1>2, AInvFacts DEF HeightsGood
<1>4. Nodes(tree') = V \ {n}
  BY <1>1, EraseNodeStep
<1> HIDE DEF V
<1>5. Kept(Unlinked(Erase(tree, n), n, 0), V \ {n})
  BY <1>3, KeptErased
<1>6. QED BY <1>2, <1>4, <1>5

LEMMA NextHeightsGood == AInv /\ HeightsGood /\ [Next]_vars => HeightsGood'
<1> SUFFICES ASSUME AInv, HeightsGood, [Next]_vars PROVE HeightsGood'
  OBVIOUS
<1>1. CASE UNCHANGED vars
  BY <1>1 DEF vars, HeightsGood
<1>2. ASSUME NEW e \in Elem, Insert(e) PROVE HeightsGood'
  BY <1>2, InsertKeeps
<1>3. ASSUME NEW e \in Elem, Push(e) PROVE HeightsGood'
  BY <1>3, PushKeeps
<1>4. ASSUME NEW e \in Elem, DropNode(e) PROVE HeightsGood'
  BY <1>4, DropNodeKeeps
<1>5. ASSUME NEW k \in Key, Find(k) PROVE HeightsGood'
  BY <1>5 DEF Find, HeightsGood
<1>6. ASSUME NEW k \in Key, NEW drop \in BOOLEAN, Extract(k, drop) PROVE HeightsGood'
  BY <1>6, ExtractKeeps
<1>7. CASE EraseNode
  BY <1>7, EraseNodeKeeps
<1>8. CASE TakeAll
  <2>1. Nodes(tree') = {}
    BY <1>8, TakeAllStep
  <2>2. QED BY <2>1 DEF HeightsGood, Kept
<1>9. ASSUME NEW op \in {"Clear", "ClearApply"}, Clear(op) PROVE HeightsGood'
  <2>1. Nodes(tree') = {}
    BY <1>9, ClearStep
  <2>2. QED BY <2>1 DEF HeightsGood, Kept
<1>10. QED BY <1>1, <1>2, <1>3, <1>4, <1>5, <1>6, <1>7, <1>8, <1>9 DEF Next

LEMMA InitHeightsGood == Init => HeightsGood
<1> SUFFICES ASSUME Init PROVE HeightsGood
  OBVIOUS
<1>1. Nodes(tree) = {}
  BY NullAssumption DEF Init, EmptyTree, Nodes
<1>2. QED BY <1>1 DEF HeightsGood, Kept

LEMMA BalancedNow == AInv /\ HeightsGood => BalancedUnlessStale
<1> SUFFICES ASSUME AInv, Kept(tree, Nodes(tree))
             PROVE  /\ VerifyAvlProperties(tree)
                    /\ \A n \in Nodes(tree) :
                          \/ tree.height[n] = CalculateHeight(tree)[n]
                          \/ n = tree.root /\ Cardinality(Nodes(tree)) = 2
  BY DEF HeightsGood, BalancedUnlessStale
<1> DEFINE V == Nodes(tree)
           t == tree
<1>1. PICK S : HasTree(t, V, S)
  BY AInvFacts
<1>2. /\ t.height \in [Elem -> Nat] /\ V \subseteq Elem /\ Null \notin V
      /\ IsTree(t.root, t.left, t.right, t.parent, V, S, GetKey)
      /\ \A x \in V : t.left[x] \in V \cup {Null} /\ t.right[x] \in V \cup {Null}
  BY <1>1, AInvFacts DEF HasTree, IsTree, Typed
<1>3. CASE \A x \in V : FineIn(t, x)
  <2>1. VerifyAvlProperties(t) /\ \A x \in V : CalculateHeight(t)[x] = t.height[x]
    BY <1>1, <1>2, <1>3, TrulyBalanced DEF FineIn
  <2>2. QED BY <2>1
<1>4. ASSUME NEW r \in V, Short(t, V, r)
      PROVE  /\ VerifyAvlProperties(t)
             /\ \A n \in V : \/ t.height[n] = CalculateHeight(t)[n]
                             \/ n = t.root /\ Cardinality(V) = 2
  <2> DEFINE H == [t.height EXCEPT ![r] = 2]
  <2>1. PICK c \in V : /\ V = {r, c} /\ c # r /\ t.height[c] = 1 /\ r = t.root
                       /\ {t.left[r], t.right[r]} = {c, Null}
    BY <1>4 DEF Short
  <2>2. FineIn(t, c)
    BY <2>1 DEF Kept, Short
  <2>3. H \in [Elem -> Nat] /\ H[r] = 2 /\ \A x \in Elem \ {r} : H[x] = t.height[x]
    BY <1>2
  <2> HIDE DEF H
  <2>4. Fine(t.left, t.right, H, c)
    <3>1. t.left[c] # r /\ t.right[c] # r
      BY <1>2, <2>1, LeftChild, RightChild
    <3>2. Same(t.left, t.right, t.height, t.left, t.right, H, c)
      BY <1>2, <2>1, <2>3, <3>1 DEF Same, Ht
    <3>3. QED BY <2>2, <3>2, SameFine DEF FineIn
  <2>5. Fine(t.left, t.right, H, r)
    <3>1. H[c] = 1 /\ c # Null
      BY <1>2, <2>1, <2>3
    <3>2. \/ Ht(H, t.left[r]) = 1 /\ Ht(H, t.right[r]) = 0
          \/ Ht(H, t.left[r]) = 0 /\ Ht(H, t.right[r]) = 1
      BY <2>1, <3>1 DEF Ht
    <3>3. QED BY <2>3, <3>2 DEF Fine, Tall, Even, AVL_MAX
  <2>6. \A x \in V : Fine(t.left, t.right, H, x)
    BY <2>1, <2>4, <2>5
  <2>7. VerifyAvlProperties(t) /\ \A x \in V : CalculateHeight(t)[x] = H[x]
    BY <1>1, <2>3, <2>6, TrulyBalanced
  <2>8. Cardinality(V) = 2
    <3>1. Cardinality({c}) = 1 /\ IsFiniteSet({c})
      BY FS_Singleton
    <3>2. Cardinality({c} \cup {r}) = Cardinality({c}) + 1
      BY <2>1, <3>1, FS_AddElement
    <3>3. V = {c} \cup {r}
      BY <2>1
    <3> HIDE DEF V
    <3>4. QED BY <3>1, <3>2, <3>3
  <2>9. QED BY <1>2, <2>1, <2>3, <2>7, <2>8
<1>5. QED BY <1>3, <1>4 DEF Kept

\* While no node came back to the tree with a stale height, the tree is balanced
\* after any sequence of calls, and every height field but the root's after the
\* second insertion is the true one: the retracing of Insert and Erase, which
\* stops early, stops late enough.
THEOREM BalanceCorrect == Spec => []BalancedUnlessStale
<1>1. Init => AInv /\ HeightsGood
  BY InitAInv, InitHeightsGood
<1>2. AInv /\ HeightsGood /\ [Next]_vars => AInv' /\ HeightsGood'
  BY NextAInv, NextHeightsGood
<1>3. QED BY <1>1, <1>2, BalancedNow, PTL DEF Spec

-----------------------------------------------------------------------------
\* x is on one side of all of T.
Apart(K, T, x) == (\A y \in T : K[x] < K[y]) \/ (\A y \in T : K[y] < K[x])

\* The keys of a subtree have no other node's key among them.
LEMMA SubtreeApart ==
  ASSUME NEW root, NEW L, NEW R, NEW P, NEW V, NEW S, NEW K,
         IsTree(root, L, R, P, V, S, K)
  PROVE  \A m \in V : \A x \in V \ S[m] : Apart(K, S[m], x)
<1> SUFFICES ASSUME NEW x \in V PROVE \A m \in V : x \notin S[m] => Apart(K, S[m], x)
  OBVIOUS
<1> DEFINE B == {m \in V : x \notin S[m] /\ ~Apart(K, S[m], x)}
           mu == [m \in B |-> Cardinality(Elem) - Size(V, S)[m]]
<1>1. IsTree(root, L, R, P, V, S, K)
  OBVIOUS
<1>2. /\ V \subseteq Elem /\ Null \notin V /\ S \in [V \cup {Null} -> SUBSET V]
      /\ root \in V \cup {Null} /\ S[root] = V
      /\ \A n \in V : L[n] \in V \cup {Null} /\ R[n] \in V \cup {Null}
      /\ \A n \in Elem : K[n] \in Int
  BY DEF IsTree, Typed
<1>3. /\ \A n \in V : S[n] = {n} \cup S[L[n]] \cup S[R[n]]
      /\ \A n \in V : /\ \A y \in S[L[n]] : K[y] < K[n]
                      /\ \A y \in S[R[n]] : K[n] < K[y]
  BY DEF IsTree, Unfolds, Sorted
<1>4. \A n \in V : n # root => P[n] \in V /\ (n = L[P[n]] \/ n = R[P[n]])
  BY DEF IsTree, Parents
<1>5. /\ \A n \in V \cup {Null} : Size(V, S)[n] \in Nat /\ Size(V, S)[n] < Passes
      /\ \A n \in V : /\ Size(V, S)[L[n]] < Size(V, S)[n]
                      /\ Size(V, S)[R[n]] < Size(V, S)[n]
  <2>1. Size(V, S) \in [V \cup {Null} -> Nat]
    BY <1>1, SubtreeSizes
  <2>2. /\ \A n \in V \cup {Null} : Size(V, S)[n] < Passes
        /\ \A n \in V : /\ Size(V, S)[L[n]] < Size(V, S)[n]
                        /\ Size(V, S)[R[n]] < Size(V, S)[n]
    BY <1>1, SubtreeSizes
  <2>3. QED BY <2>1, <2>2
<1>6. mu \in [B -> Nat]
  <2>1. \A m \in V : Cardinality(Elem) - Size(V, S)[m] \in Nat
    BY <1>5, PassesNat, ElemAssumption, FS_CardinalityType
  <2>2. QED BY <2>1
<1>7. SUFFICES ASSUME B # {} PROVE FALSE
  OBVIOUS
<1> HIDE DEF mu
<1>8. PICK m \in B : \A y \in B : mu[m] <= mu[y]
  BY <1>6, <1>7, Smallest
<1>9. m \in V /\ x \notin S[m] /\ ~Apart(K, S[m], x) /\ m # root
  BY <1>2
<1> DEFINE p == P[m]
<1>10. p \in V /\ (m = L[p] \/ m = R[p]) /\ S[m] \subseteq S[p]
  BY <1>3, <1>4, <1>9
<1>11. CASE x \notin S[p]
  <2>1. ~Apart(K, S[p], x)
    BY <1>9, <1>10 DEF Apart
  <2>2. p \in B
    BY <1>10, <1>11, <2>1
  <2>3. mu[m] <= mu[p] /\ mu[m] = Cardinality(Elem) - Size(V, S)[m]
        /\ mu[p] = Cardinality(Elem) - Size(V, S)[p]
    BY <1>8, <2>2 DEF mu
  <2>4. Size(V, S)[m] < Size(V, S)[p]
    BY <1>5, <1>10
  <2>5. Size(V, S)[m] \in Nat /\ Size(V, S)[p] \in Nat /\ Cardinality(Elem) \in Nat
    BY <1>5, <1>9, <1>10, ElemAssumption, FS_CardinalityType
  <2>6. QED BY <2>3, <2>4, <2>5
<1>12. CASE x \in S[p]
  <2>1. \A y \in S[m] : K[y] \in Int
    BY <1>2, <1>9
  <2>2. K[x] \in Int /\ K[p] \in Int
    BY <1>2, <1>10
  <2>3. CASE m = L[p]
    <3>1. x = p \/ K[p] < K[x]
      BY <1>3, <1>9, <1>10, <1>12, <2>3
    <3>2. \A y \in S[m] : K[y] < K[p]
      BY <1>3, <1>10, <2>3
    <3>3. \A y \in S[m] : K[y] < K[x]
      BY <2>1, <2>2, <3>1, <3>2
    <3>4. QED BY <1>9, <3>3 DEF Apart
  <2>4. CASE m = R[p]
    <3>1. x = p \/ K[x] < K[p]
      BY <1>3, <1>9, <1>10, <1>12, <2>4
    <3>2. \A y \in S[m] : K[p] < K[y]
      BY <1>3, <1>10, <2>4
    <3>3. \A y \in S[m] : K[x] < K[y]
      BY <2>1, <2>2, <3>1, <3>2
    <3>4. QED BY <1>9, <3>3 DEF Apart
  <2>5. QED BY <1>10, <2>3, <2>4
<1>13. QED BY <1>11, <1>12

LEMMA TreeKeysDistinct ==
  ASSUME NEW root, NEW L, NEW R, NEW P, NEW V, NEW S, NEW K,
         IsTree(root, L, R, P, V, S, K), NEW x \in V, NEW y \in V, K[x] = K[y]
  PROVE  x = y
<1>1. /\ K[x] \in Int /\ S[y] = {y} \cup S[L[y]] \cup S[R[y]]
      /\ \A z \in S[L[y]] : K[z] < K[y]
      /\ \A z \in S[R[y]] : K[y] < K[z]
  BY DEF IsTree, Typed, Unfolds, Sorted
<1>2. CASE x \in S[y]
  BY <1>1, <1>2
<1>3. CASE x \notin S[y]
  <2>1. Apart(K, S[y], x)
    BY <1>3, SubtreeApart
  <2>2. QED BY <1>1, <2>1 DEF Apart
<1>4. QED BY <1>2, <1>3

\* m is the node after n, Null if there is none.
IsNext(V, K, n, m) ==
    /\ m \in V \cup {Null} /\ (m # Null => K[n] < K[m])
    /\ \A x \in V : K[n] < K[x] => m # Null /\ K[m] <= K[x]

\* The climb and the step to the next node by the links alone, of GetNextNode
\* and, mirrored, of GetPrevNode
Ascent(L, P, n) ==
    LET pass[s \in [cur : Links, up : Links]] ==
            IF s.up = Null \/ L[s.up] = s.cur THEN s
            ELSE [cur |-> s.up, up |-> P[s.up]]
    IN  Loop(pass, [cur |-> n, up |-> P[n]]).up

Following(L, R, P, n) == IF R[n] # Null THEN Descent(L, R[n]) ELSE Ascent(L, P, n)

\* Where the climb from n can be
Ascending(P, V, S, K, n) ==
    {s \in [cur : V, up : V \cup {Null}] :
        /\ s.up = P[s.cur] /\ n \in S[s.cur]
        /\ \A x \in S[s.cur] : K[x] <= K[n]}

\* The climb is over.
AtTurn(L, s) == s.up = Null \/ L[s.up] = s.cur

LEMMA AscentStep ==
  ASSUME NEW root, NEW L, NEW R, NEW P, NEW V, NEW S, NEW K,
         IsTree(root, L, R, P, V, S, K), NEW n \in V,
         NEW s \in Ascending(P, V, S, K, n), ~AtTurn(L, s)
  PROVE  /\ [cur |-> s.up, up |-> P[s.up]] \in Ascending(P, V, S, K, n)
         /\ s.up \in V /\ s.cur = R[s.up]
<1>1. /\ s.cur \in V /\ s.up \in V \cup {Null} /\ s.up = P[s.cur] /\ n \in S[s.cur]
      /\ \A x \in S[s.cur] : K[x] <= K[n]
  BY DEF Ascending
<1> DEFINE c == s.cur
           p == s.up
<1>2. p # Null /\ L[p] # c /\ p \in V
  BY <1>1 DEF AtTurn
<1>3. c # root /\ c = R[p]
  <2>1. c # root
    BY <1>1, <1>2, NullAssumption DEF IsTree, Parents, Typed
  <2>2. QED BY <1>1, <1>2, <2>1 DEF IsTree, Parents
<1>4. /\ S[p] = {p} \cup S[L[p]] \cup S[c]
      /\ \A x \in S[L[p]] : K[x] < K[p]
      /\ \A x \in S[c] : K[p] < K[x]
  BY <1>2, <1>3 DEF IsTree, Unfolds, Sorted
<1>5. /\ \A x \in V : K[x] \in Int
      /\ S[p] \subseteq V
  BY <1>2 DEF IsTree, Typed
<1>6. P[p] \in V \cup {Null}
  BY <1>2 DEF IsTree, Parents
<1>7. K[p] < K[n] /\ n \in S[p]
  BY <1>1, <1>4
<1>8. ASSUME NEW x \in S[p] PROVE K[x] <= K[n]
  <2>1. K[x] \in Int /\ K[p] \in Int /\ K[n] \in Int
    BY <1>2, <1>5, <1>8
  <2>2. x \in S[c] \/ x = p \/ K[x] < K[p]
    BY <1>4, <1>8
  <2>3. QED BY <1>1, <1>7, <2>1, <2>2
<1> DEFINE u == [cur |-> p, up |-> P[p]]
<1>9. u \in [cur : V, up : V \cup {Null}] /\ u.cur = p /\ u.up = P[p]
  BY <1>2, <1>6
<1> HIDE DEF u
<1>10. u \in Ascending(P, V, S, K, n)
  BY <1>7, <1>8, <1>9 DEF Ascending
<1>11. QED BY <1>2, <1>3, <1>10 DEF u

LEMMA AscentEnds ==
  ASSUME NEW root, NEW L, NEW R, NEW P, NEW V, NEW S, NEW K,
         IsTree(root, L, R, P, V, S, K), NEW n \in V,
         NEW s \in Ascending(P, V, S, K, n), AtTurn(L, s)
  PROVE  IsNext(V, K, n, s.up)
<1>1. /\ s.cur \in V /\ s.up \in V \cup {Null} /\ s.up = P[s.cur] /\ n \in S[s.cur]
      /\ \A x \in S[s.cur] : K[x] <= K[n]
  BY DEF Ascending
<1> DEFINE c == s.cur
           p == s.up
<1>2. /\ \A x \in V : K[x] \in Int
      /\ S[root] = V /\ Null \notin V
      /\ S[c] \subseteq V
  BY <1>1 DEF IsTree, Typed
<1>3. CASE p = Null
  <2>1. c = root
    BY <1>1, <1>2, <1>3 DEF IsTree, Parents
  <2>2. \A x \in V : ~(K[n] < K[x])
    BY <1>1, <1>2, <2>1
  <2>3. QED BY <1>3, <2>2 DEF IsNext
<1>4. CASE p # Null
  <2>1. L[p] = c /\ p \in V
    BY <1>1, <1>4 DEF AtTurn
  <2>2. /\ S[p] = {p} \cup S[c] \cup S[R[p]] /\ S[p] \subseteq V
        /\ \A x \in S[c] : K[x] < K[p]
        /\ \A x \in S[R[p]] : K[p] < K[x]
    BY <2>1 DEF IsTree, Unfolds, Sorted, Typed
  <2>3. n \in S[p] /\ p \in S[p] /\ K[n] < K[p]
    BY <1>1, <2>2
  <2>4. ASSUME NEW x \in V, K[n] < K[x] PROVE K[p] <= K[x]
    <3>1. K[x] \in Int /\ K[n] \in Int /\ K[p] \in Int
      BY <1>2, <2>1
    <3>2. CASE x \in S[p]
      <4>1. x \notin S[c]
        BY <1>1, <2>4, <3>1
      <4>2. QED BY <2>2, <3>1, <3>2, <4>1
    <3>3. CASE x \notin S[p]
      <4>1. Apart(K, S[p], x)
        BY <2>1, <3>3, SubtreeApart
      <4>2. K[x] < K[n] \/ K[p] < K[x]
        BY <2>3, <4>1 DEF Apart
      <4>3. QED BY <2>4, <3>1, <4>2
    <3>4. QED BY <3>2, <3>3
  <2>5. QED BY <1>4, <2>1, <2>3, <2>4 DEF IsNext
<1>5. QED BY <1>3, <1>4

LEMMA AscentLemma ==
  ASSUME NEW root, NEW L, NEW R, NEW P, NEW V, NEW S, NEW K,
         IsTree(root, L, R, P, V, S, K), NEW n \in V, R[n] = Null
  PROVE  IsNext(V, K, n, Ascent(L, P, n))
<1> DEFINE pass == [s \in [cur : Links, up : Links] |->
                       IF s.up = Null \/ L[s.up] = s.cur THEN s
                       ELSE [cur |-> s.up, up |-> P[s.up]]]
           I == Ascending(P, V, S, K, n)
           mu == [s \in I |-> IF AtTurn(L, s) THEN 0
                              ELSE Cardinality(Elem) - Size(V, S)[s.cur]]
           start == [cur |-> n, up |-> P[n]]
           end == Loop(pass, start)
<1>1. IsTree(root, L, R, P, V, S, K)
  OBVIOUS
<1>2. /\ V \subseteq Elem /\ V \cup {Null} \subseteq Links /\ Null \notin V
      /\ S[Null] = {} /\ P[n] \in V \cup {Null}
      /\ \A x \in V : K[x] \in Int
      /\ S[n] = {n} \cup S[L[n]] \cup S[R[n]]
      /\ \A x \in S[L[n]] : K[x] < K[n]
  BY DEF IsTree, Typed, Unfolds, Sorted, Parents, Links
<1>3. Ascent(L, P, n) = end.up
  BY DEF Ascent
<1>4. start \in I
  <2>1. \A x \in S[n] : K[x] <= K[n]
    <3>1. ASSUME NEW x \in S[n] PROVE K[x] <= K[n]
      <4>1. x = n \/ K[x] < K[n]
        BY <1>2
      <4>2. S[n] \subseteq V
        BY DEF IsTree, Typed
      <4>3. K[x] \in Int /\ K[n] \in Int
        BY <1>2, <4>2
      <4>4. QED BY <4>1, <4>3
    <3>2. QED BY <3>1
  <2>2. n \in S[n] /\ start \in [cur : V, up : V \cup {Null}] /\ start.cur = n /\ start.up = P[n]
    BY <1>2
  <2> HIDE DEF start
  <2>3. QED BY <2>1, <2>2 DEF Ascending
<1>5. \A s \in I : s \in [cur : Links, up : Links] /\ s.cur \in V
  BY <1>2 DEF Ascending
<1>6. ASSUME NEW s \in I
      PROVE  pass[s] = IF AtTurn(L, s) THEN s ELSE [cur |-> s.up, up |-> P[s.up]]
  BY <1>5 DEF AtTurn
<1> HIDE DEF pass, start
<1>7. ASSUME NEW s \in I, ~AtTurn(L, s)
      PROVE  pass[s] \in I /\ pass[s].cur \in V /\ s.cur = R[pass[s].cur]
  <2>1. [cur |-> s.up, up |-> P[s.up]] \in I /\ s.up \in V /\ s.cur = R[s.up]
    BY <1>1, <1>7, AscentStep
  <2>2. pass[s] = [cur |-> s.up, up |-> P[s.up]]
    BY <1>6, <1>7
  <2>3. pass[s].cur = s.up
    BY <2>2
  <2> HIDE DEF I
  <2>4. QED BY <2>1, <2>2, <2>3
<1>8. /\ Size(V, S) \in [V \cup {Null} -> Nat]
      /\ \A m \in V \cup {Null} : Size(V, S)[m] < Passes
      /\ \A m \in V : Size(V, S)[R[m]] < Size(V, S)[m]
  BY <1>1, SubtreeSizes
<1>9. Cardinality(Elem) \in Nat /\ Passes = Cardinality(Elem) + 1
  BY PassesNat, ElemAssumption, FS_CardinalityType
<1> HIDE DEF I
<1>10. \A s \in I : Cardinality(Elem) - Size(V, S)[s.cur] \in Nat
  BY <1>5, <1>8, <1>9
<1>11. mu \in [I -> Nat]
  BY <1>10
<1>12. ASSUME NEW s \in I, ~AtTurn(L, s) PROVE mu[s] > 0 /\ (mu[pass[s]] < mu[s] \/ mu[pass[s]] = 0)
  <2>1. pass[s] \in I /\ Size(V, S)[s.cur] < Size(V, S)[pass[s].cur]
    BY <1>7, <1>8, <1>12
  <2>2. mu[s] = Cardinality(Elem) - Size(V, S)[s.cur]
    BY <1>12
  <2>3. mu[pass[s]] = 0 \/ mu[pass[s]] = Cardinality(Elem) - Size(V, S)[pass[s].cur]
    BY <2>1
  <2>4. Size(V, S)[s.cur] \in Nat /\ Size(V, S)[pass[s].cur] \in Nat
    BY <1>5, <1>8, <2>1
  <2>5. Cardinality(Elem) - Size(V, S)[pass[s].cur] \in Nat
    BY <1>10, <2>1
  <2> HIDE DEF mu
  <2>6. QED BY <1>9, <2>1, <2>2, <2>3, <2>4, <2>5
<1>13. \A s \in I : AtTurn(L, s) => pass[s] = s /\ mu[s] = 0
  BY <1>6
<1>14. mu[start] < Passes
  <2>1. mu[start] = 0 \/ mu[start] = Cardinality(Elem) - Size(V, S)[start.cur]
    BY <1>4
  <2>2. Size(V, S)[start.cur] \in Nat
    BY <1>4, <1>5, <1>8
  <2> HIDE DEF mu
  <2>3. QED BY <1>9, <2>1, <2>2
<1> HIDE DEF mu
<1>15. Closed(pass, I) /\ Decreasing(pass, I, mu)
  BY <1>7, <1>12, <1>13 DEF Closed, Decreasing
<1>16. end \in I /\ mu[end] = 0
  BY <1>4, <1>11, <1>14, <1>15, LoopEnds
<1> HIDE DEF end
<1>17. AtTurn(L, end)
  BY <1>11, <1>12, <1>16
<1>18. IsNext(V, K, n, end.up)
  BY <1>1, <1>16, <1>17, AscentEnds DEF I
<1>19. QED BY <1>3, <1>18

LEMMA FollowingLemma ==
  ASSUME NEW root, NEW L, NEW R, NEW P, NEW V, NEW S, NEW K,
         IsTree(root, L, R, P, V, S, K), NEW n \in V
  PROVE  IsNext(V, K, n, Following(L, R, P, n))
<1>1. CASE R[n] = Null
  BY <1>1, AscentLemma DEF Following
<1>2. CASE R[n] # Null
  <2> DEFINE r == R[n]
             f == Descent(L, r)
  <2>1. r \in V /\ S[r] \subseteq S[n]
    BY <1>2, RightChild
  <2>2. IsFirst(L, V, S, K, r, f)
    BY <2>1, DescentLemma
  <2>3. Following(L, R, P, n) = f
    BY <1>2 DEF Following
  <2> HIDE DEF f
  <2>4. f \in V /\ f \in S[r] /\ \A x \in S[r] \ {f} : K[f] < K[x]
    BY <2>2 DEF IsFirst
  <2>5. /\ S[n] = {n} \cup S[L[n]] \cup S[r]
        /\ \A x \in S[L[n]] : K[x] < K[n]
        /\ \A x \in S[r] : K[n] < K[x]
        /\ \A x \in V : K[x] \in Int
    BY DEF IsTree, Unfolds, Sorted, Typed
  <2>6. ASSUME NEW x \in V, K[n] < K[x] PROVE K[f] <= K[x]
    <3>1. K[x] \in Int /\ K[n] \in Int /\ K[f] \in Int
      BY <2>4, <2>5
    <3>2. CASE x \in S[n]
      <4>1. x \in S[r]
        BY <2>5, <2>6, <3>1, <3>2
      <4>2. QED BY <2>4, <3>1, <4>1
    <3>3. CASE x \notin S[n]
      <4>1. Apart(K, S[n], x)
        BY <3>3, SubtreeApart
      <4>2. n \in S[n] /\ f \in S[n]
        BY <2>1, <2>4, <2>5
      <4>3. K[x] < K[n] \/ K[f] < K[x]
        BY <4>1, <4>2 DEF Apart
      <4>4. QED BY <2>6, <3>1, <4>3
    <3>4. QED BY <3>2, <3>3
  <2>7. f # Null /\ K[n] < K[f]
    BY <2>4, <2>5 DEF IsTree, Typed
  <2>8. QED BY <2>3, <2>4, <2>6, <2>7 DEF IsNext
<1>3. QED BY <1>1, <1>2

-----------------------------------------------------------------------------
\* A finite set of nodes with keys of their own
Keyed(V, K) == /\ IsFiniteSet(V) /\ Null \notin V /\ \A x \in V : K[x] \in Int
               /\ \A x, y \in V : K[x] = K[y] => x = y

\* The nodes below m, all of them if the walk is over
Below(V, K, m) == IF m = Null THEN V ELSE {x \in V : K[x] < K[m]}
Rank(V, K, m) == Cardinality(Below(V, K, m))

\* The i-th member of out has i - 1 nodes below it.
InRank(V, K, out) == out \in Seq(V) /\ \A i \in 1 .. Len(out) : Rank(V, K, out[i]) = i - 1

Ranked(V, K, out) == InRank(V, K, out) /\ Len(out) = Cardinality(V)

LEMMA TreeKeyed ==
  ASSUME NEW root, NEW L, NEW R, NEW P, NEW V, NEW S, NEW K,
         IsTree(root, L, R, P, V, S, K)
  PROVE  Keyed(V, K)
<1>1. V \subseteq Elem /\ Null \notin V /\ \A x \in V : K[x] \in Int
  BY DEF IsTree, Typed
<1>2. IsFiniteSet(V)
  BY <1>1, ElemAssumption, FS_Subset
<1>3. \A x, y \in V : K[x] = K[y] => x = y
  BY TreeKeysDistinct
<1>4. QED BY <1>1, <1>2, <1>3 DEF Keyed

LEMMA RankNat ==
  ASSUME NEW V, NEW K, Keyed(V, K)
  PROVE  /\ Cardinality(V) \in Nat /\ Rank(V, K, Null) = Cardinality(V)
         /\ \A m : IsFiniteSet(Below(V, K, m)) /\ Rank(V, K, m) \in Nat
         /\ \A m \in V : Rank(V, K, m) < Cardinality(V) /\ m \notin Below(V, K, m)
<1>1. IsFiniteSet(V) /\ Null \notin V /\ \A x \in V : K[x] \in Int
  BY DEF Keyed
<1>2. ASSUME NEW m PROVE IsFiniteSet(Below(V, K, m)) /\ Rank(V, K, m) \in Nat
  <2>1. Below(V, K, m) \subseteq V
    BY DEF Below
  <2>2. QED BY <1>1, <2>1, FS_Subset, FS_CardinalityType DEF Rank
<1>3. ASSUME NEW m \in V PROVE Rank(V, K, m) < Cardinality(V) /\ m \notin Below(V, K, m)
  <2>1. m \notin Below(V, K, m) /\ Below(V, K, m) \subseteq V
    BY <1>1 DEF Below
  <2>2. /\ Rank(V, K, m) <= Cardinality(V)
        /\ Rank(V, K, m) # Cardinality(V)
    BY <1>1, <2>1, FS_Subset DEF Rank
  <2>3. QED BY <1>1, <1>2, <2>1, <2>2, FS_CardinalityType
<1>4. QED BY <1>1, <1>2, <1>3, FS_CardinalityType DEF Rank, Below

\* The rank tells nodes apart.
LEMMA RankLess ==
  ASSUME NEW V, NEW K, Keyed(V, K), NEW x \in V, NEW y \in V, K[x] < K[y]
  PROVE  Rank(V, K, x) < Rank(V, K, y)
<1>1. IsFiniteSet(Below(V, K, y)) /\ Null \notin V /\ \A z \in V : K[z] \in Int
  BY RankNat DEF Keyed
<1>2. /\ Below(V, K, x) \subseteq Below(V, K, y)
      /\ x \in Below(V, K, y) /\ x \notin Below(V, K, x)
  BY <1>1 DEF Below
<1>3. /\ Rank(V, K, x) <= Rank(V, K, y)
      /\ Rank(V, K, x) # Rank(V, K, y)
  BY <1>1, <1>2, FS_Subset DEF Rank
<1>4. Rank(V, K, x) \in Nat /\ Rank(V, K, y) \in Nat
  BY RankNat
<1>5. QED BY <1>3, <1>4

LEMMA RankInjective ==
  ASSUME NEW V, NEW K, Keyed(V, K), NEW x \in V, NEW y \in V,
         Rank(V, K, x) = Rank(V, K, y)
  PROVE  x = y
<1>1. Rank(V, K, x) \in Nat /\ K[x] \in Int /\ K[y] \in Int
  BY RankNat DEF Keyed
<1>2. CASE K[x] = K[y]
  BY <1>2 DEF Keyed
<1>3. CASE K[x] < K[y]
  <2>1. Rank(V, K, x) < Rank(V, K, y)
    BY <1>3, RankLess
  <2>2. QED BY <1>1, <2>1
<1>4. CASE K[y] < K[x]
  <2>1. Rank(V, K, y) < Rank(V, K, x)
    BY <1>4, RankLess
  <2>2. QED BY <1>1, <2>1
<1>5. QED BY <1>1, <1>2, <1>3, <1>4

LEMMA RankNext ==
  ASSUME NEW V, NEW K, Keyed(V, K), NEW n \in V, NEW m, IsNext(V, K, n, m)
  PROVE  Rank(V, K, m) = Rank(V, K, n) + 1
<1>1. /\ Null \notin V /\ \A x \in V : K[x] \in Int
      /\ \A x, y \in V : K[x] = K[y] => x = y
  BY DEF Keyed
<1>2. /\ m \in V \cup {Null} /\ (m # Null => K[n] < K[m])
      /\ \A x \in V : K[n] < K[x] => m # Null /\ K[m] <= K[x]
  BY DEF IsNext
<1>3. ASSUME NEW x \in V PROVE x \in Below(V, K, m) <=> x = n \/ K[x] < K[n]
  <2>1. K[x] \in Int /\ K[n] \in Int
    BY <1>1
  <2>2. K[x] = K[n] <=> x = n
    BY <1>1
  <2>3. CASE m = Null
    BY <1>2, <2>1, <2>2, <2>3 DEF Below
  <2>4. CASE m # Null
    <3>1. K[m] \in Int /\ K[n] < K[m]
      BY <1>1, <1>2, <2>4
    <3>2. x \in Below(V, K, m) <=> K[x] < K[m]
      BY <2>4 DEF Below
    <3>3. QED BY <1>2, <2>1, <2>2, <3>1, <3>2
  <2>5. QED BY <2>3, <2>4
<1>4. Below(V, K, m) = Below(V, K, n) \cup {n}
  <2>1. \A x \in V : x \in Below(V, K, n) <=> K[x] < K[n]
    BY <1>1 DEF Below
  <2>2. Below(V, K, m) \subseteq V /\ Below(V, K, n) \subseteq V
    BY DEF Below
  <2>3. QED BY <1>3, <2>1, <2>2
<1>5. n \notin Below(V, K, n) /\ IsFiniteSet(Below(V, K, n))
  BY RankNat
<1>6. QED BY <1>4, <1>5, FS_AddElement DEF Rank

LEMMA RankAppend ==
  ASSUME NEW V, NEW K, NEW out, InRank(V, K, out), NEW n \in V, Rank(V, K, n) = Len(out)
  PROVE  InRank(V, K, Append(out, n)) /\ Len(Append(out, n)) = Len(out) + 1
<1>1. out \in Seq(V) /\ Len(out) \in Nat /\ \A i \in 1 .. Len(out) : Rank(V, K, out[i]) = i - 1
  BY DEF InRank
<1> DEFINE u == Append(out, n)
<1>2. /\ u \in Seq(V) /\ Len(u) = Len(out) + 1 /\ u[Len(out) + 1] = n
      /\ \A i \in 1 .. Len(out) : u[i] = out[i]
  BY <1>1, AppendProperties
<1> HIDE DEF u
<1>3. ASSUME NEW i \in 1 .. Len(u) PROVE Rank(V, K, u[i]) = i - 1
  <2>1. i \in 1 .. Len(out) \/ i = Len(out) + 1
    BY <1>1, <1>2
  <2>2. CASE i \in 1 .. Len(out)
    BY <1>1, <1>2, <2>2
  <2>3. CASE i = Len(out) + 1
    BY <1>1, <1>2, <2>3
  <2>4. QED BY <2>1, <2>2, <2>3
<1>4. InRank(V, K, u)
  BY <1>2, <1>3 DEF InRank
<1>5. QED BY <1>2, <1>4 DEF u

\* The walk from r by Following
Walk(L, R, P, r) ==
    LET pass[s \in [at : Links, out : Seq(Elem)]] ==
            IF s.at = Null THEN s
            ELSE [at |-> Following(L, R, P, s.at), out |-> Append(s.out, s.at)]
    IN  Loop(pass, [at |-> r, out |-> <<>>])

\* Where a walk can be
Walking(V, K) ==
    {s \in [at : V \cup {Null}, out : Seq(V)] :
        InRank(V, K, s.out) /\ Len(s.out) = Rank(V, K, s.at)}

IsWalked(V, K, w) == w.at = Null /\ Ranked(V, K, w.out) /\ w = [at |-> w.at, out |-> w.out]

LEMMA WalkStep ==
  ASSUME NEW V, NEW K, Keyed(V, K), NEW s \in Walking(V, K), s.at # Null,
         NEW m, IsNext(V, K, s.at, m)
  PROVE  [at |-> m, out |-> Append(s.out, s.at)] \in Walking(V, K)
<1>1. s.at \in V /\ s.out \in Seq(V) /\ InRank(V, K, s.out) /\ Len(s.out) = Rank(V, K, s.at)
  BY DEF Walking
<1> DEFINE u == Append(s.out, s.at)
<1>2. InRank(V, K, u) /\ Len(u) = Len(s.out) + 1
  BY <1>1, RankAppend
<1> HIDE DEF u
<1>3. Rank(V, K, m) = Rank(V, K, s.at) + 1
  BY <1>1, RankNext
<1>4. m \in V \cup {Null} /\ u \in Seq(V) /\ Len(u) = Rank(V, K, m)
  BY <1>1, <1>2, <1>3 DEF IsNext, InRank
<1>5. [at |-> m, out |-> u] \in Walking(V, K)
  BY <1>2, <1>4 DEF Walking
<1>6. QED BY <1>5 DEF u

LEMMA WalkLemma ==
  ASSUME NEW root, NEW L, NEW R, NEW P, NEW V, NEW S, NEW K,
         IsTree(root, L, R, P, V, S, K),
         NEW r \in V \cup {Null}, Below(V, K, r) = {}
  PROVE  IsWalked(V, K, Walk(L, R, P, r))
<1> DEFINE pass == [s \in [at : Links, out : Seq(Elem)] |->
                       IF s.at = Null THEN s
                       ELSE [at |-> Following(L, R, P, s.at), out |-> Append(s.out, s.at)]]
           I == Walking(V, K)
           mu == [s \in I |-> Cardinality(V) - Len(s.out)]
           start == [at |-> r, out |-> <<>>]
           end == Loop(pass, start)
<1>1. IsTree(root, L, R, P, V, S, K) /\ Keyed(V, K)
  BY TreeKeyed
<1>2. V \subseteq Elem /\ V \cup {Null} \subseteq Links /\ Null \notin V
  BY DEF IsTree, Typed, Links
<1>3. Walk(L, R, P, r) = end
  BY DEF Walk
<1>4. start \in I
  <2>1. Rank(V, K, r) = 0
    BY FS_EmptySet DEF Rank
  <2>2. start.at = r /\ start.out = <<>> /\ start \in [at : V \cup {Null}, out : Seq(V)]
    OBVIOUS
  <2>3. Len(start.out) = 0 /\ InRank(V, K, start.out)
    BY <2>2 DEF InRank
  <2> HIDE DEF start
  <2>4. QED BY <2>1, <2>2, <2>3 DEF Walking
<1>5. ASSUME NEW s \in I
      PROVE  /\ s.at \in V \cup {Null} /\ InRank(V, K, s.out) /\ Len(s.out) = Rank(V, K, s.at)
             /\ s = [at |-> s.at, out |-> s.out] /\ s \in [at : Links, out : Seq(Elem)]
  <2>1. s \in [at : V \cup {Null}, out : Seq(V)] /\ InRank(V, K, s.out) /\ Len(s.out) = Rank(V, K, s.at)
    BY DEF Walking
  <2>2. s.out \in Seq(Elem)
    BY <1>2, <2>1, SeqMonotonic
  <2>3. QED BY <1>2, <2>1, <2>2
<1>6. ASSUME NEW s \in I
      PROVE  pass[s] = IF s.at = Null THEN s
                       ELSE [at |-> Following(L, R, P, s.at), out |-> Append(s.out, s.at)]
  BY <1>5
<1> HIDE DEF pass, start, I
<1>7. ASSUME NEW s \in I, s.at # Null
      PROVE  pass[s] \in I /\ Len(pass[s].out) = Len(s.out) + 1 /\ Len(s.out) < Cardinality(V)
  <2>1. s.at \in V
    BY <1>5, <1>7
  <2>2. IsNext(V, K, s.at, Following(L, R, P, s.at))
    BY <1>1, <2>1, FollowingLemma
  <2>3. pass[s] \in I
    BY <1>1, <1>6, <1>7, <2>2, WalkStep DEF I
  <2>4. pass[s].out = Append(s.out, s.at)
    <3> DEFINE w == [at |-> Following(L, R, P, s.at), out |-> Append(s.out, s.at)]
    <3>1. w.out = Append(s.out, s.at)
      OBVIOUS
    <3> HIDE DEF w
    <3>2. pass[s] = w
      BY <1>6, <1>7 DEF w
    <3>3. QED BY <3>1, <3>2
  <2>5. Len(s.out) < Cardinality(V)
    BY <1>1, <1>5, <2>1, RankNat
  <2>6. QED BY <1>1, <1>5, <2>1, <2>3, <2>4, <2>5, RankAppend
<1>8. Cardinality(V) \in Nat /\ \A s \in I : Len(s.out) \in Nat /\ Len(s.out) <= Cardinality(V)
  <2>1. /\ Cardinality(V) \in Nat /\ Rank(V, K, Null) = Cardinality(V)
        /\ \A m : Rank(V, K, m) \in Nat
        /\ \A m \in V : Rank(V, K, m) < Cardinality(V)
    BY <1>1, RankNat
  <2>2. QED BY <1>5, <2>1
<1>9. mu \in [I -> Nat]
  BY <1>8
<1>10. Cardinality(V) < Passes
  BY <1>2, ElemAssumption, FS_Subset, FS_CardinalityType, PassesNat
<1>11. mu[start] < Passes
  <2>1. mu[start] = Cardinality(V) - Len(start.out)
    BY <1>4
  <2>2. Len(start.out) \in Nat /\ Cardinality(V) \in Nat
    BY <1>4, <1>8
  <2> HIDE DEF mu
  <2>3. QED BY <1>10, <2>1, <2>2, PassesNat
<1>12. \A s \in I : s.at = Null => pass[s] = s /\ mu[s] = 0
  <2>1. Rank(V, K, Null) = Cardinality(V)
    BY <1>1, RankNat
  <2>2. ASSUME NEW s \in I, s.at = Null PROVE pass[s] = s /\ mu[s] = 0
    <3>1. pass[s] = s
      BY <1>6, <2>2
    <3>2. Len(s.out) = Cardinality(V)
      BY <1>5, <2>1, <2>2
    <3>3. mu[s] = Cardinality(V) - Len(s.out)
      OBVIOUS
    <3> HIDE DEF mu
    <3>4. QED BY <1>8, <3>1, <3>2, <3>3
  <2>3. QED BY <2>2
<1>13. \A s \in I : s.at # Null => pass[s] \in I /\ mu[pass[s]] < mu[s] /\ mu[s] # 0
  BY <1>7, <1>8
<1> HIDE DEF mu
<1>14. Closed(pass, I) /\ Decreasing(pass, I, mu)
  BY <1>12, <1>13 DEF Closed, Decreasing
<1>15. end \in I /\ mu[end] = 0
  BY <1>4, <1>9, <1>11, <1>14, LoopEnds
<1> HIDE DEF end
<1>16. end.at = Null
  BY <1>13, <1>15
<1>17. Ranked(V, K, end.out)
  <2>1. Rank(V, K, Null) = Cardinality(V)
    BY <1>1, RankNat
  <2>2. QED BY <1>5, <1>15, <1>16, <2>1 DEF Ranked
<1>18. IsWalked(V, K, end)
  BY <1>5, <1>15, <1>16, <1>17 DEF IsWalked
<1>19. QED BY <1>3, <1>18

\* The walk starts at the first node, at Null in an empty tree.
LEMMA DescentStarts ==
  ASSUME NEW root, NEW L, NEW R, NEW P, NEW V, NEW S, NEW K,
         IsTree(root, L, R, P, V, S, K)
  PROVE  Descent(L, root) \in V \cup {Null} /\ Below(V, K, Descent(L, root)) = {}
<1>1. root \in V \cup {Null} /\ S[root] = V /\ S[Null] = {} /\ \A x \in V : K[x] \in Int
  BY DEF IsTree, Typed
<1>2. CASE root = Null
  <2> DEFINE pass == [m \in Links |-> IF m # Null /\ L[m] # Null THEN L[m] ELSE m]
             I == {Null}
  <2>1. pass[Null] = Null
    BY DEF Links
  <2>2. Closed(pass, I)
    BY <2>1 DEF Closed
  <2>3. Loop(pass, Null) \in I
    <3> HIDE DEF pass
    <3>1. Null \in I
      OBVIOUS
    <3> HIDE DEF I
    <3>2. QED BY <2>2, <3>1, LoopInvariant
  <2>4. Descent(L, root) = Null
    BY <1>2, <2>3 DEF Descent
  <2>5. QED BY <1>1, <1>2, <2>4 DEF Below
<1>3. CASE root # Null
  <2> DEFINE f == Descent(L, root)
  <2>1. IsFirst(L, V, S, K, root, f)
    BY <1>1, <1>3, DescentLemma
  <2> HIDE DEF f
  <2>2. f \in V /\ \A x \in V \ {f} : K[f] < K[x]
    BY <1>1, <2>1 DEF IsFirst
  <2>3. \A x \in V : ~(K[x] < K[f])
    BY <1>1, <2>2
  <2>4. f # Null
    BY <2>2 DEF IsTree, Typed
  <2>5. QED BY <2>2, <2>3, <2>4 DEF f, Below
<1>4. QED BY <1>2, <1>3

-----------------------------------------------------------------------------
\* The i-th node of InOrder is the one with i - 1 nodes below it.
LEMMA InOrderAt ==
  ASSUME NEW t, Keyed(Nodes(t), GetKey), NEW x \in Nodes(t), NEW i \in 1 .. Cardinality(Nodes(t)),
         Rank(Nodes(t), GetKey, x) = i - 1
  PROVE  InOrder(t)[i] = x
<1> DEFINE V == Nodes(t)
           Has(n) == Cardinality({m \in V : GetKey[m] < GetKey[n]}) = i - 1
<1>1. InOrder(t)[i] = CHOOSE n \in V : Has(n)
  BY DEF InOrder
<1> HIDE DEF V
<1>2. Null \notin V /\ x \in V
  BY DEF Keyed, V
<1>3. \A n \in V : Rank(V, GetKey, n) = Cardinality({m \in V : GetKey[m] < GetKey[n]})
  BY <1>2 DEF Rank, Below
<1>4. \A n \in V : Has(n) => n = x
  BY <1>3, RankInjective DEF V
<1>5. Has(x)
  BY <1>2, <1>3 DEF V
<1> HIDE DEF Has
<1>6. QED BY <1>1, <1>2, <1>4, <1>5

LEMMA InOrderIs ==
  ASSUME NEW t, Keyed(Nodes(t), GetKey), NEW out, Ranked(Nodes(t), GetKey, out)
  PROVE  out = InOrder(t)
<1> DEFINE V == Nodes(t)
           N == Cardinality(V)
           io == InOrder(t)
<1>1. out \in Seq(V) /\ Len(out) = N /\ \A i \in 1 .. N : Rank(V, GetKey, out[i]) = i - 1
  BY DEF Ranked, InRank
<1>2. \A i \in 1 .. N : io[i] = out[i]
  <2>1. \A i \in 1 .. N : out[i] \in V
    BY <1>1
  <2>2. QED BY <1>1, <2>1, InOrderAt
<1>3. io = [i \in 1 .. N |-> io[i]]
  <2> DEFINE Node(i) == CHOOSE n \in V : Cardinality({m \in V : GetKey[m] < GetKey[n]}) = i - 1
  <2>1. io = [i \in 1 .. N |-> Node(i)]
    BY DEF InOrder
  <2> HIDE DEF Node, io, N
  <2>2. QED BY <2>1
<1>4. out = [i \in 1 .. N |-> out[i]]
  BY <1>1
<1> HIDE DEF io, N
<1>5. QED BY <1>2, <1>3, <1>4 DEF io

\* The nodes above a node are those not below it, but for itself.
LEMMA RankMirror ==
  ASSUME NEW V, NEW K \in [Elem -> Int], V \subseteq Elem, Keyed(V, K), NEW x \in V
  PROVE  Rank(V, K, x) = Cardinality(V) - 1 - Rank(V, [e \in Elem |-> 0 - K[e]], x)
<1> DEFINE K2 == [e \in Elem |-> 0 - K[e]]
           lo == Below(V, K, x)
           hi == Below(V, K2, x)
<1>1. /\ IsFiniteSet(V) /\ x # Null /\ \A y \in V : K[y] \in Int
      /\ \A y \in V : K[x] = K[y] => x = y
  BY DEF Keyed
<1>2. \A y \in V : K2[y] = 0 - K[y]
  OBVIOUS
<1> HIDE DEF K2
<1>3. \A y \in V : K2[y] < K2[x] <=> K[x] < K[y]
  BY <1>1, <1>2
<1>4. lo = {y \in V : K[y] < K[x]} /\ hi = {y \in V : K[x] < K[y]}
  BY <1>1, <1>3 DEF Below
<1> HIDE DEF lo, hi
<1>5. /\ lo \cap hi = {} /\ x \notin lo /\ x \notin hi /\ V = (lo \cup hi) \cup {x}
      /\ lo \subseteq V /\ hi \subseteq V
  <2>1. \A y \in V : y = x \/ K[y] < K[x] \/ K[x] < K[y]
    BY <1>1
  <2>2. QED BY <1>1, <1>4, <2>1
<1>6. IsFiniteSet(lo) /\ IsFiniteSet(hi)
  BY <1>1, <1>5, FS_Subset
<1>7. Cardinality(lo) \in Nat /\ Cardinality(hi) \in Nat /\ Cardinality(lo \cap hi) = 0
  BY <1>5, <1>6, FS_CardinalityType, FS_EmptySet
<1>8. IsFiniteSet(lo \cup hi) /\ Cardinality(lo \cup hi) = Cardinality(lo) + Cardinality(hi)
  <2>1. /\ IsFiniteSet(lo \cup hi)
        /\ Cardinality(lo \cup hi) = Cardinality(lo) + Cardinality(hi) - Cardinality(lo \cap hi)
    BY <1>6, FS_Union
  <2>2. QED BY <1>7, <2>1
<1>9. Cardinality(V) = Cardinality(lo) + Cardinality(hi) + 1
  BY <1>5, <1>8, FS_AddElement
<1>10. QED BY <1>7, <1>9 DEF Rank, lo, hi, K2

LEMMA ReverseInOrder ==
  ASSUME NEW t, Nodes(t) \subseteq Elem, Keyed(Nodes(t), GetKey), NEW out,
         Ranked(Nodes(t), [e \in Elem |-> 0 - GetKey[e]], out)
  PROVE  out = Reverse(InOrder(t))
<1> DEFINE V == Nodes(t)
           N == Cardinality(V)
           K2 == [e \in Elem |-> 0 - GetKey[e]]
           io == InOrder(t)
<1>1. GetKey \in [Elem -> Int]
  BY KeyAssumption
<1>2. out \in Seq(V) /\ Len(out) = N /\ \A i \in 1 .. N : Rank(V, K2, out[i]) = i - 1
  BY DEF Ranked, InRank
<1>3. N \in Nat
  BY RankNat
<1> HIDE DEF K2
<1>4. ASSUME NEW i \in 1 .. N PROVE io[(N - i) + 1] = out[i]
  <2>1. out[i] \in V
    BY <1>2
  <2>2. Rank(V, GetKey, out[i]) = N - 1 - Rank(V, K2, out[i])
    BY <1>1, <2>1, RankMirror DEF K2
  <2>3. /\ (N - i) + 1 \in 1 .. N
        /\ Rank(V, GetKey, out[i]) = ((N - i) + 1) - 1
    BY <1>2, <1>3, <2>2
  <2>4. QED BY <2>1, <2>3, InOrderAt
<1>5. io = [i \in 1 .. N |-> io[i]]
  <2> DEFINE Node(i) == CHOOSE n \in V : Cardinality({m \in V : GetKey[m] < GetKey[n]}) = i - 1
  <2>1. io = [i \in 1 .. N |-> Node(i)]
    BY DEF InOrder
  <2> HIDE DEF Node, io, N
  <2>2. QED BY <2>1
<1> HIDE DEF io, N, V
<1>6. Len(io) = N
  BY <1>3, <1>5
<1>7. Reverse(io) = [i \in 1 .. N |-> io[(N - i) + 1]]
  BY <1>6 DEF Reverse
<1>8. out = [i \in 1 .. N |-> out[i]]
  BY <1>2
<1>9. out = Reverse(io)
  BY <1>4, <1>7, <1>8
<1>10. QED BY <1>9 DEF io

LEMMA ForwardsLemma ==
  ASSUME NEW t, NEW S, HasTree(t, Nodes(t), S)
  PROVE  /\ Forwards(t) = [at |-> Null, out |-> InOrder(t)]
         /\ Backwards(t) = [at |-> Null, out |-> Reverse(InOrder(t))]
<1> DEFINE V == Nodes(t)
           L == t.left
           R == t.right
           P == t.parent
           K2 == [e \in Elem |-> 0 - GetKey[e]]
           f == Walk(L, R, P, Descent(L, t.root))
           b == Walk(R, L, P, Descent(R, t.root))
<1>1. IsTree(t.root, L, R, P, V, S, GetKey) /\ IsTree(t.root, R, L, P, V, S, K2)
  BY Mirror DEF HasTree
<1>2. Keyed(V, GetKey) /\ V \subseteq Elem
  <2> HIDE DEF V, L, R, P, K2
  <2>1. Keyed(V, GetKey)
    BY <1>1, TreeKeyed
  <2>2. V \subseteq Elem
    BY <1>1 DEF IsTree, Typed
  <2>3. QED BY <2>1, <2>2
<1>3. Forwards(t) = f
  BY DEF Forwards, WalkFrom, Walk, Following, Ascent, Descent, GetNextNode, GetFirstNode
<1>4. Backwards(t) = b
  BY DEF Backwards, WalkFrom, Walk, Following, Ascent, Descent, GetPrevNode, GetLastNode
<1>5. IsWalked(V, GetKey, f)
  <2>1. Descent(L, t.root) \in V \cup {Null} /\ Below(V, GetKey, Descent(L, t.root)) = {}
    BY <1>1, DescentStarts
  <2>2. QED BY <1>1, <2>1, WalkLemma
<1> HIDE DEF K2
<1>6. IsWalked(V, K2, b)
  <2>1. Descent(R, t.root) \in V \cup {Null} /\ Below(V, K2, Descent(R, t.root)) = {}
    BY <1>1, DescentStarts
  <2>2. QED BY <1>1, <2>1, WalkLemma
<1> HIDE DEF f, b
<1>7. f.out = InOrder(t) /\ f.at = Null /\ f = [at |-> f.at, out |-> f.out]
  BY <1>2, <1>5, InOrderIs DEF IsWalked
<1>8. b.out = Reverse(InOrder(t)) /\ b.at = Null /\ b = [at |-> b.at, out |-> b.out]
  BY <1>2, <1>6, ReverseInOrder DEF IsWalked, K2
<1>9. QED BY <1>3, <1>4, <1>7, <1>8

-----------------------------------------------------------------------------
\* What DoInAll still has to visit, with the subtree of root and the stack nodes
Todo(R, V, S, root, nodes) ==
    S[root] \cup {x \in V : \E i \in 1 .. Len(nodes) : x = nodes[i] \/ x \in S[R[nodes[i]]]}

\* A node on the stack is left below those under it, as is all of T.
Stacked(L, S, nodes) ==
    \A i, j \in 1 .. Len(nodes) : i < j => S[nodes[j]] \subseteq S[L[nodes[i]]]
LeftOf(L, S, T, nodes) == \A i \in 1 .. Len(nodes) : T \subseteq S[L[nodes[i]]]

\* T is all there is from some node on.
Topmost(V, K, T) == T \subseteq V /\ \A x \in V \ T, y \in T : K[x] < K[y]

LeastOf(K, T, n) == n \in T /\ \A y \in T \ {n} : K[n] < K[y]

\* Taking the least node out of it
TakesLeast(V, K, T, n) ==
    /\ Rank(V, K, n) = Cardinality(V \ T) /\ Topmost(V, K, T \ {n})
    /\ Cardinality(V \ (T \ {n})) = Cardinality(V \ T) + 1

LEMMA TopmostLeast ==
  ASSUME NEW V, NEW K, Keyed(V, K), NEW T, Topmost(V, K, T), NEW n, LeastOf(K, T, n)
  PROVE  TakesLeast(V, K, T, n)
<1>1. /\ T \subseteq V /\ n \in V /\ n # Null /\ IsFiniteSet(V)
      /\ \A x \in V : K[x] \in Int
      /\ \A x \in V \ T, y \in T : K[x] < K[y]
      /\ n \in T /\ \A y \in T \ {n} : K[n] < K[y]
  BY DEF Topmost, Keyed, LeastOf
<1>2. Below(V, K, n) = V \ T
  <2>1. ASSUME NEW x \in V PROVE K[x] < K[n] <=> x \notin T
    <3>1. K[x] \in Int /\ K[n] \in Int
      BY <1>1
    <3>2. CASE x \notin T
      BY <1>1, <3>2
    <3>3. CASE x = n
      BY <1>1, <3>1, <3>3
    <3>4. CASE x \in T \ {n}
      BY <1>1, <3>1, <3>4
    <3>5. QED BY <3>2, <3>3, <3>4
  <2>2. QED BY <1>1, <2>1 DEF Below
<1>3. Topmost(V, K, T \ {n})
  <2>1. ASSUME NEW x \in V \ (T \ {n}), NEW y \in T \ {n} PROVE K[x] < K[y]
    BY <1>1
  <2>2. QED BY <1>1, <2>1 DEF Topmost
<1>4. V \ (T \ {n}) = (V \ T) \cup {n} /\ n \notin V \ T
  BY <1>1
<1>5. IsFiniteSet(V \ T)
  BY <1>1, FS_Subset
<1>6. Cardinality(V \ (T \ {n})) = Cardinality(V \ T) + 1
  BY <1>4, <1>5, FS_AddElement
<1>7. QED BY <1>2, <1>3, <1>6 DEF Rank, TakesLeast

LEMMA FrontFields ==
  ASSUME NEW V, NEW q \in Seq(V), q # <<>>
  PROVE  /\ Last(q) = q[Len(q)] /\ Last(q) \in V /\ Len(q) \in Nat /\ Len(q) > 0
         /\ Front(q) \in Seq(V) /\ Len(Front(q)) = Len(q) - 1
         /\ \A i \in 1 .. Len(q) - 1 : Front(q)[i] = q[i]
<1>1. Len(q) \in Nat /\ Len(q) > 0
  BY EmptySeq
<1>2. Last(q) = q[Len(q)] /\ Last(q) \in V
  BY <1>1, ElementOfSeq DEF Last
<1>3. /\ SubSeq(q, 1, Len(q) - 1) \in Seq(V) /\ Len(SubSeq(q, 1, Len(q) - 1)) = Len(q) - 1
      /\ \A i \in 1 .. Len(q) - 1 : SubSeq(q, 1, Len(q) - 1)[i] = q[i]
  <2> DEFINE k == Len(q) - 1
             g == [i \in 1 .. k |-> q[i]]
  <2>1. k \in Nat /\ \A i \in 1 .. k : i \in 1 .. Len(q) /\ q[i] \in V
    BY <1>1, ElementOfSeq
  <2>2. SubSeq(q, 1, k) = g
    <3>1. SubSeq(q, 1, k) = [i \in 1 .. (1 + k - 1) |-> q[(i + 1) - 1]]
      BY <1>1, <2>1
    <3> HIDE DEF k
    <3>2. 1 + k - 1 = k /\ \A i \in 1 .. k : (i + 1) - 1 = i
      BY <2>1
    <3>3. QED BY <3>1, <3>2
  <2> HIDE DEF k
  <2>3. g \in Seq(V) /\ Len(g) = k /\ \A i \in 1 .. k : g[i] = q[i]
    BY <2>1
  <2> HIDE DEF g
  <2>4. QED BY <2>2, <2>3 DEF k
<1>4. QED BY <1>1, <1>2, <1>3 DEF Front

\* A step down to the left leaves the same to visit.
LEMMA TodoDown ==
  ASSUME NEW root, NEW L, NEW R, NEW P, NEW V, NEW S, NEW K,
         IsTree(root, L, R, P, V, S, K), NEW r \in V, NEW q \in Seq(V),
         Stacked(L, S, q), LeftOf(L, S, S[r], q)
  PROVE  /\ Append(q, r) \in Seq(V) /\ L[r] \in V \cup {Null}
         /\ Stacked(L, S, Append(q, r)) /\ LeftOf(L, S, S[L[r]], Append(q, r))
         /\ Todo(R, V, S, L[r], Append(q, r)) = Todo(R, V, S, r, q)
<1> DEFINE u == Append(q, r)
<1>1. /\ u \in Seq(V) /\ Len(u) = Len(q) + 1 /\ Len(q) \in Nat /\ u[Len(q) + 1] = r
      /\ \A i \in 1 .. Len(q) : u[i] = q[i]
  BY AppendProperties
<1> HIDE DEF u
<1>2. /\ S[r] = {r} \cup S[L[r]] \cup S[R[r]] /\ L[r] \in V \cup {Null}
      /\ S[R[r]] \subseteq V /\ S[L[r]] \subseteq V
  BY DEF IsTree, Typed, Unfolds
<1>3. \A i \in 1 .. Len(u) : i \in 1 .. Len(q) \/ i = Len(q) + 1
  BY <1>1
<1>4. Stacked(L, S, u)
  <2>1. ASSUME NEW i \in 1 .. Len(u), NEW j \in 1 .. Len(u), i < j
        PROVE  S[u[j]] \subseteq S[L[u[i]]]
    <3>1. i \in 1 .. Len(q) /\ u[i] = q[i]
      BY <1>1, <2>1
    <3>2. CASE j \in 1 .. Len(q)
      BY <1>1, <2>1, <3>1, <3>2 DEF Stacked
    <3>3. CASE j = Len(q) + 1
      BY <1>1, <3>1, <3>3 DEF LeftOf
    <3>4. QED BY <1>3, <3>2, <3>3
  <2>2. QED BY <2>1 DEF Stacked
<1>5. LeftOf(L, S, S[L[r]], u)
  <2>1. ASSUME NEW i \in 1 .. Len(u) PROVE S[L[r]] \subseteq S[L[u[i]]]
    <3>1. CASE i \in 1 .. Len(q)
      BY <1>1, <1>2, <3>1 DEF LeftOf
    <3>2. CASE i = Len(q) + 1
      BY <1>1, <3>2
    <3>3. QED BY <1>3, <3>1, <3>2
  <2>2. QED BY <2>1 DEF LeftOf
<1>6. Todo(R, V, S, L[r], u) = Todo(R, V, S, r, q)
  <2>1. ASSUME NEW x
        PROVE  (\E i \in 1 .. Len(u) : x = u[i] \/ x \in S[R[u[i]]])
               <=> \/ \E i \in 1 .. Len(q) : x = q[i] \/ x \in S[R[q[i]]]
                   \/ x = r \/ x \in S[R[r]]
    <3>1. \A i \in 1 .. Len(q) : i \in 1 .. Len(u) /\ u[i] = q[i]
      BY <1>1
    <3>2. Len(q) + 1 \in 1 .. Len(u) /\ u[Len(q) + 1] = r
      BY <1>1
    <3>3. QED BY <1>3, <3>1, <3>2
  <2>2. QED BY <1>2, <2>1 DEF Todo
<1>7. QED BY <1>1, <1>2, <1>4, <1>5, <1>6 DEF u

\* The top of the stack is the least of what is to visit, and the rest of it is
\* its right subtree and the stack below.
LEMMA TodoUp ==
  ASSUME NEW root, NEW L, NEW R, NEW P, NEW V, NEW S, NEW K,
         IsTree(root, L, R, P, V, S, K), NEW q \in Seq(V), q # <<>>, Stacked(L, S, q)
  PROVE  /\ Last(q) \in V /\ Front(q) \in Seq(V) /\ R[Last(q)] \in V \cup {Null}
         /\ Last(q) \in Todo(R, V, S, Null, q)
         /\ \A y \in Todo(R, V, S, Null, q) \ {Last(q)} : K[Last(q)] < K[y]
         /\ Todo(R, V, S, R[Last(q)], Front(q)) = Todo(R, V, S, Null, q) \ {Last(q)}
         /\ Stacked(L, S, Front(q)) /\ LeftOf(L, S, S[R[Last(q)]], Front(q))
<1> DEFINE n == Last(q)
           u == Front(q)
           l == Len(q)
<1>1. /\ n = q[l] /\ n \in V /\ l \in Nat /\ l > 0 /\ l \in 1 .. l
      /\ u \in Seq(V) /\ Len(u) = l - 1
      /\ \A i \in 1 .. l - 1 : u[i] = q[i] /\ q[i] \in V
      /\ \A i \in 1 .. l - 1 : i \in 1 .. l /\ i < l
      /\ \A i \in 1 .. l : i \in 1 .. l - 1 \/ i = l
  <2>1. n = q[l] /\ n \in V /\ l \in Nat /\ l > 0 /\ u \in Seq(V) /\ Len(u) = l - 1
    BY FrontFields
  <2>2. \A i \in 1 .. l - 1 : u[i] = q[i]
    BY FrontFields
  <2>3. /\ l \in 1 .. l
        /\ \A i \in 1 .. l - 1 : i \in 1 .. l /\ i < l
        /\ \A i \in 1 .. l : i \in 1 .. l - 1 \/ i = l
    BY <2>1
  <2>4. \A i \in 1 .. l - 1 : q[i] \in V
    BY <2>3
  <2>5. QED BY <2>1, <2>2, <2>3, <2>4
<1> HIDE DEF n, u, l
<1>2. /\ S[n] = {n} \cup S[L[n]] \cup S[R[n]] /\ R[n] \in V \cup {Null} /\ S[Null] = {}
      /\ S[R[n]] \subseteq V
      /\ \A x \in S[R[n]] : K[n] < K[x]
      /\ \A x \in V : K[x] \in Int
  BY <1>1 DEF IsTree, Typed, Unfolds, Sorted
<1>3. ASSUME NEW i \in 1 .. l - 1
      PROVE  /\ S[n] \subseteq S[L[q[i]]] /\ n # q[i] /\ n \notin S[R[q[i]]]
             /\ K[n] < K[q[i]] /\ \A x \in S[R[q[i]]] : K[n] < K[x]
  <2> DEFINE m == q[i]
  <2>1. m \in V /\ i \in 1 .. l /\ i < l
    BY <1>1
  <2>2. S[n] \subseteq S[L[m]]
    BY <1>1, <2>1 DEF Stacked, l
  <2>3. /\ \A x \in S[L[m]] : K[x] < K[m]
        /\ \A x \in S[R[m]] : K[m] < K[x]
        /\ S[R[m]] \subseteq V
    BY <2>1 DEF IsTree, Sorted, Typed
  <2> HIDE DEF m
  <2>4. K[n] < K[m]
    BY <1>2, <2>2, <2>3
  <2>5. ASSUME NEW x \in S[R[m]] PROVE K[n] < K[x]
    <3>1. K[x] \in Int /\ K[n] \in Int /\ K[m] \in Int /\ K[m] < K[x]
      BY <1>1, <1>2, <2>1, <2>3
    <3>2. QED BY <2>4, <3>1
  <2>6. K[n] \in Int
    BY <1>1, <1>2
  <2>7. n # m /\ n \notin S[R[m]]
    BY <2>4, <2>5, <2>6
  <2>8. QED BY <2>2, <2>4, <2>5, <2>7 DEF m
<1>4. Todo(R, V, S, Null, q)
        = {n} \cup S[R[n]] \cup {x \in V : \E i \in 1 .. l - 1 : x = q[i] \/ x \in S[R[q[i]]]}
  <2>1. ASSUME NEW x
        PROVE  (\E i \in 1 .. l : x = q[i] \/ x \in S[R[q[i]]])
               <=> \/ x = n \/ x \in S[R[n]]
                   \/ \E i \in 1 .. l - 1 : x = q[i] \/ x \in S[R[q[i]]]
    BY <1>1
  <2>2. QED BY <1>1, <1>2, <2>1 DEF Todo, l
<1>5. Todo(R, V, S, R[n], u)
        = S[R[n]] \cup {x \in V : \E i \in 1 .. l - 1 : x = q[i] \/ x \in S[R[q[i]]]}
  BY <1>1 DEF Todo
<1>6. n \notin S[R[n]]
  BY <1>1, <1>2
<1>7. Todo(R, V, S, R[n], u) = Todo(R, V, S, Null, q) \ {n} /\ n \in Todo(R, V, S, Null, q)
  BY <1>3, <1>4, <1>5, <1>6
<1>8. ASSUME NEW y \in Todo(R, V, S, Null, q) \ {n} PROVE K[n] < K[y]
  <2>1. \/ y \in S[R[n]]
        \/ \E i \in 1 .. l - 1 : y = q[i] \/ y \in S[R[q[i]]]
    BY <1>4
  <2>2. QED BY <1>2, <1>3, <2>1
<1>9. Stacked(L, S, u)
  BY <1>1 DEF Stacked, l
<1>10. LeftOf(L, S, S[R[n]], u)
  <2>1. ASSUME NEW i \in 1 .. Len(u) PROVE S[R[n]] \subseteq S[L[u[i]]]
    BY <1>1, <1>2, <1>3
  <2>2. QED BY <2>1 DEF LeftOf
<1>11. QED BY <1>1, <1>2, <1>7, <1>8, <1>9, <1>10 DEF n, u

\* Where DoInAll can be
Visiting(L, R, V, S, K) ==
    {s \in [root : V \cup {Null}, nodes : Seq(V), out : Seq(V)] :
        /\ Stacked(L, S, s.nodes) /\ LeftOf(L, S, S[s.root], s.nodes)
        /\ InRank(V, K, s.out) /\ Topmost(V, K, Todo(R, V, S, s.root, s.nodes))
        /\ Len(s.out) = Cardinality(V \ Todo(R, V, S, s.root, s.nodes))}

\* u is s after a step down with the same to visit.
IsDown(L, R, V, S, K, s, u) ==
    /\ u \in Visiting(L, R, V, S, K) /\ u.out = s.out /\ u.root = L[s.root]
    /\ Todo(R, V, S, u.root, u.nodes) = Todo(R, V, S, s.root, s.nodes)

LEMMA VisitDown ==
  ASSUME NEW root, NEW L, NEW R, NEW P, NEW V, NEW S, NEW K,
         IsTree(root, L, R, P, V, S, K), NEW s \in Visiting(L, R, V, S, K), s.root # Null,
         NEW u, u = [root |-> L[s.root], nodes |-> Append(s.nodes, s.root), out |-> s.out]
  PROVE  IsDown(L, R, V, S, K, s, u)
<1>1. /\ s \in [root : V \cup {Null}, nodes : Seq(V), out : Seq(V)] /\ s.root \in V
      /\ Stacked(L, S, s.nodes) /\ LeftOf(L, S, S[s.root], s.nodes)
      /\ InRank(V, K, s.out) /\ Topmost(V, K, Todo(R, V, S, s.root, s.nodes))
      /\ Len(s.out) = Cardinality(V \ Todo(R, V, S, s.root, s.nodes))
  BY DEF Visiting
<1>2. /\ Append(s.nodes, s.root) \in Seq(V) /\ L[s.root] \in V \cup {Null}
      /\ Stacked(L, S, Append(s.nodes, s.root))
      /\ LeftOf(L, S, S[L[s.root]], Append(s.nodes, s.root))
      /\ Todo(R, V, S, L[s.root], Append(s.nodes, s.root)) = Todo(R, V, S, s.root, s.nodes)
  BY <1>1, TodoDown
<1>3. /\ u \in [root : V \cup {Null}, nodes : Seq(V), out : Seq(V)]
      /\ u.root = L[s.root] /\ u.nodes = Append(s.nodes, s.root) /\ u.out = s.out
  BY <1>1, <1>2
<1>4. QED BY <1>1, <1>2, <1>3 DEF Visiting, IsDown

LEMMA VisitUp ==
  ASSUME NEW root, NEW L, NEW R, NEW P, NEW V, NEW S, NEW K,
         IsTree(root, L, R, P, V, S, K), NEW s \in Visiting(L, R, V, S, K),
         s.root = Null, s.nodes # <<>>,
         NEW u, u = [root |-> R[Last(s.nodes)], nodes |-> Front(s.nodes),
                     out |-> Append(s.out, Last(s.nodes))]
  PROVE  /\ u \in Visiting(L, R, V, S, K)
         /\ Len(u.out) = Len(s.out) + 1
<1> DEFINE n == Last(s.nodes)
           f == Front(s.nodes)
           T == Todo(R, V, S, s.root, s.nodes)
           T2 == Todo(R, V, S, R[n], f)
<1>1. /\ s.nodes \in Seq(V) /\ s.out \in Seq(V)
      /\ Stacked(L, S, s.nodes) /\ InRank(V, K, s.out) /\ Topmost(V, K, T)
      /\ Len(s.out) = Cardinality(V \ T)
  BY DEF Visiting
<1>2. /\ n \in V /\ f \in Seq(V) /\ R[n] \in V \cup {Null}
      /\ n \in T /\ T2 = T \ {n} /\ Stacked(L, S, f) /\ LeftOf(L, S, S[R[n]], f)
      /\ \A y \in T \ {n} : K[n] < K[y]
  BY <1>1, TodoUp
<1> HIDE DEF n, f, T, T2
<1>3. /\ Rank(V, K, n) = Cardinality(V \ T) /\ Topmost(V, K, T2)
      /\ Cardinality(V \ T2) = Cardinality(V \ T) + 1
  <2>1. Keyed(V, K)
    BY TreeKeyed
  <2>2. TakesLeast(V, K, T, n)
    <3>1. Topmost(V, K, T) /\ LeastOf(K, T, n)
      BY <1>1, <1>2 DEF LeastOf
    <3>2. QED BY <2>1, <3>1, TopmostLeast
  <2>3. QED BY <1>2, <2>2 DEF TakesLeast
<1>4. InRank(V, K, Append(s.out, n)) /\ Len(Append(s.out, n)) = Len(s.out) + 1
  BY <1>1, <1>2, <1>3, RankAppend
<1>5. Append(s.out, n) \in Seq(V)
  BY <1>4 DEF InRank
<1>6. /\ u \in [root : V \cup {Null}, nodes : Seq(V), out : Seq(V)]
      /\ u.root = R[n] /\ u.nodes = f /\ u.out = Append(s.out, n)
  BY <1>2, <1>5 DEF n, f
<1>7. QED BY <1>1, <1>2, <1>3, <1>4, <1>6 DEF Visiting, T2

\* The states of DoInAll's loops
Visits == [root : Links, nodes : Seq(Elem), out : Seq(Elem)]

GoDown(L) ==
    [s \in Visits |-> IF s.root = Null THEN s
                      ELSE [s EXCEPT !.nodes = Append(@, s.root), !.root = L[@]]]

\* The inner loop comes to the end of the left links with the same to visit.
LEMMA DownLemma ==
  ASSUME NEW root, NEW L, NEW R, NEW P, NEW V, NEW S, NEW K,
         IsTree(root, L, R, P, V, S, K), NEW s \in Visiting(L, R, V, S, K),
         NEW d, d = Loop(GoDown(L), s)
  PROVE  /\ d \in Visiting(L, R, V, S, K) /\ d.root = Null /\ d.out = s.out
         /\ Todo(R, V, S, d.root, d.nodes) = Todo(R, V, S, s.root, s.nodes)
<1> DEFINE down == GoDown(L)
           J == {u \in Visiting(L, R, V, S, K) :
                   /\ u.out = s.out
                   /\ Todo(R, V, S, u.root, u.nodes) = Todo(R, V, S, s.root, s.nodes)}
           mu == [u \in J |-> Size(V, S)[u.root]]
<1>1. V \subseteq Elem /\ V \cup {Null} \subseteq Links /\ Null \notin V
  BY DEF IsTree, Typed, Links
<1>2. Visiting(L, R, V, S, K) \subseteq Visits
  <2>1. Seq(V) \subseteq Seq(Elem)
    BY <1>1, SeqMonotonic
  <2>2. [root : V \cup {Null}, nodes : Seq(V), out : Seq(V)] \subseteq Visits
    BY <1>1, <2>1 DEF Visits
  <2>3. QED BY <2>2 DEF Visiting
<1>3. ASSUME NEW u \in J
      PROVE  /\ u \in Visiting(L, R, V, S, K) /\ u \in Visits /\ u.root \in V \cup {Null}
             /\ down[u] = IF u.root = Null THEN u
                          ELSE [u EXCEPT !.nodes = Append(@, u.root), !.root = L[@]]
  <2>1. u \in Visiting(L, R, V, S, K) /\ u \in Visits
    BY <1>2
  <2>2. u.root \in V \cup {Null}
    BY <2>1 DEF Visiting
  <2>3. QED BY <2>1, <2>2 DEF GoDown
<1> HIDE DEF down
<1>4. ASSUME NEW u \in J, u.root # Null PROVE down[u] \in J /\ down[u].root = L[u.root]
  <2>1. /\ down[u] \in Visiting(L, R, V, S, K) /\ down[u].out = u.out /\ down[u].root = L[u.root]
        /\ Todo(R, V, S, down[u].root, down[u].nodes) = Todo(R, V, S, u.root, u.nodes)
    <3> DEFINE w == down[u]
    <3>1. w = [root |-> L[u.root], nodes |-> Append(u.nodes, u.root), out |-> u.out]
      BY <1>3, <1>4 DEF Visits
    <3>2. u \in Visiting(L, R, V, S, K)
      BY <1>3
    <3> HIDE DEF w, J
    <3>3. IsDown(L, R, V, S, K, u, w)
      BY <1>4, <3>1, <3>2, VisitDown
    <3>4. QED BY <3>3 DEF w, IsDown
  <2>2. QED BY <2>1
<1>5. s \in J
  OBVIOUS
<1>6. /\ Size(V, S) \in [V \cup {Null} -> Nat] /\ Size(V, S)[Null] = 0
      /\ \A n \in V \cup {Null} : Size(V, S)[n] < Passes
      /\ \A n \in V : Size(V, S)[n] > 0 /\ Size(V, S)[L[n]] < Size(V, S)[n]
  BY SubtreeSizes
<1>7. \A u \in J : u.root = Null => down[u] = u
  BY <1>3
<1>8. \A u \in J : u.root \in V \cup {Null}
  BY <1>3
<1> HIDE DEF J
<1>9. mu \in [J -> Nat]
  BY <1>6, <1>8
<1>10. Closed(down, J)
  BY <1>4, <1>7 DEF Closed
<1>11. ASSUME NEW u \in J PROVE mu[down[u]] < mu[u] \/ mu[down[u]] = 0
  <2>1. CASE u.root = Null
    BY <1>6, <1>7, <2>1
  <2>2. CASE u.root # Null
    <3>1. u.root \in V /\ down[u] \in J /\ down[u].root = L[u.root]
      BY <1>4, <1>8, <2>2
    <3>2. mu[down[u]] = Size(V, S)[L[u.root]] /\ mu[u] = Size(V, S)[u.root]
      BY <3>1
    <3>3. QED BY <1>6, <3>1, <3>2
  <2>3. QED BY <2>1, <2>2
<1>12. mu[s] < Passes
  BY <1>5, <1>6, <1>8
<1>13. \A u \in J : mu[u] = 0 => u.root = Null
  BY <1>6, <1>8
<1> HIDE DEF mu
<1>14. Decreasing(down, J, mu)
  BY <1>11 DEF Decreasing
<1>15. d \in J /\ mu[d] = 0
  BY <1>5, <1>9, <1>10, <1>12, <1>14, LoopEnds DEF down
<1>16. d.root = Null
  BY <1>13, <1>15
<1>17. QED BY <1>15, <1>16 DEF J

\* The outer pass
GoUp(L, R) ==
    [s \in Visits |-> IF s.root = Null /\ s.nodes = <<>> THEN s
                      ELSE LET d == Loop(GoDown(L), s)
                           IN  [root  |-> R[Last(d.nodes)],
                                nodes |-> Front(d.nodes),
                                out   |-> Append(d.out, Last(d.nodes))]]

LEMMA UpLemma ==
  ASSUME NEW root, NEW L, NEW R, NEW P, NEW V, NEW S, NEW K,
         IsTree(root, L, R, P, V, S, K), NEW s \in Visiting(L, R, V, S, K), s \in Visits,
         ~(s.root = Null /\ s.nodes = <<>>)
  PROVE  /\ GoUp(L, R)[s] \in Visiting(L, R, V, S, K)
         /\ Len(GoUp(L, R)[s].out) = Len(s.out) + 1
<1> DEFINE d == Loop(GoDown(L), s)
           u == [root |-> R[Last(d.nodes)], nodes |-> Front(d.nodes),
                 out |-> Append(d.out, Last(d.nodes))]
<1>1. GoUp(L, R)[s] = u
  BY DEF GoUp
<1> HIDE DEF d
<1>2. /\ d \in Visiting(L, R, V, S, K) /\ d.root = Null /\ d.out = s.out
      /\ Todo(R, V, S, d.root, d.nodes) = Todo(R, V, S, s.root, s.nodes)
  BY DownLemma DEF d
<1>3. /\ S[Null] = {} /\ s.root \in V \cup {Null} /\ s.nodes \in Seq(V)
      /\ \A n \in V : n \in S[n]
  BY DEF Visiting, IsTree, Typed, Unfolds
<1>4. Todo(R, V, S, s.root, s.nodes) # {}
  <2>1. CASE s.root # Null
    <3>1. s.root \in S[s.root]
      BY <1>3, <2>1
    <3>2. QED BY <3>1 DEF Todo
  <2>2. CASE s.nodes # <<>>
    <3>1. 1 \in 1 .. Len(s.nodes) /\ s.nodes[1] \in V
      BY <1>3, <2>2
    <3>2. QED BY <3>1 DEF Todo
  <2>3. QED BY <2>1, <2>2
<1>5. d.nodes # <<>>
  <2> SUFFICES ASSUME d.nodes = <<>> PROVE FALSE
    OBVIOUS
  <2>1. Todo(R, V, S, Null, <<>>) = {}
    BY <1>3 DEF Todo
  <2>2. QED BY <1>2, <1>4, <2>1
<1> DEFINE v == u
<1>6. v = [root |-> R[Last(d.nodes)], nodes |-> Front(d.nodes),
           out |-> Append(d.out, Last(d.nodes))]
  OBVIOUS
<1> HIDE DEF v
<1>7. v \in Visiting(L, R, V, S, K) /\ Len(v.out) = Len(d.out) + 1
  BY <1>2, <1>5, <1>6, VisitUp
<1>8. QED BY <1>1, <1>2, <1>6, <1>7

LEMMA VisitAll ==
  ASSUME NEW root, NEW L, NEW R, NEW P, NEW V, NEW S, NEW K,
         IsTree(root, L, R, P, V, S, K),
         NEW e, e = Loop(GoUp(L, R), [root |-> root, nodes |-> <<>>, out |-> <<>>])
  PROVE  Ranked(V, K, e.out)
<1> DEFINE pass == GoUp(L, R)
           I == Visiting(L, R, V, S, K)
           start == [root |-> root, nodes |-> <<>>, out |-> <<>>]
           mu == [s \in I |-> Cardinality(V) - Len(s.out)]
<1>1. IsTree(root, L, R, P, V, S, K) /\ Keyed(V, K)
  BY TreeKeyed
<1>2. /\ V \subseteq Elem /\ V \cup {Null} \subseteq Links
      /\ root \in V \cup {Null} /\ S[root] = V /\ S[Null] = {}
      /\ \A n \in V : n \in S[n]
  BY DEF IsTree, Typed, Links, Unfolds
<1>3. I \subseteq Visits
  <2>1. Seq(V) \subseteq Seq(Elem)
    BY <1>2, SeqMonotonic
  <2>2. [root : V \cup {Null}, nodes : Seq(V), out : Seq(V)] \subseteq Visits
    BY <1>2, <2>1 DEF Visits
  <2>3. QED BY <2>2 DEF Visiting
<1>4. start \in I
  <2>1. start \in [root : V \cup {Null}, nodes : Seq(V), out : Seq(V)]
        /\ start.root = root /\ start.nodes = <<>> /\ start.out = <<>>
    BY <1>2
  <2> HIDE DEF start
  <2>2. Todo(R, V, S, root, <<>>) = V
    BY <1>2 DEF Todo
  <2>3. Stacked(L, S, <<>>) /\ LeftOf(L, S, S[root], <<>>) /\ InRank(V, K, <<>>)
    BY DEF Stacked, LeftOf, InRank
  <2>4. Topmost(V, K, V) /\ Len(<<>>) = 0 /\ Cardinality(V \ V) = 0
    <3>1. V \ V = {}
      OBVIOUS
    <3>2. QED BY <3>1, FS_EmptySet DEF Topmost
  <2>5. QED BY <2>1, <2>2, <2>3, <2>4 DEF Visiting
<1>5. ASSUME NEW s \in I
      PROVE  /\ Len(s.out) \in Nat /\ Len(s.out) <= Cardinality(V) /\ Cardinality(V) \in Nat
             /\ InRank(V, K, s.out)
  <2>1. InRank(V, K, s.out) /\ Len(s.out) = Cardinality(V \ Todo(R, V, S, s.root, s.nodes))
    BY DEF Visiting
  <2>2. IsFiniteSet(V)
    BY <1>1 DEF Keyed
  <2>3. QED BY <2>1, <2>2, FS_Subset, FS_CardinalityType
<1>6. \A s \in I : s.root = Null /\ s.nodes = <<>> => pass[s] = s
  BY <1>3 DEF GoUp
<1>7. ASSUME NEW s \in I, ~(s.root = Null /\ s.nodes = <<>>)
      PROVE  pass[s] \in I /\ Len(pass[s].out) = Len(s.out) + 1
  <2>1. s \in Visits
    BY <1>3
  <2>2. QED BY <1>1, <1>7, <2>1, UpLemma
<1>8. \A s \in I : s.root = Null /\ s.nodes = <<>> => Len(s.out) = Cardinality(V)
  <2>1. ASSUME NEW s \in I, s.root = Null, s.nodes = <<>> PROVE Len(s.out) = Cardinality(V)
    <3>1. Todo(R, V, S, s.root, s.nodes) = {}
      BY <1>2, <2>1 DEF Todo
    <3>2. V \ {} = V
      OBVIOUS
    <3>3. QED BY <3>1, <3>2 DEF Visiting
  <2>2. QED BY <2>1
<1> HIDE DEF pass, I, start
<1>9. mu \in [I -> Nat]
  BY <1>5
<1>10. ASSUME NEW s \in I PROVE pass[s] \in I /\ (mu[pass[s]] < mu[s] \/ mu[pass[s]] = 0)
  <2>1. CASE s.root = Null /\ s.nodes = <<>>
    BY <1>5, <1>6, <1>8, <2>1
  <2>2. CASE ~(s.root = Null /\ s.nodes = <<>>)
    <3>1. pass[s] \in I /\ Len(pass[s].out) = Len(s.out) + 1
      BY <1>7, <2>2
    <3>2. QED BY <1>5, <3>1
  <2>3. QED BY <2>1, <2>2
<1>11. mu[start] < Passes
  <2>1. Cardinality(V) < Passes
    BY <1>2, ElemAssumption, FS_Subset, FS_CardinalityType, PassesNat
  <2>2. QED BY <1>4, <1>5, <2>1, PassesNat
<1>12. \A s \in I : mu[s] = 0 => Len(s.out) = Cardinality(V)
  BY <1>5
<1> HIDE DEF mu
<1>13. Closed(pass, I) /\ Decreasing(pass, I, mu)
  BY <1>10 DEF Closed, Decreasing
<1>14. e \in I /\ mu[e] = 0
  BY <1>4, <1>9, <1>11, <1>13, LoopEnds DEF pass, start
<1>15. QED BY <1>5, <1>12, <1>14 DEF Ranked

LEMMA WalksInOrderNow == AInv => WalksInOrder
<1> SUFFICES ASSUME AInv PROVE WalksInOrder
  OBVIOUS
<1>1. PICK S : HasTree(tree, Nodes(tree), S)
  BY AInvFacts
<1>2. /\ Forwards(tree) = [at |-> Null, out |-> InOrder(tree)]
      /\ Backwards(tree) = [at |-> Null, out |-> Reverse(InOrder(tree))]
  BY <1>1, ForwardsLemma
<1>3. DoInAll(tree) = InOrder(tree)
  <2> DEFINE V == Nodes(tree)
             e == Loop(GoUp(tree.left, tree.right),
                       [root |-> tree.root, nodes |-> <<>>, out |-> <<>>])
  <2>1. DoInAll(tree) = e.out
    BY DEF DoInAll, GoUp, GoDown, Visits
  <2>2. IsTree(tree.root, tree.left, tree.right, tree.parent, V, S, GetKey)
    BY <1>1 DEF HasTree
  <2> HIDE DEF e
  <2>3. Ranked(V, GetKey, e.out)
    BY <2>2, VisitAll DEF e
  <2>4. Keyed(V, GetKey)
    BY <2>2, TreeKeyed
  <2>5. QED BY <2>1, <2>3, <2>4, InOrderIs
<1>4. QED BY <1>2, <1>3 DEF WalksInOrder

\* Iteration with ++ from begin(), with -- from the last node, and DoInAll, which
\* keeps its own stack, each meet every node of the tree once, in the order of the
\* keys, and stop: GetNextNode and GetPrevNode climb to the right ancestor whatever
\* the rotations made of the tree.
THEOREM WalksCorrect == Spec => []WalksInOrder
<1>1. QED BY AInvCorrect, WalksInOrderNow, PTL

=============================================================================
