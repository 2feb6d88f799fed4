------------------------------- MODULE AvlTree -------------------------------
(***************************************************************************)
(* mmkv::algo::AvlTreeBase, the search tree behind every bucket of         *)
(* TreeHashTable, down to its links and heights.  A node is named by the   *)
(* value it holds.  A tree is root_ with the left, right, parent and       *)
(* height fields of the nodes; the loops are functions of their pass.      *)
(*                                                                         *)
(* A node that leaves the tree through Extract or ReuseAllNodes stays with *)
(* the caller, who may push it again: its height is what it was when it    *)
(* left, respectively 0, and Push does not reset it.                       *)
(***************************************************************************)
EXTENDS Integers, Sequences, FiniteSets, SequencesExt

CONSTANTS Elem,       \* the values, each with a node of its own
          Key,        \* their keys, integers under the usual order
          GetKey,     \* GK, the key of a value
          Null,       \* nullptr
          MaxHeld,    \* bound: nodes that Extract has left with the caller
          MaxReused   \* bound: nodes in play once one of them is reused

ASSUME ElemAssumption  == IsFiniteSet(Elem)
ASSUME KeyAssumption   == Key \subseteq Int /\ GetKey \in [Elem -> Key]
ASSUME NullAssumption  == Null \notin Elem
ASSUME BoundAssumption == MaxHeld \in Nat /\ MaxReused \in Nat

VARIABLES tree,       \* root_ and the fields of every node
          held,       \* extracted nodes the caller still has
          ret,        \* the last call and its answer
          stale       \* history: a node came back to this tree with
                      \* another height than a new node's

vars == <<tree, held, ret, stale>>

-----------------------------------------------------------------------------
Links == Elem \cup {Null}

Trees == [root : Links, left : [Elem -> Links], right : [Elem -> Links],
          parent : [Elem -> Links], height : [Elem -> Nat]]

\* The state s after one pass of a loop more than there are nodes; a pass that
\* finds the loop's condition false leaves its state alone.
Passes == Cardinality(Elem) + 1

Loop(pass, s) ==
    LET after[n \in 0 .. Passes] == IF n = 0 THEN s ELSE pass[after[n - 1]]
    IN  after[Passes]

LEFT_HEIGHT(t, n)  == IF t.left[n] = Null THEN 0 ELSE t.height[t.left[n]]
RIGHT_HEIGHT(t, n) == IF t.right[n] = Null THEN 0 ELSE t.height[t.right[n]]
AVL_MAX(x, y) == IF x < y THEN y ELSE x

HeightAbove(t, n) == AVL_MAX(LEFT_HEIGHT(t, n), RIGHT_HEIGHT(t, n)) + 1

UpdateHeight(t, n) == [t EXCEPT !.height[n] = HeightAbove(t, n)]

SetParent(t, n, p) == IF n = Null THEN t ELSE [t EXCEPT !.parent[n] = p]

\* Mutant of ChildPlace: always the left link.
ChildPlaceLeft(t, old, new, parent) ==
    IF parent = Null THEN [t EXCEPT !.root = new]
                     ELSE [t EXCEPT !.left[parent] = new]

ChildPlace(t, old, new, parent) ==
    IF parent = Null THEN [t EXCEPT !.root = new]
    ELSE IF old = t.left[parent] THEN [t EXCEPT !.left[parent] = new]
    ELSE [t EXCEPT !.right[parent] = new]

\* The right child of n takes its place.
RotateLeft(t, n) ==
    LET right == t.right[n]
        linked == [t EXCEPT !.right[n] = t.left[right], !.left[right] = n,
                            !.parent[right] = t.parent[n], !.parent[n] = right]
    IN  ChildPlace(SetParent(linked, t.left[right], n), n, right, t.parent[n])

RotateRight(t, n) ==
    LET left == t.left[n]
        linked == [t EXCEPT !.left[n] = t.right[left], !.right[left] = n,
                            !.parent[left] = t.parent[n], !.parent[n] = left]
    IN  ChildPlace(SetParent(linked, t.right[left], n), n, left, t.parent[n])

\* Each returns the tree; the node that takes n's place is then n's parent.
FixupLeftHeavy(t, n) ==
    LET left  == t.left[n]
        bent  == LEFT_HEIGHT(t, left) < RIGHT_HEIGHT(t, left)
        inner == IF ~bent THEN t
                 ELSE UpdateHeight(UpdateHeight(RotateLeft(t, left), left),
                                   t.right[left])
    IN  UpdateHeight(UpdateHeight(RotateRight(inner, n), n), inner.left[n])

FixupRigtHeavy(t, n) ==
    LET right == t.right[n]
        bent  == LEFT_HEIGHT(t, right) > RIGHT_HEIGHT(t, right)
        inner == IF ~bent THEN t
                 ELSE UpdateHeight(UpdateHeight(RotateRight(t, right), right),
                                   t.left[right])
    IN  UpdateHeight(UpdateHeight(RotateLeft(inner, n), n), inner.right[n])

\* One retracing pass at s.node, whose height was brought up to date: rebalance
\* if it is needed and go on with the parent of what is there now.
Rebalanced(s) ==
    LET n    == s.node
        bf   == LEFT_HEIGHT(s.t, n) - RIGHT_HEIGHT(s.t, n)
        fix  == IF bf >= 2 THEN FixupLeftHeavy(s.t, n)
                ELSE IF bf <= -2 THEN FixupRigtHeavy(s.t, n) ELSE s.t
        top  == IF bf \in -1 .. 1 THEN n ELSE fix.parent[n]
    IN  [t |-> fix, node |-> fix.parent[top]]

\* Where retracing is
Retracing == [t : Trees, node : Links]

InsertFixup(t, node) ==
    LET pass[s \in Retracing] ==
          IF s.node = Null THEN s
          ELSE IF s.t.height[s.node] = HeightAbove(s.t, s.node)
               THEN [s EXCEPT !.node = Null]
               ELSE Rebalanced([s EXCEPT !.t = UpdateHeight(s.t, s.node)])
    IN  Loop(pass, [t |-> t, node |-> node]).t

\* Mutant of EraseFixup: it stops where the insertion's retracing would.
EraseFixupEarly(t, node) == InsertFixup(t, node)

\* Retracing after a removal also stops only at a balanced node.
EraseFixup(t, node) ==
    LET Balanced(s) == LEFT_HEIGHT(s.t, s.node) - RIGHT_HEIGHT(s.t, s.node) \in -1 .. 1
        pass[s \in Retracing] ==
          IF s.node = Null THEN s
          ELSE IF s.t.height[s.node] = HeightAbove(s.t, s.node) /\ Balanced(s)
               THEN [s EXCEPT !.node = Null]
               ELSE Rebalanced([s EXCEPT !.t = UpdateHeight(s.t, s.node)])
    IN  Loop(pass, [t |-> t, node |-> node]).t

-----------------------------------------------------------------------------
\* Iterator interface: the extreme nodes below n, and its neighbours in order
GetFirstNode(t, n) ==
    LET pass[m \in Links] == IF m # Null /\ t.left[m] # Null THEN t.left[m] ELSE m
    IN  Loop(pass, n)

GetLastNode(t, n) ==
    LET pass[m \in Links] == IF m # Null /\ t.right[m] # Null THEN t.right[m] ELSE m
    IN  Loop(pass, n)

\* Mutant of GetNextNode: climbs one link only.
GetNextNodeShort(t, n) ==
    IF t.right[n] # Null THEN GetFirstNode(t, t.right[n]) ELSE t.parent[n]

GetNextNode(t, n) ==
    LET pass[s \in [cur : Links, up : Links]] ==
            IF s.up = Null \/ t.left[s.up] = s.cur THEN s
            ELSE [cur |-> s.up, up |-> t.parent[s.up]]
    IN  IF t.right[n] # Null THEN GetFirstNode(t, t.right[n])
        ELSE Loop(pass, [cur |-> n, up |-> t.parent[n]]).up

GetPrevNode(t, n) ==
    LET pass[s \in [cur : Links, up : Links]] ==
            IF s.up = Null \/ t.right[s.up] = s.cur THEN s
            ELSE [cur |-> s.up, up |-> t.parent[s.up]]
    IN  IF t.left[n] # Null THEN GetLastNode(t, t.left[n])
        ELSE Loop(pass, [cur |-> n, up |-> t.parent[n]]).up

\* The node goes, its successor or its only child takes its place; retracing
\* starts at the lowest node whose subtree lost height.
Erase(t, n) ==
    LET parent == t.parent[n]
        succ   == GetFirstNode(t, t.right[n])
        under  == t.parent[succ]
        child  == IF t.left[n] # Null THEN t.left[n] ELSE t.right[n]
        \* the successor takes n's left subtree, height and place
        InPlace(u) == ChildPlace([SetParent(u, t.left[n], succ) EXCEPT
                                      !.left[succ] = t.left[n],
                                      !.parent[succ] = parent,
                                      !.height[succ] = t.height[n]],
                                 n, succ, parent)
        \* a deeper successor is cut out of the right subtree first
        cut    == SetParent(ChildPlace(t, succ, t.right[succ], under),
                            t.right[succ], under)
        grown  == [SetParent(cut, cut.right[n], succ) EXCEPT
                      !.right[succ] = cut.right[n]]
    IN  IF t.left[n] # Null /\ t.right[n] # Null
        THEN IF under = n THEN EraseFixup(InPlace(t), succ)
                          ELSE EraseFixup(InPlace(grown), under)
        ELSE EraseFixup(SetParent(ChildPlace(t, n, child, parent), child, parent),
                        parent)

-----------------------------------------------------------------------------
FindNode(t, k) ==
    LET pass[n \in Links] == IF n = Null \/ GetKey[n] = k THEN n
                             ELSE IF GetKey[n] > k THEN t.left[n] ELSE t.right[n]
    IN  Loop(pass, t.root)

\* The first node with a key among keys, which has every key from some key on
Bound(t, keys) ==
    LET pass[s \in [track : Links, node : Links]] ==
            IF s.node = Null THEN s
            ELSE IF GetKey[s.node] \in keys
                 THEN [track |-> s.node, node |-> t.left[s.node]]
                 ELSE [s EXCEPT !.node = t.right[s.node]]
    IN  Loop(pass, [track |-> Null, node |-> t.root]).track

\* Mutant of LowerBound: strict.
LowerBoundStrict(t, k) == Bound(t, {j \in Key : j > k})

LowerBound(t, k) == Bound(t, {j \in Key : j >= k})
UpperBound(t, k) == Bound(t, {j \in Key : j > k})

\* The parent of the empty slot where key k belongs
SlotParent(t, k) ==
    LET pass[s \in [node : Links, parent : Links]] ==
            IF s.node = Null THEN s
            ELSE [parent |-> s.node,
                  node |-> IF GetKey[s.node] > k THEN t.left[s.node]
                                                 ELSE t.right[s.node]]
    IN  Loop(pass, [node |-> t.root, parent |-> Null]).parent

LinkSlot(t, n, p) ==
    IF GetKey[p] > GetKey[n]
    THEN [t EXCEPT !.left[p] = n, !.parent[n] = p]
    ELSE [t EXCEPT !.right[p] = n, !.parent[n] = p]

\* A tree of one node takes the second without retracing; the root's height is
\* not what it should be until the next retracing comes by.
Linked(t, n) ==
    LET single == t.left[t.root] = Null /\ t.right[t.root] = Null
        p      == SlotParent(t, GetKey[n])
    IN  IF t.root = Null THEN [t EXCEPT !.root = n]
        ELSE IF single THEN LinkSlot(t, n, t.root)
        ELSE InsertFixup(LinkSlot(t, n, p), p)

\* DoInAll keeps the path to the next node on a stack of its own.
DoInAll(t) ==
    LET States == [root : Links, nodes : Seq(Elem), out : Seq(Elem)]
        down[s \in States] ==
            IF s.root = Null THEN s
            ELSE [s EXCEPT !.nodes = Append(@, s.root), !.root = t.left[@]]
        pass[s \in States] ==
            IF s.root = Null /\ s.nodes = <<>> THEN s
            ELSE LET d == Loop(down, s)
                 IN  [root  |-> t.right[Last(d.nodes)],
                      nodes |-> Front(d.nodes),
                      out   |-> Append(d.out, Last(d.nodes))]
    IN  Loop(pass, [root |-> t.root, nodes |-> <<>>, out |-> <<>>]).out

-----------------------------------------------------------------------------
Answer(op, ok, out) == [op |-> op, ok |-> ok, out |-> out]

\* The fields of n once Extract has cleared them, or the node was freed
Unlinked(t, n, height) ==
    [t EXCEPT !.left[n] = Null, !.right[n] = Null, !.parent[n] = Null,
              !.height[n] = height]

EmptyTree == LET all(x) == [n \in Elem |-> x]
             IN  [root |-> Null, left |-> all(Null), right |-> all(Null),
                  parent |-> all(Null), height |-> all(0)]

\* The nodes that are linked in the tree
Nodes(t) == {n \in Elem : n = t.root \/ t.parent[n] # Null}

Init == /\ tree = EmptyTree /\ held = {}
        /\ ret = Answer("none", FALSE, {}) /\ stale = FALSE

\* The nodes that exist
InPlay == Cardinality(Nodes(tree) \cup held)

\* InsertWithDuplicate, and Insert which hides the duplicate
Insert(e) ==
    LET dup == FindNode(tree, GetKey[e])
    IN  /\ e \notin held
        /\ held # {} \/ stale => InPlay < MaxReused
        /\ \/ /\ dup = Null
              /\ tree' = Linked([tree EXCEPT !.height[e] = 1], e)
              /\ ret' = Answer("Insert", TRUE, {e})
           \/ /\ dup # Null
              /\ tree' = tree
              /\ ret' = Answer("Insert", FALSE, {dup})
        /\ UNCHANGED <<held, stale>>

\* Push of a node the caller has: linked as it is, stale height included.  A
\* refused node stays with the caller.
Push(e) ==
    LET ok == FindNode(tree, GetKey[e]) = Null
    IN  /\ e \in held
        /\ tree' = IF ok THEN Linked(tree, e) ELSE tree
        /\ held' = IF ok THEN held \ {e} ELSE held
        /\ ret' = Answer("Push", ok, {})
        /\ stale' = (stale \/ (ok /\ tree.height[e] # 1))

\* The caller drops a node it has.
DropNode(e) ==
    /\ e \in held
    /\ held' = held \ {e}
    /\ tree' = Unlinked(tree, e, 0)
    /\ UNCHANGED <<ret, stale>>

Find(k) ==
    LET n == FindNode(tree, k)
    IN  /\ ret' = Answer("Find", n # Null, {n} \ {Null})
        /\ UNCHANGED <<tree, held, stale>>

\* Extract gives the node to the caller, Erase(key) drops it.
Extract(k, drop) ==
    LET n == FindNode(tree, k)
    IN  /\ ~drop => Cardinality(held) < MaxHeld /\ InPlay <= MaxReused
        /\ tree' = IF n = Null THEN tree
                   ELSE Unlinked(Erase(tree, n), n, IF drop THEN 0 ELSE tree.height[n])
        /\ held' = IF n = Null \/ drop THEN held ELSE held \cup {n}
        /\ ret' = Answer("Extract", n # Null, {n} \ {Null})
        /\ UNCHANGED stale

\* EraseNode of the node a FindNode just returned
EraseNode ==
    /\ ret.op = "Find" /\ ret.ok
    /\ \E n \in ret.out : tree' = Unlinked(Erase(tree, n), n, 0)
    /\ ret' = Answer("EraseNode", TRUE, {})
    /\ UNCHANGED <<held, stale>>

Cutting == [node : Links, t : Trees, out : Seq(Elem)]

\* Mutant of ReuseAllNodes: left subtrees are not entered.
ReuseRightOnly(t) ==
    LET pass[s \in Cutting] ==
          LET n == s.node
              p == s.t.parent[n]
          IN  IF n = Null THEN s
              ELSE IF s.t.right[n] # Null THEN [s EXCEPT !.node = s.t.right[n]]
              ELSE [node |-> p,
                    t    |-> IF p = Null THEN s.t ELSE ChildPlace(s.t, n, Null, p),
                    out  |-> Append(s.out, n)]
    IN  Loop(pass, Loop(pass, [node |-> t.root, t |-> t, out |-> <<>>])).out

\* Leaves are cut off one by one and given to the callback, which gets them in
\* this order with their links and height reset.
ReuseAllNodes(t) ==
    LET pass[s \in Cutting] ==
          LET n == s.node
              p == s.t.parent[n]
          IN  IF n = Null THEN s
              ELSE IF s.t.left[n] # Null THEN [s EXCEPT !.node = s.t.left[n]]
              ELSE IF s.t.right[n] # Null THEN [s EXCEPT !.node = s.t.right[n]]
              ELSE [node |-> p,
                    t    |-> IF p = Null THEN s.t ELSE ChildPlace(s.t, n, Null, p),
                    out  |-> Append(s.out, n)]
    IN  Loop(pass, Loop(pass, [node |-> t.root, t |-> t, out |-> <<>>])).out

\* Clear and ClearApply drop every node, the latter after a callback.
Clear(op) ==
    LET out == ReuseAllNodes(tree)
    IN  /\ tree' = [EmptyTree EXCEPT !.height =
                       [n \in Elem |-> IF n \in held THEN tree.height[n] ELSE 0]]
        /\ ret' = Answer(op, Len(out) = Cardinality(Range(out)),
                         IF op = "Clear" THEN {} ELSE Range(out))
        /\ stale' = FALSE
        /\ UNCHANGED held

\* ReuseAllNodes with a callback that keeps the nodes, as IncrementalRehash does
TakeAll ==
    LET out == ReuseAllNodes(tree)
    IN  /\ InPlay <= MaxReused
        /\ tree' = [EmptyTree EXCEPT !.height =
                       [n \in Elem |-> IF n \in held THEN tree.height[n] ELSE 0]]
        /\ held' = held \cup Range(out)
        /\ ret' = Answer("ClearApply", Len(out) = Cardinality(Range(out)), Range(out))
        /\ stale' = FALSE

Next == \/ \E e \in Elem : Insert(e) \/ Push(e) \/ DropNode(e)
        \/ \E k \in Key : Find(k) \/ \E drop \in BOOLEAN : Extract(k, drop)
        \/ EraseNode \/ TakeAll
        \/ \E op \in {"Clear", "ClearApply"} : Clear(op)

Spec == Init /\ [][Next]_vars

-----------------------------------------------------------------------------
\* The nodes a walk down from the root meets
Reached(t) ==
    LET pass[S \in SUBSET Elem] ==
            (S \cup {t.left[n] : n \in S} \cup {t.right[n] : n \in S}) \ {Null}
    IN  Loop(pass, {t.root} \ {Null})

\* After any sequence of rotations and relinking, every linked node is reached
\* from the root, parent and child links agree, and no link leads into or out of
\* a node that is not in the tree, one the caller holds in particular.
WellLinked ==
    LET t == tree
    IN  /\ held \subseteq Elem \ Nodes(t)
        /\ Nodes(t) = Reached(t)
        /\ t.root # Null => t.parent[t.root] = Null
        /\ \A n \in Nodes(t) :
              /\ \A c \in {t.left[n], t.right[n]} \ {Null} : t.parent[c] = n
              /\ t.left[n] = t.right[n] => t.left[n] = Null
              /\ n # t.root => n \in {t.left[t.parent[n]], t.right[t.parent[n]]}
        /\ \A n \in Elem \ Nodes(t) : {t.left[n], t.right[n], t.parent[n]} = {Null}

\* The stored nodes in the order of their keys: the i-th has i - 1 below it
InOrder(t) == LET Below(n) == {m \in Nodes(t) : GetKey[m] < GetKey[n]}
              IN  [i \in 1 .. Cardinality(Nodes(t)) |->
                      CHOOSE n \in Nodes(t) : Cardinality(Below(n)) = i - 1]

\* n, Move(n) and so on, until Null
WalkFrom(n, Move(_)) ==
    LET pass[s \in [at : Links, out : Seq(Elem)]] ==
            IF s.at = Null THEN s
            ELSE [at |-> Move(s.at), out |-> Append(s.out, s.at)]
    IN  Loop(pass, [at |-> n, out |-> <<>>])

\* What a loop over ++ from begin(), or over -- from the last node, meets
Forwards(t) == LET Up(n) == GetNextNode(t, n)
               IN  WalkFrom(GetFirstNode(t, t.root), Up)
Backwards(t) == LET Down(n) == GetPrevNode(t, n)
                IN  WalkFrom(GetLastNode(t, t.root), Down)

\* Iteration forwards, iteration backwards and DoInAll each visit every stored
\* node once and in the order of the keys, and stop.
WalksInOrder ==
    /\ Forwards(tree) = [at |-> Null, out |-> InOrder(tree)]
    /\ Backwards(tree) = [at |-> Null, out |-> Reverse(InOrder(tree))]
    /\ DoInAll(tree) = InOrder(tree)

\* LowerBound and UpperBound return the least node at or above the key, and the
\* least node above it.
BoundsExact ==
    \A k \in Key :
        LET Least(S) == IF S = {} THEN Null
                        ELSE CHOOSE n \in S : \A m \in S : GetKey[n] <= GetKey[m]
        IN  /\ LowerBound(tree, k) = Least({n \in Nodes(tree) : GetKey[n] >= k})
            /\ UpperBound(tree, k) = Least({n \in Nodes(tree) : GetKey[n] > k})

\* CalculateHeight of every node: the longest way down
CalculateHeight(t) ==
    LET pass[h \in [Elem -> Nat]] == [n \in Elem |->
            LET H(m) == IF m = Null THEN 0 ELSE h[m]
            IN  AVL_MAX(H(t.left[n]), H(t.right[n])) + 1]
    IN  Loop(pass, [n \in Elem |-> 0])

\* The balance VerifyAvlProperties checks at every node of the tree
VerifyAvlProperties(t) ==
    LET h == CalculateHeight(t)
        H(m) == IF m = Null THEN 0 ELSE h[m]
    IN  \A n \in Nodes(t) : H(t.left[n]) - H(t.right[n]) \in -1 .. 1

\* While no node came back with a stale height the tree is balanced, and every
\* height field is the true one but for the root's after the second insertion.
BalancedUnlessStale ==
    ~stale =>
        /\ VerifyAvlProperties(tree)
        /\ \A n \in Nodes(tree) :
              \/ tree.height[n] = CalculateHeight(tree)[n]
              \/ n = tree.root /\ Cardinality(Nodes(tree)) = 2

\* The tree stays balanced whatever sequence of calls is made.
AlwaysBalanced == VerifyAvlProperties(tree)

\* Whatever the shape, balanced or not, the caller sees a set of unique keys.
KS == INSTANCE KeyedSet WITH elems <- Nodes(tree)
ImplementsKeyedSet == KS!Spec
=============================================================================
