------------------------------ MODULE HashTable -----------------------------
(***************************************************************************)
(* mmkv::algo::HashTable and the operations HashSet adds: two arrays of    *)
(* singly linked buckets and an incremental rehash.  A bucket is the       *)
(* sequence of its nodes from header_ on; a lookup moves what it finds to  *)
(* the front, so even Find changes the table.                              *)
(*                                                                         *)
(* Unlike TreeHashTable, an insertion that meets the rehash before its     *)
(* bucket is moved goes to table2 at once.                                 *)
(***************************************************************************)
EXTENDS Integers, Sequences, FiniteSets, SequencesExt

CONSTANTS Elem,       \* values a caller may insert
          Key,        \* their keys
          GetKey,     \* GET_KEY, the key of a value
          HashOf,     \* HASH_FUNC, the hash of a key
          MaxLost,    \* bound: uncounted erasures between two Clears
          Others      \* other sets, as the elements inserted into each

ASSUME GetKeyAssumption == GetKey \in [Elem -> Key]
ASSUME HashAssumption   == HashOf \in [Key -> Nat]
ASSUME MaxLostAssumption == MaxLost \in Nat
ASSUME OthersAssumption == Others \subseteq Seq(Elem)

VARIABLES ht,         \* tables_ and rehash_move_bucket_index_
          ret,        \* the last call and its answer
          lost        \* history: entries erased without --used

vars == <<ht, ret, lost>>

-----------------------------------------------------------------------------
NoIndex == -1         \* (size_type)-1: no rehash in progress

\* buckets/size of both tables, used of table1, the next bucket to move
Table(t1, n1, t2, n2, used, idx) ==
    [t1 |-> t1, n1 |-> n1, t2 |-> t2, n2 |-> n2, used |-> used, idx |-> idx]

InRehashing(h) == h.idx # NoIndex

\* hash & size_mask, for a size that is a power of two
bucket_index(size, k) == HashOf[k] % size

Buckets(size) == [j \in 0 .. size - 1 |-> <<>>]

\* SearchIf: the position of the first node with key k, 0 if there is none
Search(B, k) == LET Match(e) == GetKey[e] = k IN SelectInSeq(B, Match)

\* ExtractNodeIf
Without(B, k) == IF Search(B, k) = 0 THEN B ELSE RemoveAt(B, Search(B, k))

\* Mutant of ToFront: the node is not linked again.
ToNowhere(B, k) == Without(B, k)

\* ExtractNodeIf, then EmplaceFrontNode
ToFront(B, k) == <<B[Search(B, k)]>> \o Without(B, k)

\* The positions of B whose nodes go to bucket j of an array of the given size
Going(B, size, j) == {i \in DOMAIN B : bucket_index(size, GetKey[B[i]]) = j}

\* Those nodes, each put in front of the one before: the first of them is last
Sifted(B, size, j) ==
    LET I       == Going(B, size, j)
        rank(i) == Cardinality({m \in I : m >= i})
    IN  [p \in 1 .. Cardinality(I) |-> B[CHOOSE i \in I : rank(i) = p]]

Elems(T) == UNION {ToSet(T[j]) : j \in DOMAIN T}

Stored(h) == Elems(h.t1) \cup Elems(h.t2)

-----------------------------------------------------------------------------
Rehash(h) ==
    IF ~InRehashing(h) /\ h.used >= h.n1
    THEN Table(h.t1, h.n1, Buckets(2 * h.n1), 2 * h.n1, h.used, 0)
    ELSE h

\* swap (which leaves used alone), then Reset of the old array
EndRehash(h) ==
    IF h.n2 = 0 THEN Table(h.t1, h.n1, h.t2, h.n2, h.used, NoIndex)
                ELSE Table(h.t2, h.n2, Buckets(0), 0, h.used, NoIndex)

MoveBucket(h) ==
    Table([h.t1 EXCEPT ![h.idx] = <<>>], h.n1,
          [j \in 0 .. h.n2 - 1 |-> Sifted(h.t1[h.idx], h.n2, j) \o h.t2[j]],
          h.n2, h.used, h.idx + 1)

IncrementalRehash(h) ==
    IF ~InRehashing(h) THEN h
    ELSE LET m == MoveBucket(h)
         IN  IF m.idx = m.n1 THEN EndRehash(m) ELSE m

\* The list of bucket j of table i, and h with that list replaced
List(h, i, j) == IF i = 1 THEN h.t1[j] ELSE h.t2[j]

Relinked(h, i, j, B) ==
    IF i = 1 THEN Table([h.t1 EXCEPT ![j] = B], h.n1, h.t2, h.n2, h.used, h.idx)
             ELSE Table(h.t1, h.n1, [h.t2 EXCEPT ![j] = B], h.n2, h.used, h.idx)

Counted(h, d) == Table(h.t1, h.n1, h.t2, h.n2, h.used + d, h.idx)

\* The bucket of key k in table i, and its list
Index(h, i, k) == bucket_index(IF i = 1 THEN h.n1 ELSE h.n2, k)
Bucket(h, i, k) == List(h, i, Index(h, i, k))

\* The tables a call looks in, the first one first
TablesInUse(h) == IF InRehashing(h) THEN {1, 2} ELSE {1}

\* Mutants of InsertTables: table1 whatever was moved; table2 as soon as there
\* is one.
FirstTable(h, k) == {1}
NewestTable(h, k) == IF InRehashing(h) THEN {2} ELSE {1}

InsertTables(h, k) ==
    IF InRehashing(h) /\ h.idx > bucket_index(h.n1, k) THEN {2}
                                                       ELSE TablesInUse(h)

Lowest(S) == CHOOSE j \in S : \A i \in S : j <= i

\* The first of the tables whose bucket has key k, or 0
FirstWith(h, tables, k) ==
    LET having == {i \in tables : Search(Bucket(h, i, k), k) # 0}
    IN  IF having = {} THEN 0 ELSE Lowest(having)

Node(h, i, k) == Bucket(h, i, k)[Search(Bucket(h, i, k), k)]

\* InsertWithDuplicate_impl: the new node goes to the last bucket that was
\* searched; ok, and the node of the key either way.
Inserted(t, e) ==
    LET h   == IncrementalRehash(Rehash(t))
        k   == GetKey[e]
        dup == FirstWith(h, InsertTables(h, k), k)
        own == IF 2 \in InsertTables(h, k) THEN 2 ELSE 1
    IN  IF dup = 0
        THEN [h   |-> Counted(Relinked(h, own, Index(h, own, k),
                                       <<e>> \o Bucket(h, own, k)), 1),
              ok  |-> TRUE, out |-> {e}]
        ELSE [h |-> h, ok |-> FALSE, out |-> {Node(h, dup, k)}]

\* FindSlot: what is found moves to the front of its list.
Found(t, k) ==
    LET h == IncrementalRehash(t)
        i == FirstWith(h, TablesInUse(h), k)
    IN  IF i = 0 THEN [h |-> h, out |-> {}]
        ELSE [h |-> Relinked(h, i, Index(h, i, k), ToFront(Bucket(h, i, k), k)),
              out |-> {Node(h, i, k)}]

Answer(op, ok, out) == [op |-> op, ok |-> ok, out |-> out]

-----------------------------------------------------------------------------
Empty == Table(Buckets(4), 4, Buckets(0), 0, 0, NoIndex)

Init ==
    /\ ht = Empty
    /\ ret = Answer("none", FALSE, {})
    /\ lost = 0

\* InsertWithDuplicate, and Insert which hides the duplicate
Insert(e) ==
    LET r == Inserted(ht, e)
    IN  /\ ht' = r.h
        /\ ret' = Answer("Insert", r.ok, r.out)
        /\ UNCHANGED lost

\* FindSlot, and Find (const or not) which hides the slot
Find(k) ==
    LET r == Found(ht, k)
    IN  /\ ht' = r.h
        /\ ret' = Answer("Find", r.out # {}, r.out)
        /\ UNCHANGED lost

\* Drop the header of the list where the FindSlot just before left its node.
EraseAfterFindSlot ==
    /\ ret.op = "Find" /\ ret.ok
    /\ lost < MaxLost
    /\ \E e \in ret.out :
          LET k == GetKey[e]
              i == FirstWith(ht, TablesInUse(ht), k)
          IN  ht' = Relinked(ht, i, Index(ht, i, k), Tail(Bucket(ht, i, k)))
    /\ ret' = Answer("EraseNode", TRUE, {})
    /\ lost' = lost + 1

\* Extract, and Erase which also drops the node
Extract(k) ==
    LET h == IncrementalRehash(ht)
        i == FirstWith(h, TablesInUse(h), k)
    IN  /\ ht' = IF i = 0 THEN h
                 ELSE Counted(Relinked(h, i, Index(h, i, k),
                                       Without(Bucket(h, i, k), k)), -1)
        /\ ret' = Answer("Extract", i # 0, IF i = 0 THEN {} ELSE {Node(h, i, k)})
        /\ UNCHANGED lost

\* Mutant of Clear: the rehash index is not reset.
ClearKeepsIndex ==
    /\ ht' = Table(Buckets(4), 4, Buckets(0), 0, 0, ht.idx)
    /\ ret' = Answer("Clear", TRUE, {})
    /\ lost' = 0

\* Mutant of Clear: used is not reset.
ClearKeepsUsed ==
    /\ ht' = Table(Buckets(4), 4, Buckets(0), 0, ht.used, NoIndex)
    /\ ret' = Answer("Clear", TRUE, {})
    /\ lost' = 0

Clear ==
    /\ ht' = Table(Buckets(4), 4,
                   IF InRehashing(ht) THEN Buckets(0) ELSE ht.t2,
                   IF InRehashing(ht) THEN 0 ELSE ht.n2, 0, NoIndex)
    /\ ret' = Answer("Clear", TRUE, {})
    /\ lost' = 0

\* HashSet::EraseRandom drops the front of the first bucket it finds in use,
\* from the rehash index on in table1, then in table2; used is not changed.
EraseRandom ==
    LET h       == IncrementalRehash(ht)
        from    == IF InRehashing(h) THEN h.idx ELSE 0
        full1   == {j \in from .. h.n1 - 1 : h.t1[j] # <<>>}
        full2   == IF InRehashing(h) THEN {j \in 0 .. h.n2 - 1 : h.t2[j] # <<>>}
                                     ELSE {}
        i       == IF full1 # {} THEN 1 ELSE 2
        j       == Lowest(IF full1 # {} THEN full1 ELSE full2)
        none    == full1 = {} /\ full2 = {}
    IN  /\ lost < MaxLost
        /\ ht' = IF none THEN h ELSE Relinked(h, i, j, Tail(List(h, i, j)))
        /\ ret' = Answer("EraseRandom", ~none, {})
        /\ lost' = IF none THEN lost ELSE lost + 1

Next == \/ \E e \in Elem : Insert(e)
        \/ \E k \in Key : Find(k) \/ Extract(k)
        \/ EraseAfterFindSlot \/ EraseRandom \/ Clear

Spec == Init /\ [][Next]_vars

-----------------------------------------------------------------------------
\* Mutant of Clone: only the newest array is copied.
CloneNewest(h) ==
    LET n == IF InRehashing(h) THEN h.n2 ELSE h.n1
        T == IF InRehashing(h) THEN h.t2 ELSE h.t1
    IN  Table([j \in 0 .. n - 1 |-> Reverse(T[j])], n, Buckets(0), 0, h.used, NoIndex)

\* Clone of h into a new table (values are their own keys, as in HashSet).
Clone(h) ==
    LET n == IF InRehashing(h) THEN h.n2 ELSE h.n1
        copy(j) == IF ~InRehashing(h) THEN Reverse(h.t1[j])
                   ELSE FlattenSeq(Reverse([i \in 1 .. h.n1 - h.idx |->
                                       Sifted(h.t1[h.idx + i - 1], n, j)]))
                            \o Reverse(h.t2[j])
    IN  Table([j \in 0 .. n - 1 |-> copy(j)], n, Buckets(0), 0, h.used, NoIndex)

(***************************************************************************)
(* HashTableConstIterator: the bucket it counts itself in, and slot_ as the*)
(* set of the node it points at, none at the end.  The node is followed by *)
(* its next pointer, wherever it is linked by then.                        *)
(***************************************************************************)
Iterator(tab, bkt, slot) == [tab |-> tab, bkt |-> bkt, slot |-> slot]

AtEnd == Iterator(2, 0, {})

\* The buckets in use of one array, from the given one on
InUse(T, bkt) == {j \in DOMAIN T : j >= bkt /\ T[j] # <<>>}

\* The front of the first bucket in use, in the array the iterator is in and
\* then in table2
Scan(h, tab, bkt) ==
    LET full1 == IF tab = 1 THEN InUse(h.t1, bkt) ELSE {}
        full2 == InUse(h.t2, IF tab = 1 THEN 0 ELSE bkt)
    IN  IF full1 # {} THEN Iterator(1, Lowest(full1), {Head(h.t1[Lowest(full1)])})
        ELSE IF full2 # {}
             THEN Iterator(2, Lowest(full2), {Head(h.t2[Lowest(full2)])})
        ELSE AtEnd

\* slot_->next: what follows node e in its list
NextOf(h, e) ==
    LET lists == {h.t1[j] : j \in DOMAIN h.t1} \cup {h.t2[j] : j \in DOMAIN h.t2}
        B     == CHOOSE L \in lists : e \in ToSet(L)
        pos   == CHOOSE n \in DOMAIN B : B[n] = e
    IN  IF pos = Len(B) THEN {} ELSE {B[pos + 1]}

\* Mutant of Increment: goes on from the same bucket.
IncrementSame(h, it) ==
    LET next == UNION {NextOf(h, e) : e \in it.slot}
    IN  IF next # {} THEN Iterator(it.tab, it.bkt, next)
                     ELSE Scan(h, it.tab, it.bkt)

Increment(h, it) ==
    LET next == UNION {NextOf(h, e) : e \in it.slot}
    IN  IF next # {} THEN Iterator(it.tab, it.bkt, next)
                     ELSE Scan(h, it.tab, it.bkt + 1)

(***************************************************************************)
(* HashSet's loops: over the nodes of set a, each handed to the callback   *)
(* (out) if looking it up in set b gives the wanted answer.  The lookup    *)
(* changes b, and so a when they are one set.  A loop that has not come to *)
(* the end after as many steps as a has nodes is cut off.                  *)
(***************************************************************************)
Steps(h) == Cardinality(Stored(h))

Step(s, same, wanted) ==
    LET m == CHOOSE e \in s.it.slot : TRUE
        r == Found(s.b, GetKey[m])
        a == IF same THEN r.h ELSE s.a
    IN  [a   |-> a, b |-> r.h, it |-> Increment(a, s.it),
         out |-> IF (r.out # {}) = wanted THEN Append(s.out, m) ELSE s.out]

Filtered(a, b, same, wanted, out) ==
    LET loop[n \in 0 .. Steps(a)] ==
            IF n = 0 THEN [a |-> a, b |-> b, it |-> Scan(a, 1, 0), out |-> out]
            ELSE CHOOSE r \in {IF s.it.slot = {} THEN s ELSE Step(s, same, wanted) :
                                   s \in {loop[n - 1]}} : TRUE
    IN  loop[Steps(a)]

\* A loop over h that changes nothing: its values in order
Walk(h) ==
    LET walk[n \in 0 .. Steps(h)] ==
            IF n = 0 THEN [it |-> Scan(h, 1, 0), out |-> <<>>]
            ELSE CHOOSE r \in {IF s.it.slot = {} THEN s
                               ELSE [it  |-> Increment(h, s.it),
                                     out |-> Append(s.out, CHOOSE e \in s.it.slot : TRUE)] :
                                   s \in {walk[n - 1]}} : TRUE
    IN  walk[Steps(h)]

\* The set with more elements, as size() tells, and the other one
More(a, b) == IF b.used > a.used THEN b ELSE a
Less(a, b) == IF b.used > a.used THEN a ELSE b

\* Mutant of Union: the second loop does not look the element up.
UnionUnchecked(a, b, same) ==
    Filtered(Less(a, b), More(a, b), same, TRUE, Walk(More(a, b)).out)

Union(a, b, same) ==
    Filtered(Less(a, b), More(a, b), same, FALSE, Walk(More(a, b)).out)

Intersection(a, b, same) == Filtered(Less(a, b), More(a, b), same, TRUE, <<>>)

Difference(a, b, same) == Filtered(a, b, same, FALSE, <<>>)

\* Another set: the elements of a sequence inserted one by one
Built(seq) ==
    LET built[n \in 0 .. Len(seq)] ==
            IF n = 0 THEN Empty ELSE Inserted(built[n - 1], seq[n]).h
    IN  built[Len(seq)]

-----------------------------------------------------------------------------
\* The arrays have their sizes, and a rehash goes to twice the size.
Shape(h) ==
    /\ h.n1 \in Nat /\ h.n1 >= 4 /\ h.n2 \in Nat /\ h.used \in Nat
    /\ h.t1 \in [0 .. h.n1 - 1 -> Seq(Elem)]
    /\ h.t2 \in [0 .. h.n2 - 1 -> Seq(Elem)]
    /\ \/ h.idx = NoIndex /\ h.n2 = 0
       \/ h.idx \in 0 .. h.n1 - 1 /\ h.n2 = 2 * h.n1

Answers == [op : {"none", "Insert", "Find", "Extract", "EraseNode", "EraseRandom",
                  "Clear"},
            ok : BOOLEAN, out : SUBSET Elem]

\* Type invariant; used, a size_t, never goes below zero.
TypeOK == Shape(ht) /\ ret \in Answers /\ lost \in Nat

\* Every element is where its hash sends a lookup, and table1 is empty below
\* the rehash index, where neither an insertion nor an iteration looks again.
Placed(h) ==
    /\ \A j \in DOMAIN h.t1 : \A e \in ToSet(h.t1[j]) :
            bucket_index(h.n1, GetKey[e]) = j /\ (InRehashing(h) => j >= h.idx)
    /\ \A j \in DOMAIN h.t2 : \A e \in ToSet(h.t2[j]) :
            bucket_index(h.n2, GetKey[e]) = j

Reachable == Placed(ht)

\* No two nodes of one list, and none of table1 and table2, have the same key.
Distinct(B) == \A m, n \in DOMAIN B : GetKey[B[m]] = GetKey[B[n]] => m = n

Unique(h) ==
    /\ \A j \in DOMAIN h.t1 : Distinct(h.t1[j])
    /\ \A j \in DOMAIN h.t2 : Distinct(h.t2[j])
    /\ \A e \in Elems(h.t1), f \in Elems(h.t2) : GetKey[e] # GetKey[f]

\* A key is linked once in the whole table, though for a key that table1 has not
\* given up yet the insertion goes to table2.
KeysUnique ==
    /\ \A e, f \in Stored(ht) : GetKey[e] = GetKey[f] => e = f
    /\ Unique(ht)

\* size() counts the stored elements and, until Clear, every entry erased by
\* EraseAfterFindSlot or EraseRandom, which do not touch used.
SizeCounts == ht.used = Cardinality(Stored(ht)) + lost

\* Whatever rehash and move-to-front do, the caller sees a set of unique keys.
KS == INSTANCE KeyedSet WITH elems <- Stored(ht)
ImplementsKeyedSet == KS!Spec

\* begin() to end() visits every element once, in the middle of a rehash too.
IterationExact ==
    LET walk == Walk(ht)
    IN  /\ walk.it = AtEnd
        /\ ToSet(walk.out) = Stored(ht)
        /\ Len(walk.out) = Cardinality(Stored(ht))

\* A clone, taken in the middle of a rehash too, has the same elements where a
\* lookup finds them, once each, and the same size().
CloneFaithful ==
    LET c == Clone(ht)
    IN  /\ Stored(c) = Stored(ht) /\ Placed(c) /\ Unique(c)
        /\ c.used = ht.used

\* r is a loop that ended, gave the callback each of the keys K once, and left
\* the set it searched with the same elements, where a lookup finds them.
Exactly(r, K, b) ==
    /\ r.it.slot = {}
    /\ {GetKey[e] : e \in ToSet(r.out)} = K /\ Len(r.out) = Cardinality(K)
    /\ Stored(r.b) = Stored(b) /\ Placed(r.b) /\ Unique(r.b)

KeysOf(h) == {GetKey[e] : e \in Stored(h)}

\* Union, Intersection and Difference of two sets are those of their keys,
\* whatever rehash either set is in, although every lookup moves nodes and
\* buckets of the set that is searched, and although size(), by which the sets
\* are told apart, may be wrong.
SetOperationsExact ==
    \A seq \in Others :
        LET g == Built(seq)
        IN  /\ Exactly(Union(ht, g, FALSE), KeysOf(ht) \cup KeysOf(g), More(ht, g))
            /\ Exactly(Intersection(ht, g, FALSE), KeysOf(ht) \cap KeysOf(g), More(ht, g))
            /\ Exactly(Difference(ht, g, FALSE), KeysOf(ht) \ KeysOf(g), g)

\* With the same set on both sides the loop runs over lists that its own lookups
\* reorder: outside a rehash it ends, with the right answer, exactly when no
\* bucket has two nodes; with two it goes back and forth between them.
SelfOperations ==
    ~InRehashing(ht) =>
        ((\A j \in DOMAIN ht.t1 : Len(ht.t1[j]) <= 1)
            <=> /\ Exactly(Union(ht, ht, TRUE), KeysOf(ht), ht)
                /\ Exactly(Intersection(ht, ht, TRUE), KeysOf(ht), ht)
                /\ Exactly(Difference(ht, ht, TRUE), {}, ht))
=============================================================================
