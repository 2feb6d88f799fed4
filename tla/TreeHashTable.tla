---------------------------- MODULE TreeHashTable ---------------------------
(***************************************************************************)
(* mmkv::algo::TreeHashTable: two bucket arrays and an incremental rehash. *)
(* While it rehashes, every operation first moves one bucket of table1 to  *)
(* table2.  A bucket is an AVL tree of unique keys, here the set of its    *)
(* values; the tree itself is not part of this module.                     *)
(*                                                                         *)
(* hash & size_mask is written hash % size: MCTreeHashTable checks that    *)
(* the two agree for every size the table takes.                           *)
(***************************************************************************)
EXTENDS Integers, FiniteSets

CONSTANTS Elem,       \* values (nodes) a caller may insert
          Key,        \* their keys
          GetKey,     \* GET_KEY, the key of a value
          Hash,       \* HASH_FUNC, the hash of a key
          MaxLost     \* bound: EraseNode calls between two Clears

ASSUME GetKeyAssumption == GetKey \in [Elem -> Key]
ASSUME HashAssumption   == Hash \in [Key -> Nat]
ASSUME MaxLostAssumption == MaxLost \in Nat

VARIABLES ht,         \* tables_ and rehash_move_bucket_index_
          ret,        \* the last call and its answer
          lost        \* history: entries EraseNode took without --used

vars == <<ht, ret, lost>>

-----------------------------------------------------------------------------
NoIndex == -1      \* (size_type)-1: no rehash in progress

\* buckets/size of both tables, used of table1, the next bucket to move
Table(t1, n1, t2, n2, used, idx) ==
    [t1 |-> t1, n1 |-> n1, t2 |-> t2, n2 |-> n2, used |-> used, idx |-> idx]

InRehashing(h) == h.idx # NoIndex

bucket_index(size, k) == Hash[k] % size

Buckets(size) == [j \in 0 .. size - 1 |-> {}]

\* Bucket::Find: the value with key k in bucket B (at most one)
WithKey(B, k) == {e \in B : GetKey[e] = k}

\* The buckets where key k belongs; table2 has none outside a rehash.
Bucket1(h, k) == h.t1[bucket_index(h.n1, k)]
Bucket2(h, k) == IF InRehashing(h) THEN h.t2[bucket_index(h.n2, k)] ELSE {}

\* Everything the table holds.
Stored(h) == (UNION {h.t1[j] : j \in 0 .. h.n1 - 1})
                 \cup (UNION {h.t2[j] : j \in 0 .. h.n2 - 1})

-----------------------------------------------------------------------------
\* Mutant of Rehash: grows only when used is over the size.
RehashLate(h) ==
    IF ~InRehashing(h) /\ h.used > h.n1
    THEN Table(h.t1, h.n1, Buckets(2 * h.n1), 2 * h.n1, h.used, 0)
    ELSE h

Rehash(h) ==
    IF ~InRehashing(h) /\ h.used >= h.n1
    THEN Table(h.t1, h.n1, Buckets(2 * h.n1), 2 * h.n1, h.used, 0)
    ELSE h

\* Mutant of MoveBucket: the rehash index is not advanced.
MoveBucketInPlace(h) ==
    LET moved(j) == {e \in h.t1[h.idx] : bucket_index(h.n2, GetKey[e]) = j}
    IN  Table([h.t1 EXCEPT ![h.idx] = {}], h.n1,
              [j \in 0 .. h.n2 - 1 |-> h.t2[j] \cup moved(j)], h.n2,
              h.used, h.idx)

\* ReuseAllNodes on bucket idx of table1; Push refuses a key table2 has.
MoveBucket(h) ==
    LET moved(j) == {e \in h.t1[h.idx] :
                        /\ bucket_index(h.n2, GetKey[e]) = j
                        /\ WithKey(h.t2[j], GetKey[e]) = {}}
    IN  Table([h.t1 EXCEPT ![h.idx] = {}], h.n1,
              [j \in 0 .. h.n2 - 1 |-> h.t2[j] \cup moved(j)], h.n2,
              h.used, h.idx + 1)

\* swap (which leaves used alone), then Reset of the old array
EndRehash(h) ==
    IF h.n2 = 0 THEN Table(h.t1, h.n1, h.t2, h.n2, h.used, NoIndex)
                ELSE Table(h.t2, h.n2, Buckets(0), 0, h.used, NoIndex)

IncrementalRehash(h) ==
    IF ~InRehashing(h) THEN h
    ELSE LET m == MoveBucket(h)
         IN  IF m.idx = m.n1 THEN EndRehash(m) ELSE m

\* Put e in (take k out of) the bucket of one table.
Put1(h, e) ==
    LET b == bucket_index(h.n1, GetKey[e])
    IN  Table([h.t1 EXCEPT ![b] = @ \cup {e}], h.n1, h.t2, h.n2, h.used, h.idx)

Put2(h, e) ==
    LET b == bucket_index(h.n2, GetKey[e])
    IN  Table(h.t1, h.n1, [h.t2 EXCEPT ![b] = @ \cup {e}], h.n2, h.used, h.idx)

Cut1(h, k) ==
    LET b == bucket_index(h.n1, k)
    IN  Table([h.t1 EXCEPT ![b] = @ \ WithKey(@, k)], h.n1,
              h.t2, h.n2, h.used, h.idx)

Cut2(h, k) ==
    LET b == bucket_index(h.n2, k)
    IN  Table(h.t1, h.n1, [h.t2 EXCEPT ![b] = @ \ WithKey(@, k)], h.n2,
              h.used, h.idx)

Counted(h, d) == Table(h.t1, h.n1, h.t2, h.n2, h.used + d, h.idx)

\* table1's bucket is already moved: the key lives in table2
Moved(h, k) == InRehashing(h) /\ h.idx > bucket_index(h.n1, k)

\* Mutant of DuplicateOfInsert: only table1 is searched.
DuplicateInFirst(h, k) == WithKey(Bucket1(h, k), k)

\* What an insertion finds with e's key, in the order the code looks.
DuplicateOfInsert(h, k) ==
    IF Moved(h, k) THEN WithKey(Bucket2(h, k), k)
    ELSE IF WithKey(Bucket2(h, k), k) # {} THEN WithKey(Bucket2(h, k), k)
    ELSE WithKey(Bucket1(h, k), k)

\* Mutant of PutInTurn: the frontier is ignored.
PutFirst(h, e) == Put1(h, e)

PutInTurn(h, e) == IF Moved(h, GetKey[e]) THEN Put2(h, e) ELSE Put1(h, e)

\* Mutant of FoundBy: table2 is not searched.
FoundInFirst(h, k) == WithKey(Bucket1(h, k), k)

\* FindNode and Extract: table1 first, then table2 if it is in use
FoundBy(h, k) ==
    IF WithKey(Bucket1(h, k), k) # {} THEN WithKey(Bucket1(h, k), k)
                                      ELSE WithKey(Bucket2(h, k), k)

CutFound(h, k) ==
    IF WithKey(Bucket1(h, k), k) # {} THEN Cut1(h, k) ELSE Cut2(h, k)

\* The state after the rehash work every insertion (every other call) starts with
AfterRehash == IncrementalRehash(Rehash(ht))
AfterMove   == IncrementalRehash(ht)

Answer(op, ok, out) == [op |-> op, ok |-> ok, out |-> out]

-----------------------------------------------------------------------------
Init ==
    /\ ht = Table(Buckets(4), 4, Buckets(0), 0, 0, NoIndex)
    /\ ret = Answer("none", FALSE, {})
    /\ lost = 0

\* InsertWithDuplicate, and Insert which hides the duplicate
Insert(e) ==
    LET h   == AfterRehash
        dup == DuplicateOfInsert(h, GetKey[e])
    IN  /\ ht' = IF dup = {} THEN Counted(PutInTurn(h, e), 1) ELSE h
        /\ ret' = IF dup = {} THEN Answer("Insert", TRUE, {e})
                              ELSE Answer("Insert", FALSE, dup)
        /\ UNCHANGED lost

\* Before the frontier passes, Push puts the node in table1 and only then looks
\* in table2: a duplicate there would leave the node linked and uncounted.
Push(e) ==
    LET h    == AfterRehash
        k    == GetKey[e]
        own  == WithKey(IF Moved(h, k) THEN Bucket2(h, k) ELSE Bucket1(h, k), k)
        late == ~Moved(h, k) /\ WithKey(Bucket2(h, k), k) # {}
    IN  /\ ht' = IF own # {} THEN h
                 ELSE Counted(PutInTurn(h, e), IF late THEN 0 ELSE 1)
        /\ ret' = Answer("Push", own = {} /\ ~late, {})
        /\ UNCHANGED lost

\* Find and FindNode
Find(k) ==
    LET h == AfterMove
    IN  /\ ht' = h
        /\ ret' = Answer("Find", FoundBy(h, k) # {}, FoundBy(h, k))
        /\ UNCHANGED lost

\* Extract, and Erase which also drops the node
Extract(k) ==
    LET h == AfterMove
    IN  /\ ht' = IF FoundBy(h, k) = {} THEN h ELSE Counted(CutFound(h, k), -1)
        /\ ret' = Answer("Extract", FoundBy(h, k) # {}, FoundBy(h, k))
        /\ UNCHANGED lost

\* Erase the node of the bucket that the FindNode just before returned: used
\* still counts it.
EraseNode ==
    /\ ret.op = "Find" /\ ret.ok
    /\ lost < MaxLost
    /\ \E e \in ret.out : ht' = CutFound(ht, GetKey[e])
    /\ ret' = Answer("EraseNode", TRUE, {})
    /\ lost' = lost + 1

\* Mutant of Cleared: table2 is not released.
ClearedFirstOnly(h) == Table(Buckets(4), 4, h.t2, h.n2, 0, NoIndex)

\* Mutant of Cleared: used is not reset.
ClearedCounting(h) == Table(Buckets(4), 4, Buckets(0), 0, h.used, NoIndex)

\* Shrink(4) of table1, then its four buckets; table2 goes with the rehash.
Cleared(h) ==
    Table(Buckets(4), 4,
          IF InRehashing(h) THEN Buckets(0) ELSE h.t2,
          IF InRehashing(h) THEN 0 ELSE h.n2, 0, NoIndex)

Clear ==
    /\ ht' = Cleared(ht)
    /\ ret' = Answer("Clear", TRUE, {})
    /\ lost' = 0

\* The callback gets the buckets from 4 on, the first four, then table2's.
AppliedTo(h) ==
    (UNION {h.t1[j] : j \in 4 .. h.n1 - 1})
      \cup (UNION {h.t1[j] : j \in 0 .. 3})
      \cup (IF InRehashing(h) THEN UNION {h.t2[j] : j \in 0 .. h.n2 - 1} ELSE {})

ClearApply ==
    /\ ht' = Cleared(ht)
    /\ ret' = Answer("ClearApply", TRUE, AppliedTo(ht))
    /\ lost' = 0

Next == \/ \E e \in Elem : Insert(e) \/ Push(e)
        \/ \E k \in Key : Find(k) \/ Extract(k)
        \/ EraseNode \/ Clear \/ ClearApply

Spec == Init /\ [][Next]_vars

\* The owner keeps using the table: some call always changes it, so this is
\* WF_vars(Next), in a form that TLC checks without evaluating ENABLED Next.
FairSpec == Spec /\ []<><<TRUE>>_vars

-----------------------------------------------------------------------------
(***************************************************************************)
(* TreeHashTableConstIterator: the bucket it is in, slot_ as the set of    *)
(* its one value, and the values of the bucket that _GetNextNode has still *)
(* to give (AvlTree has their order).  The iterator at the end has no slot.*)
(***************************************************************************)
AtEnd == [tab |-> 2, bkt |-> 0, slot |-> {}, left |-> {}]

\* The first value of bucket B, and what comes after it
Enter(tab, bkt, B) ==
    LET first == CHOOSE e \in B : TRUE
    IN  [tab |-> tab, bkt |-> bkt, slot |-> {first}, left |-> B \ {first}]

\* The first bucket in use of one array, from the given one on
InUse(T, bkt) == {j \in DOMAIN T : j >= bkt /\ T[j] # {}}
Lowest(S) == CHOOSE j \in S : \A i \in S : j <= i

\* Mutant of Scan: the new array is entered where the old one was left.
ScanKeepsBucket(h, tab, bkt) ==
    LET full1 == IF tab = 1 THEN InUse(h.t1, bkt) ELSE {}
        full2 == InUse(h.t2, bkt)
    IN  IF full1 # {} THEN Enter(1, Lowest(full1), h.t1[Lowest(full1)])
        ELSE IF full2 # {} THEN Enter(2, Lowest(full2), h.t2[Lowest(full2)])
        ELSE AtEnd

\* From a bucket on, then from the start of table2 when it began in table1
Scan(h, tab, bkt) ==
    LET full1 == IF tab = 1 THEN InUse(h.t1, bkt) ELSE {}
        full2 == InUse(h.t2, IF tab = 1 THEN 0 ELSE bkt)
    IN  IF full1 # {} THEN Enter(1, Lowest(full1), h.t1[Lowest(full1)])
        ELSE IF full2 # {} THEN Enter(2, Lowest(full2), h.t2[Lowest(full2)])
        ELSE AtEnd

Begin(h) == Scan(h, 1, 0)

Increment(h, it) ==
    IF it.left # {} THEN Enter(it.tab, it.bkt, it.left)
                    ELSE Scan(h, it.tab, it.bkt + 1)

\* What the n-th value of a loop from begin() on is, until it has to be at the end
Walk(h) ==
    LET walk[n \in 0 .. Cardinality(Stored(h))] ==
            IF n = 0 THEN Begin(h)
            ELSE CHOOSE r \in {IF it = AtEnd THEN AtEnd ELSE Increment(h, it) :
                                   it \in {walk[n - 1]}} : TRUE
    IN  walk

-----------------------------------------------------------------------------
(***************************************************************************)
(* Properties.  Each is a predicate of a table h, so that it can be asked  *)
(* of the intermediate tables too, and of the state by its unprimed name.  *)
(***************************************************************************)

\* The arrays have their sizes, and a rehash always goes to twice the size.
Shape(h) ==
    /\ h.n1 \in Nat /\ h.n1 >= 4 /\ h.n2 \in Nat /\ h.used \in Nat
    /\ h.t1 \in [0 .. h.n1 - 1 -> SUBSET Elem]
    /\ h.t2 \in [0 .. h.n2 - 1 -> SUBSET Elem]
    /\ \/ h.idx = NoIndex /\ h.n2 = 0
       \/ h.idx \in 0 .. h.n1 - 1 /\ h.n2 = 2 * h.n1

Answers == [op : {"none", "Insert", "Push", "Find", "Extract", "EraseNode",
                  "Clear", "ClearApply"},
            ok : BOOLEAN, out : SUBSET Elem]

\* Type invariant: arrays, rehash index and answers stay in their ranges, and
\* used (a size_t) never goes below zero.
TypeOK == Shape(ht) /\ ret \in Answers /\ lost \in Nat

\* Every element is in the bucket its hash selects, in either table.
Placed(h) ==
    /\ \A j \in 0 .. h.n1 - 1 : \A e \in h.t1[j] :
            bucket_index(h.n1, GetKey[e]) = j
    /\ \A j \in 0 .. h.n2 - 1 : \A e \in h.t2[j] :
            bucket_index(h.n2, GetKey[e]) = j

\* The rehash frontier divides the keys: table1's buckets below it are empty,
\* table2 holds only keys whose table1 bucket is below it.
Frontier(h) ==
    InRehashing(h) =>
        /\ \A j \in 0 .. h.idx - 1 : h.t1[j] = {}
        /\ \A j \in 0 .. h.n2 - 1 : \A e \in h.t2[j] :
                bucket_index(h.n1, GetKey[e]) < h.idx

\* A key has one home.  This is what makes Push's check of table2 after the
\* node is already linked harmless, and a lookup of two buckets complete.
OneHome == Placed(ht) /\ Frontier(ht)

\* A bucket holds a key once (with OneHome: the whole table does).
Distinct(B) == \A e, f \in B : GetKey[e] = GetKey[f] => e = f

Unique(h) ==
    /\ \A j \in 0 .. h.n1 - 1 : Distinct(h.t1[j])
    /\ \A j \in 0 .. h.n2 - 1 : Distinct(h.t2[j])

\* No key is stored twice, in one bucket or across the two tables, whatever
\* mix of Insert, Push and rehash steps brought its elements there.
KeysUnique ==
    /\ \A e, f \in Stored(ht) : GetKey[e] = GetKey[f] => e = f
    /\ \A i \in 0 .. ht.n1 - 1, j \in 0 .. ht.n2 - 1 : ht.t1[i] \cap ht.t2[j] = {}

\* The rehash outruns the insertions: each insertion during it moves a bucket
\* first, so the new table is never over its own size when it takes over.
Load(h) ==
    IF InRehashing(h) THEN h.used <= h.n1 + h.idx ELSE h.used <= h.n1

LoadBound == Load(ht)

\* size() counts every stored element once, and also, for good until Clear,
\* each entry that was erased by EraseNode, which does not touch used.
SizeCounts == ht.used = Cardinality(Stored(ht)) + lost

\* Whatever the rehash is doing, the caller sees a set with unique keys: no
\* element is lost, duplicated, hidden or brought back by a rehash step.
KS == INSTANCE KeyedSet WITH elems <- Stored(ht)
ImplementsKeyedSet == KS!Spec

\* A loop from begin() to end() meets every element once, in the middle of a
\* rehash too, when it has to go from the old array to the new one.
IterationExact ==
    LET walk == Walk(ht)
        last == Cardinality(Stored(ht))
    IN  /\ walk[last] = AtEnd
        /\ UNION {walk[n].slot : n \in 0 .. last - 1} = Stored(ht)

\* A rehash that began ends, as long as the table is used (any call, lookups
\* included, moves a bucket or clears the table).
RehashCompletes == InRehashing(ht) ~> ~InRehashing(ht)
=============================================================================
