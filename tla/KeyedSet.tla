------------------------------ MODULE KeyedSet ------------------------------
(***************************************************************************)
(* What a unique-key container of the library promises its caller: a set   *)
(* of elements, at most one per key, and for each call the answer the      *)
(* caller gets.  TreeHashTable and HashTable implement it.                 *)
(***************************************************************************)
CONSTANTS Elem,     \* the values the container can hold
          Key,      \* the keys
          GetKey    \* the key of every value

VARIABLES elems,    \* what the container holds
          ret       \* the last call and its answer

absVars == <<elems, ret>>

Answer(op, ok, out) == [op |-> op, ok |-> ok, out |-> out]

\* The elements of S whose key is k.
WithKey(S, k) == {e \in S : GetKey[e] = k}

Init == elems = {} /\ ret = Answer("none", FALSE, {})

\* A refused insertion reports the element that has the key.
Insert(e) ==
    LET dup == WithKey(elems, GetKey[e])
    IN  IF dup = {} THEN /\ elems' = elems \cup {e}
                         /\ ret' = Answer("Insert", TRUE, {e})
                    ELSE /\ elems' = elems
                         /\ ret' = Answer("Insert", FALSE, dup)

\* A refused node stays with the caller.
Push(e) ==
    LET dup == WithKey(elems, GetKey[e])
    IN  /\ elems' = IF dup = {} THEN elems \cup {e} ELSE elems
        /\ ret' = Answer("Push", dup = {}, {})

Find(k) ==
    /\ elems' = elems
    /\ ret' = Answer("Find", WithKey(elems, k) # {}, WithKey(elems, k))

Extract(k) ==
    /\ elems' = elems \ WithKey(elems, k)
    /\ ret' = Answer("Extract", WithKey(elems, k) # {}, WithKey(elems, k))

\* The element a Find just returned is erased.
EraseNode ==
    /\ ret.op = "Find" /\ ret.ok
    /\ elems' = elems \ ret.out
    /\ ret' = Answer("EraseNode", TRUE, {})

\* Any one element is erased, if there is one.
EraseRandom ==
    /\ IF elems = {} THEN elems' = {}
                     ELSE \E e \in elems : elems' = elems \ {e}
    /\ ret' = Answer("EraseRandom", elems # {}, {})

Clear == elems' = {} /\ ret' = Answer("Clear", TRUE, {})

\* Every element goes through the callback before it is dropped.
ClearApply == elems' = {} /\ ret' = Answer("ClearApply", TRUE, elems)

Next == \/ \E e \in Elem : Insert(e) \/ Push(e)
        \/ \E k \in Key : Find(k) \/ Extract(k)
        \/ EraseNode \/ EraseRandom \/ Clear \/ ClearApply

Spec == Init /\ [][Next]_absVars
=============================================================================
