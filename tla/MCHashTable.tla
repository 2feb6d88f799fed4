----------------------------- MODULE MCHashTable ----------------------------
(***************************************************************************)
(* TLC instance of HashTable: the hash of key k is Hashes[k]; the first    *)
(* key has two values, so duplicates are met on both sides of a rehash.    *)
(***************************************************************************)
EXTENDS HashTable, Bitwise

MCHashes == <<0, 4, 8, 3, 7>>
MCKey    == DOMAIN MCHashes
MCElem   == {<<k, 1>> : k \in MCKey} \cup {<<1, 2>>}

\* Other sets: one element, three in one list, and five, in a rehash
MCOthers == {<< <<4, 1>> >>, << <<1, 1>>, <<2, 1>>, <<3, 1>> >>,
             << <<5, 1>>, <<2, 1>>, <<1, 2>>, <<4, 1>>, <<3, 1>> >>}

MCGetKey == [e \in MCElem |-> e[1]]

\* The code masks the hash with size - 1: that is the bucket the model computes
\* with %, in every size the tables take here.
ASSUME MaskIsModulo ==
    \A k \in Key, size \in {4, 8, 16} : HashOf[k] & (size - 1) = bucket_index(size, k)
=============================================================================
