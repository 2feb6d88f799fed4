--------------------------- MODULE MCTreeHashTable --------------------------
(***************************************************************************)
(* TLC instance of TreeHashTable.  The hashes collide in a table of 4 and  *)
(* spread over tables of 8 and 16; two values share the first key, so      *)
(* duplicates are met on both sides of the rehash frontier.                *)
(***************************************************************************)
EXTENDS TreeHashTable, Bitwise

CONSTANTS Hashes,   \* the hash of key k is Hashes[k]; its values too
          Twins     \* keys that have a second value

MCKey    == DOMAIN Hashes
MCElem   == {<<k, 1>> : k \in MCKey} \cup {<<k, 2>> : k \in Twins}
MCGetKey == [e \in MCElem |-> e[1]]

\* Six keys and up to three entries that EraseNode left counted: used reaches 4
\* and 8, and drives two rehashes (4 -> 8 -> 16).
Hashes6 == <<0, 4, 8, 3, 7, 12>>

\* bucket_index masks with size_mask = size - 1: for every hash this selects
\* the bucket the model computes with %, in every size the tables take here.
ASSUME MaskIsModulo ==
    \A k \in Key, size \in {4, 8, 16} : Hash[k] & (size - 1) = bucket_index(size, k)
=============================================================================
