----------------------------- MODULE MCAvlTree ------------------------------
(* Six keys, one of them with two values. *)
EXTENDS AvlTree

CONSTANTS n1, n2, n2b, n3, n4, n5, n6

MCElem   == {n1, n2, n2b, n3, n4, n5, n6}
MCKey    == 1 .. 6
MCGetKey == [e \in MCElem |->
                CASE e = n1 -> 1 [] e \in {n2, n2b} -> 2
                  [] e = n3 -> 3 [] e = n4 -> 4 [] e = n5 -> 5 [] e = n6 -> 6]
=============================================================================
