---------------------------- MODULE MCMmkvClient ----------------------------
(***************************************************************************)
(* TLC instances of MmkvClient.  The calls are interchangeable, and so are *)
(* the callers: the safety runs use both symmetries.                       *)
(***************************************************************************)
EXTENDS MmkvClient, TLC

Symmetry == Permutations(Caller) \cup Permutations(Call)
=============================================================================
