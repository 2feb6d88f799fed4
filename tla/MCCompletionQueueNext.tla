------------------------ MODULE MCCompletionQueueNext -----------------------
(***************************************************************************)
(* TLC instance of CompletionQueueNext: completions and threads are model  *)
(* values, without symmetry, since the run checks a liveness property.     *)
(***************************************************************************)
EXTENDS CompletionQueueNext
=============================================================================
