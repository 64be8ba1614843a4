---------------------------- MODULE MCCompletions ----------------------------
(* TLC instances of StatementCompletions: how large the runs are. *)
EXTENDS CompletionProperties
=============================================================================
