---------------------------- MODULE MCPromiseJobs ----------------------------
(* TLC instances of PromiseJobs: how large the runs are. *)
EXTENDS PromiseProperties
=============================================================================
