---------------------------- MODULE MCCombinators ----------------------------
(* TLC instances of PromiseCombinators: how large the runs are. *)
EXTENDS CombinatorProperties
=============================================================================
