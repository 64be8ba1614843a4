----------------------------- MODULE MCArguments -----------------------------
(* TLC instances of ArgumentsObjects: how large the runs are. *)
EXTENDS ArgumentsProperties, TLC

Symmetric == Permutations(Objects) \cup Permutations(Arrays)
=============================================================================
