--------------------------- MODULE EvaluationOrder ---------------------------
(***************************************************************************)
(* What importing modules promises, whatever order the imports come in and *)
(* however they fail: a body starts at most once, and only when the body   *)
(* of every module it imports has ended, unless that module imports it in  *)
(* turn and the two wait for each other.                                   *)
(***************************************************************************)
EXTENDS Sequences, SequencesExt

CONSTANT Modules
VARIABLES requests, body

\* b can be reached from a along imports: every set that holds what a imports
\* and is closed under imports holds b.
Reaches(a, b) == \A S \in SUBSET DOMAIN requests :
  (/\ ToSet(requests[a]) \subseteq S
   /\ \A m \in S : ToSet(requests[m]) \subseteq S) => b \in S

Ended == {m \in Modules : body[m] \in {"returned", "threw"}}

Init == body = [m \in Modules |-> "not started"]

Start(m) ==
  /\ body[m] = "not started"
  /\ \A r \in ToSet(requests[m]) : r \in Ended \/ Reaches(r, m)
  /\ body' = [body EXCEPT ![m] = "running"]

End(m) ==
  /\ body[m] = "running"
  /\ \E how \in {"returned", "threw"} : body' = [body EXCEPT ![m] = how]

Next == UNCHANGED requests /\ \E m \in DOMAIN requests : Start(m) \/ End(m)

Spec == Init /\ [][Next]_<<requests, body>>
=============================================================================
