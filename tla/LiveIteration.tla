---------------------------- MODULE LiveIteration ----------------------------
(* What iterating over a collection promises while it is being changed. An    *)
(* iterator passes over entries in the order they were added, none twice, and *)
(* misses at most as many as entries it had passed were deleted. Once it is   *)
(* over it stays over, and it is over only when there is nothing left that it *)
(* may not miss, or when the collection has changed under it.                 *)
EXTENDS Naturals, FiniteSets

CONSTANT Iterators

VARIABLES
  entries,   \* the entries of the collection, numbered in the order of addition
  passed,    \* the last entry each iterator has answered
  spare,     \* how many entries it may miss
  changed,   \* the iterators whose collection has changed since they began
  over       \* the iterators that have come to their end
vars == <<entries, passed, spare, changed, over>>

Later(it) == {e \in entries : passed[it] < e}
Missed(it, next) == Cardinality({e \in Later(it) : e < next})

Addition ==
  /\ \E new \in entries' :
       /\ \A e \in entries : e < new
       /\ \A it \in Iterators : passed[it] < new
       /\ entries' = entries \cup {new}
  /\ UNCHANGED spare

Removal ==
  LET gone == entries \ entries'
  IN /\ entries' \subseteq entries
     /\ gone # {} \/ entries = {}
     /\ spare' = [it \in Iterators |-> spare[it] + Cardinality({e \in gone : e <= passed[it]})]

Changes ==
  /\ Addition \/ Removal
  /\ changed \subseteq changed'
  /\ UNCHANGED <<passed, over>>

Passes(it) ==
  /\ it \notin over
  /\ \E next \in Later(it) :
       /\ Missed(it, next) <= spare[it]
       /\ passed' = [passed EXCEPT ![it] = next]
       /\ spare' = [spare EXCEPT ![it] = @ - Missed(it, next)]
  /\ UNCHANGED <<entries, changed, over>>

Ends(it) ==
  /\ Cardinality(Later(it)) <= spare[it] \/ it \in changed
  /\ over' = over \cup {it}
  /\ UNCHANGED <<entries, passed, spare, changed>>

Init == entries = {} /\ changed = {} /\ over = {}
        /\ passed = [it \in Iterators |-> 0] /\ spare = [it \in Iterators |-> 0]
Next == Changes \/ \E it \in Iterators : Passes(it) \/ Ends(it)
Spec == Init /\ [][Next]_vars
=============================================================================
