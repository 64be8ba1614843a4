------------------------- MODULE CollectionProperties -------------------------
(* What should hold of maps, sets and their iterators.                        *)
EXTENDS OrderedCollections

IteratorStates ==
  [kind : Kinds \cup {"none"}, position : Nat, last : Nat, stale : BOOLEAN, state : {"fresh", "open", "closed"}]

\* Every variable has its type, and a forEach in progress is open.
TypeOK ==
  /\ collection \in {"map", "set"}
  /\ list \in Seq(Entries) /\ table \subseteq Keys
  /\ iterators \in [Iterators -> IteratorStates]
  /\ running \in Seq(Iterators)
  /\ \A i \in DOMAIN running : iterators[running[i]].state = "open"
  /\ added \in Nat /\ ops \in 0 .. MaxOps

\* What has() answers and what iteration meets are the same keys, each once,
\* in the order of their addition: the hash table and the list are changed
\* together (OrderedDictionary.cs:196-211, OrderedSet.cs:26-48). Only NaN is
\* known to come apart, in a set: its list does not find it again.
Known(k) == collection = "set" /\ k = NaN
InStep ==
  /\ \A i \in DOMAIN list : list[i].key \in table \/ Known(list[i].key)
  /\ \A k \in table : \E i \in DOMAIN list : list[i].key = k
  /\ \A i, j \in DOMAIN list : i < j =>
       /\ list[i].entry < list[j].entry
       /\ list[i].key # list[j].key \/ Known(list[i].key)

\* The iterators keep what LiveIteration promises: they miss entries only for
\* earlier ones that were deleted, and repeat none (MapIteratorPrototype.cs:67-96,
\* SetIteratorPrototype.cs:47-105, the loops of MapInstance.cs:59-73 and
\* SetInstance.cs:56-71).
ListEntries == {list[i].entry : i \in DOMAIN list}
Behind(it) == {e \in ListEntries : e <= iterators[it].last}
Answered == [it \in Iterators |-> iterators[it].last]
Spare == [it \in Iterators |-> iterators[it].position - Cardinality(Behind(it))]
Stale == {it \in Iterators : iterators[it].stale}
Over == {it \in Iterators : iterators[it].state = "closed"}
Live == INSTANCE LiveIteration WITH
  entries <- ListEntries, passed <- Answered, spare <- Spare, changed <- Stale, over <- Over
ImplementsLiveIteration == Live!Spec
=============================================================================
