-------------------------- MODULE OrderedCollections --------------------------
(* Map and Set (Native/Map, Native/Set) over their ordered tables             *)
(* (Runtime/OrderedDictionary.cs, Runtime/OrderedSet.cs), and the iterators   *)
(* and forEach calls that walk over them while scripts change them.           *)
(*                                                                            *)
(* A table keeps a hash table and the list of its keys in the order they were *)
(* added. Everything that iterates remembers a position in that list: adding  *)
(* appends, but deleting an entry moves the later ones down, and nobody tells *)
(* the iterators. The values of a map do not matter here and are left out.    *)
EXTENDS Naturals, Sequences, FiniteSets

CONSTANTS
  Keys,
  NaN,          \* the number that is not equal to itself; -0 is stored as 0
  Iterators,
  MaxOps        \* bounds the changes scripts make

ASSUME BoundsAssumption == MaxOps \in Nat

VARIABLES
  collection,   \* "map" or "set"
  list,         \* OrderedDictionary.keys or OrderedSet._list
  table,        \* the keys of OrderedDictionary.dictionary, or OrderedSet._set
  iterators,    \* the iterators and forEach calls that have begun
  running,      \* the forEach calls in progress, the innermost first
  added,        \* history: how many entries were ever added
  ops
tables == <<list, table, added>>
vars == <<collection, list, table, iterators, running, added, ops>>

\* entry: the addition it comes from, which tells a key that was deleted and
\* added again from the one that was there before.
Entries == [key : Keys, entry : Nat]

MapKinds == {"mapEntries", "mapKeys", "mapValues", "mapForEach"}
SetKinds == {"setEntries", "setValues", "setForEach"}
Kinds == MapKinds \cup SetKinds

\* position: the entries passed so far; last: the entry that was answered last;
\* stale: the list has changed under an enumerator of .NET.
Fresh == [kind |-> "none", position |-> 0, last |-> 0, stale |-> FALSE, state |-> "fresh"]

Size == IF collection = "map" THEN Cardinality(table) ELSE Len(list)

-----------------------------------------------------------------------------
(* Changing a collection *)

SwapWithLast(s, i) == [j \in 1 .. Len(s) - 1 |-> s[IF j = i THEN Len(s) ELSE j]]
Without(s, i) == [j \in 1 .. Len(s) - 1 |-> s[IF j < i THEN j ELSE j + 1]]

\* The map's list is searched with SameValueZero, the set's with the equality
\* of its elements.
StrictlyEqual(x, y) == x = y /\ x # NaN
Found(x, y) == IF collection = "map" THEN x = y ELSE StrictlyEqual(x, y)

First(S) == CHOOSE i \in S : \A j \in S : i <= j
RemoveFromList(s, k) ==
  LET places == {i \in DOMAIN s : Found(s[i].key, k)}
  IN IF places = {} THEN s ELSE Without(s, First(places))

\* An enumerator that has begun fails once its list has changed.
Modified == [it \in Iterators |-> [iterators[it] EXCEPT !.stale = @ \/ iterators[it].state # "fresh"]]

Change(newList, newTable) ==
  /\ ops < MaxOps /\ ops' = ops + 1
  /\ list' = newList /\ table' = newTable
  /\ UNCHANGED <<collection, running>>

\* MapSet and OrderedSet.Add: an existing key keeps its place.
Add(k) ==
  /\ k \notin table
  /\ Change(Append(list, [key |-> k, entry |-> added + 1]), table \cup {k})
  /\ added' = added + 1
  /\ iterators' = Modified

\* OrderedDictionary.Remove looks into the list only for a key it has.
Delete(k) ==
  /\ LET shorter == IF collection = "map" /\ k \notin table THEN list ELSE RemoveFromList(list, k)
     IN Change(shorter, table \ {k}) /\ iterators' = IF shorter = list THEN iterators ELSE Modified
  /\ UNCHANGED added

Clear ==
  /\ Change(<<>>, {})
  /\ iterators' = Modified
  /\ UNCHANGED added

-----------------------------------------------------------------------------
(* Iterating *)

Opened(kind) == [Fresh EXCEPT !.kind = kind, !.state = IF kind = "mapValues" THEN "fresh" ELSE "open"]

\* mapValues is a generator, which takes its enumerator when it is first asked.
Begin(it, kind) ==
  /\ iterators[it].kind = "none"
  /\ kind \in IF collection = "map" THEN MapKinds ELSE SetKinds
  /\ iterators' = [iterators EXCEPT ![it] = Opened(kind)]
  /\ running' = IF kind \in {"mapForEach", "setForEach"} THEN <<it>> \o running ELSE running
  /\ UNCHANGED <<collection, tables, ops>>

Is(it, kinds) == iterators[it].kind \in kinds
Quiet == UNCHANGED <<collection, tables, ops>>
Yields(it) ==
  LET next == iterators[it].position + 1
  IN iterators' = [iterators EXCEPT ![it].position = next, ![it].last = list[next].entry, ![it].state = "open"]
Closes(it) == iterators' = [iterators EXCEPT ![it].state = "closed"]

\* MapIterator and SetEntryIterator never close: one that has come to the end
\* goes on when there is more.
StepEntries(it) ==
  /\ Is(it, {"mapEntries", "setEntries"})
  /\ iterators[it].position < Size /\ Yields(it)
  /\ Quiet /\ UNCHANGED running

StepSetValues(it) ==
  /\ Is(it, {"setValues"}) /\ iterators[it].state = "open"
  /\ IF iterators[it].position < Len(list) THEN Yields(it) ELSE Closes(it)
  /\ Quiet /\ UNCHANGED running

\* A list's enumerator: MoveNext throws on a changed list, and leaves the
\* enumerator as it is.
StepMapKeys(it) ==
  /\ Is(it, {"mapKeys"}) /\ ~iterators[it].stale
  /\ iterators[it].position < Len(list) /\ Yields(it)
  /\ Quiet /\ UNCHANGED running

\* The generator around such an enumerator ends with its first failure.
StepMapValues(it) ==
  /\ Is(it, {"mapValues"}) /\ iterators[it].state # "closed"
  /\ IF ~iterators[it].stale /\ iterators[it].position < Len(list) THEN Yields(it) ELSE Closes(it)
  /\ Quiet /\ UNCHANGED running

StepForEachUnpopped ==
  /\ running # <<>>
  /\ LET it == Head(running) IN IF iterators[it].position < Size THEN Yields(it) ELSE Closes(it)
  /\ Quiet /\ UNCHANGED running

\* forEach goes on when the callback of the innermost call has returned.
StepForEach ==
  /\ running # <<>>
  /\ LET it == Head(running)
     IN IF iterators[it].position < Size THEN Yields(it) /\ UNCHANGED running
        ELSE Closes(it) /\ running' = Tail(running)
  /\ Quiet

\* An exception of its callback ends a forEach.
CallbackThrows ==
  /\ running # <<>>
  /\ running' = Tail(running)
  /\ Quiet /\ UNCHANGED iterators

Init ==
  /\ collection \in {"map", "set"}
  /\ list = <<>> /\ table = {}
  /\ iterators = [it \in Iterators |-> Fresh]
  /\ running = <<>>
  /\ added = 0 /\ ops = 0

Script == Clear \/ \E k \in Keys : Add(k) \/ Delete(k)
Iterate ==
  \/ StepForEach \/ CallbackThrows
  \/ \E it \in Iterators :
       StepEntries(it) \/ StepSetValues(it) \/ StepMapKeys(it) \/ StepMapValues(it)
         \/ \E kind \in Kinds : Begin(it, kind)

Next == Script \/ Iterate

Spec == Init /\ [][Next]_vars
=============================================================================
