--------------------------- MODULE CollectionProofs ---------------------------
(* Proofs about OrderedCollections, for all keys, iterators and bounds: the   *)
(* hash table and the list of a collection stay in step, no iterator asks the *)
(* list for a position that it does not have, and iterators keep what         *)
(* LiveIteration promises.                                                    *)
EXTENDS CollectionProperties, SequenceTheorems, FiniteSetTheorems, TLAPS

-----------------------------------------------------------------------------
(* The list without one of its places. *)

\* Where a place of the shorter list comes from.
Skip(p, j) == IF j < p THEN j ELSE j + 1

(* Skipping a place keeps the order, and reaches every other place. *)
LEMMA SkipProperties ==
  ASSUME NEW n \in Nat, NEW p \in 1 .. n
  PROVE  /\ \A j \in 1 .. n - 1 : Skip(p, j) \in 1 .. n /\ Skip(p, j) # p
         /\ \A i, j \in 1 .. n - 1 : i < j => Skip(p, i) < Skip(p, j)
         /\ \A i \in 1 .. n : i # p => \E j \in 1 .. n - 1 : Skip(p, j) = i
<1>1. \A i \in 1 .. n : i # p => \E j \in 1 .. n - 1 : Skip(p, j) = i
  <2>. SUFFICES ASSUME NEW i \in 1 .. n, i # p
                PROVE  \E j \in 1 .. n - 1 : Skip(p, j) = i
    OBVIOUS
  <2>. DEFINE j == IF i < p THEN i ELSE i - 1
  <2>1. j \in 1 .. n - 1 /\ Skip(p, j) = i
    BY DEF Skip
  <2>. QED
    BY <2>1
<1>. QED
  BY <1>1 DEF Skip

(* Without(s, p) is s with the place p skipped. *)
LEMMA WithoutProperties ==
  ASSUME NEW S, NEW s \in Seq(S), NEW p \in 1 .. Len(s)
  PROVE  /\ Without(s, p) \in Seq(S)
         /\ Len(Without(s, p)) = Len(s) - 1
         /\ \A j \in 1 .. Len(s) - 1 : Without(s, p)[j] = s[Skip(p, j)]
<1>1. Len(s) \in Nat /\ \A i \in 1 .. Len(s) : s[i] \in S
  BY LenProperties, ElementOfSeq
<1>2. \A j \in 1 .. Len(s) - 1 : Skip(p, j) \in 1 .. Len(s)
  BY <1>1, SkipProperties
<1>3. Without(s, p) = [j \in 1 .. Len(s) - 1 |-> s[Skip(p, j)]]
  BY DEF Without, Skip
<1>4. Len(s) - 1 \in Nat /\ \A j \in 1 .. Len(s) - 1 : s[Skip(p, j)] \in S
  BY <1>1, <1>2
<1>5. Without(s, p) \in [1 .. Len(s) - 1 -> S]
  BY <1>3, <1>4
<1>6. Without(s, p) \in Seq(S)
  BY <1>4, <1>5, SeqDef
<1>7. Len(Without(s, p)) = Len(s) - 1
  BY <1>4, <1>5, <1>6, LenProperties
<1>. QED
  BY <1>3, <1>6, <1>7

-----------------------------------------------------------------------------
(* The tables.  InStep is not inductive as it stands: that additions are      *)
(* numbered upwards needs every number to be one that was given out, and that *)
(* an iterator of a map may go by Count needs both tables to be of one size.  *)

Numbered == \A i \in DOMAIN list : 0 < list[i].entry /\ list[i].entry <= added
SizesAgree == collection = "map" => Cardinality(table) = Len(list)

TablesInv ==
  /\ collection \in {"map", "set"}
  /\ list \in Seq(Entries) /\ table \subseteq Keys /\ IsFiniteSet(table)
  /\ added \in Nat
  /\ Numbered /\ SizesAgree /\ InStep

(* What the invariant says of each place of the list. *)
LEMMA ListFacts ==
  ASSUME TablesInv
  PROVE  /\ Len(list) \in Nat /\ DOMAIN list = 1 .. Len(list)
         /\ \A i \in 1 .. Len(list) : list[i] \in Entries
BY LenProperties, ElementOfSeq DEF TablesInv

(* A key that is not in the table yet goes to the end of the list. *)
LEMMA AddKeepsTables ==
  ASSUME TablesInv, NEW k \in Keys, Add(k)
  PROVE  TablesInv'
<1>. DEFINE e == [key |-> k, entry |-> added + 1]
<1>1. /\ k \notin table /\ list' = Append(list, e) /\ table' = table \cup {k}
      /\ added' = added + 1 /\ collection' = collection
  BY DEF Add, Change
<1>2. e \in Entries
  BY DEF Entries, TablesInv
<1>3. /\ list' \in Seq(Entries) /\ Len(list') = Len(list) + 1
      /\ \A i \in 1 .. Len(list) : list'[i] = list[i]
      /\ list'[Len(list) + 1] = e
  BY <1>1, <1>2, AppendProperties DEF TablesInv
<1>4. DOMAIN list' = 1 .. Len(list) + 1
  BY <1>3, LenProperties
<1>5. IsFiniteSet(table') /\ Cardinality(table') = Cardinality(table) + 1
  BY <1>1, FS_AddElement DEF TablesInv
<1>6. Numbered'
  <2>. SUFFICES ASSUME NEW i \in 1 .. Len(list) + 1 PROVE 0 < list'[i].entry /\ list'[i].entry <= added + 1
    BY <1>1, <1>4 DEF Numbered
  <2>1. CASE i = Len(list) + 1
    BY <2>1, <1>3 DEF TablesInv
  <2>2. CASE i # Len(list) + 1
    <3>1. i \in 1 .. Len(list) /\ 0 < list[i].entry /\ list[i].entry <= added /\ list[i].entry \in Nat
      BY <2>2, ListFacts DEF TablesInv, Numbered, Entries
    <3>. QED
      BY <3>1, <1>3 DEF TablesInv
  <2>. QED
    BY <2>1, <2>2
<1>7. SizesAgree'
  BY <1>1, <1>3, <1>5 DEF TablesInv, SizesAgree
<1>8. InStep'
  <2>1. \A i \in DOMAIN list' : list'[i].key \in table' \/ Known(list[i].key)'
    BY <1>1, <1>3, <1>4, ListFacts DEF TablesInv, InStep, Known
  <2>2. \A x \in table' : \E i \in DOMAIN list' : list'[i].key = x
    <3>. SUFFICES ASSUME NEW x \in table' PROVE \E i \in 1 .. Len(list) + 1 : list'[i].key = x
      BY <1>4
    <3>1. CASE x = k
      BY <3>1, <1>3, ListFacts
    <3>2. CASE x # k
      <4>1. PICK i \in 1 .. Len(list) : list[i].key = x
        BY <3>2, <1>1, ListFacts DEF TablesInv, InStep
      <4>. QED
        BY <4>1, <1>3, ListFacts
    <3>. QED
      BY <3>1, <3>2
  <2>3. \A i, j \in DOMAIN list' : i < j =>
          /\ list'[i].entry < list'[j].entry
          /\ list'[i].key # list'[j].key \/ Known(list[i].key)'
    <3>. SUFFICES ASSUME NEW i \in 1 .. Len(list) + 1, NEW j \in 1 .. Len(list) + 1, i < j
                  PROVE  /\ list'[i].entry < list'[j].entry
                         /\ list'[i].key # list'[j].key \/ Known(list[i].key)'
      BY <1>4
    <3>1. i \in 1 .. Len(list) /\ list'[i] = list[i] /\ list[i] \in Entries
      BY <1>3, ListFacts
    <3>2. Known(list[i].key) => Known(list[i].key)'
      BY <3>1, <1>1 DEF Known
    <3>3. CASE j = Len(list) + 1
      <4>1. list[i].entry <= added /\ list[i].entry \in Nat /\ (list[i].key \in table \/ Known(list[i].key))
        BY <3>1, ListFacts DEF TablesInv, Numbered, InStep, Entries
      <4>2. list'[j].entry = added + 1 /\ list'[j].key = k
        BY <3>3, <1>3
      <4>3. list[i].entry < added + 1 /\ (list[i].key # k \/ Known(list[i].key))
        BY <4>1, <1>1 DEF TablesInv
      <4>. QED
        BY <4>2, <4>3, <3>1, <3>2
    <3>4. CASE j # Len(list) + 1
      <4>1. j \in 1 .. Len(list) /\ list'[j] = list[j]
        BY <3>4, <1>3, ListFacts
      <4>2. list[i].entry < list[j].entry /\ (list[i].key # list[j].key \/ Known(list[i].key))
        BY <4>1, <3>1, ListFacts DEF TablesInv, InStep
      <4>. QED
        BY <4>1, <4>2, <3>1, <3>2
    <3>. QED
      BY <3>3, <3>4
  <2>. QED
    BY <2>1, <2>2, <2>3 DEF InStep
<1>. QED
  BY <1>1, <1>3, <1>5, <1>6, <1>7, <1>8 DEF TablesInv

(* Deleting takes a key out of both tables, or leaves a list that does not    *)
(* find the key as it is.                                                     *)
LEMMA DeleteCases ==
  ASSUME TablesInv, NEW k \in Keys, Delete(k)
  PROVE  /\ table' = table \ {k} /\ added' = added /\ collection' = collection
         /\ \/ list' = list /\ (k \in table => Known(k))
            \/ k \in table /\ \E p \in 1 .. Len(list) :
                 list[p].key = k /\ ~Known(k) /\ list' = Without(list, p)
<1>. DEFINE shorter == IF collection = "map" /\ k \notin table THEN list ELSE RemoveFromList(list, k)
<1>. DEFINE places == {i \in DOMAIN list : Found(list[i].key, k)}
<1>1. list' = shorter /\ table' = table \ {k} /\ added' = added /\ collection' = collection
  BY DEF Delete, Change
<1>2. RemoveFromList(list, k) = IF places = {} THEN list ELSE Without(list, First(places))
  BY DEF RemoveFromList
<1>3. CASE k \notin table
  <2>1. ASSUME collection # "map" PROVE places = {}
    <3>1. \A i \in DOMAIN list : list[i].key = k => k = NaN
      BY <1>3 DEF TablesInv, InStep, Known
    <3>. QED
      BY <2>1, <3>1 DEF Found, StrictlyEqual
  <2>. HIDE DEF places
  <2>. QED
    BY <1>1, <1>2, <1>3, <2>1
<1>4. CASE k \in table /\ Known(k)
  <2>1. places = {}
    BY <1>4 DEF Known, Found, StrictlyEqual
  <2>. HIDE DEF places
  <2>. QED
    BY <1>1, <1>2, <1>4, <2>1
<1>5. CASE k \in table /\ ~Known(k)
  <2>1. PICK p \in 1 .. Len(list) : list[p].key = k
    BY <1>5, ListFacts DEF TablesInv, InStep
  <2>2. \A i \in 1 .. Len(list) : list[i].key = k => i = p
    <3>. SUFFICES ASSUME NEW i \in 1 .. Len(list), list[i].key = k PROVE ~(i < p) /\ ~(p < i)
      BY ListFacts
    <3>. QED
      BY <1>5, <2>1, ListFacts DEF TablesInv, InStep
  <2>3. \A i \in 1 .. Len(list) : Found(list[i].key, k) <=> list[i].key = k
    BY <1>5 DEF TablesInv, Known, Found, StrictlyEqual
  <2>4. places = {p}
    BY <2>1, <2>2, <2>3, ListFacts
  <2>5. First(places) = p
    BY <2>4, ListFacts DEF First
  <2>. HIDE DEF places
  <2>. QED
    BY <1>1, <1>2, <1>5, <2>1, <2>4, <2>5
<1>. QED
  BY <1>1, <1>3, <1>4, <1>5

LEMMA DeleteKeepsTables ==
  ASSUME TablesInv, NEW k \in Keys, Delete(k)
  PROVE  TablesInv'
<1>1. table' = table \ {k} /\ added' = added /\ collection' = collection
  BY DeleteCases
<1>2. IsFiniteSet(table') /\ table' \subseteq Keys
  BY <1>1, FS_Subset DEF TablesInv
<1>3. CASE list' = list /\ (k \in table => Known(k))
  <2>1. SizesAgree'
    <3>1. collection = "map" => table' = table
      BY <1>1, <1>3 DEF Known
    <3>. QED
      BY <3>1, <1>1, <1>3 DEF SizesAgree, TablesInv
  <2>2. Numbered'
    BY <1>1, <1>3 DEF TablesInv, Numbered
  <2>3. \A x : Known(x) => Known(x)'
    BY <1>1 DEF Known
  <2>4. \A i \in DOMAIN list : list[i].key \in table' \/ Known(list[i].key)
    BY <1>1, <1>3 DEF TablesInv, InStep
  <2>5. InStep'
    BY <1>1, <1>3, <2>4 DEF TablesInv, InStep, Known
  <2>. QED
    BY <1>1, <1>2, <1>3, <2>1, <2>2, <2>5 DEF TablesInv
<1>4. ASSUME k \in table, ~Known(k),
             NEW p \in 1 .. Len(list), list[p].key = k, list' = Without(list, p)
      PROVE  TablesInv'
  <2>1. /\ list' \in Seq(Entries) /\ Len(list') = Len(list) - 1
        /\ \A j \in 1 .. Len(list) - 1 : list'[j] = list[Skip(p, j)]
    BY <1>4, WithoutProperties DEF TablesInv
  <2>2. DOMAIN list' = 1 .. Len(list) - 1
    BY <2>1, LenProperties
  <2>3. /\ \A j \in 1 .. Len(list) - 1 : Skip(p, j) \in 1 .. Len(list) /\ Skip(p, j) # p
        /\ \A i, j \in 1 .. Len(list) - 1 : i < j => Skip(p, i) < Skip(p, j)
        /\ \A i \in 1 .. Len(list) : i # p => \E j \in 1 .. Len(list) - 1 : Skip(p, j) = i
    BY ListFacts, SkipProperties
  <2>4. Numbered'
    BY <1>1, <2>1, <2>2, <2>3, ListFacts DEF TablesInv, Numbered
  <2>5. Cardinality(table') = Cardinality(table) - 1
    <3>1. IsFiniteSet(table)
      BY DEF TablesInv
    <3>2. Cardinality(table \ {k}) = Cardinality(table) - 1
      BY <1>4, <3>1, FS_RemoveElement
    <3>. QED
      BY <1>1, <3>2
  <2>6. SizesAgree'
    <3>1. collection = "map" => Cardinality(table) = Len(list)
      BY DEF TablesInv, SizesAgree
    <3>. QED
      BY <1>1, <2>1, <2>5, <3>1 DEF SizesAgree
  <2>7. \A i \in 1 .. Len(list) : i # p => list[i].key # k
    <3>. SUFFICES ASSUME NEW i \in 1 .. Len(list), i # p, list[i].key = k PROVE FALSE
      OBVIOUS
    <3>1. i < p \/ p < i
      BY ListFacts
    <3>. QED
      BY <3>1, <1>4, ListFacts DEF TablesInv, InStep
  <2>8. \A j \in DOMAIN list' : list'[j].key \in table' \/ Known(list'[j].key)
    <3>. SUFFICES ASSUME NEW j \in 1 .. Len(list) - 1
                  PROVE  list'[j].key \in table' \/ Known(list'[j].key)
      BY <2>2
    <3>1. /\ list'[j] = list[Skip(p, j)] /\ Skip(p, j) \in 1 .. Len(list)
          /\ Skip(p, j) # p
      BY <2>1, <2>3
    <3>2. list[Skip(p, j)].key \in table \/ Known(list[Skip(p, j)].key)
      BY <3>1, ListFacts DEF TablesInv, InStep
    <3>. QED
      BY <1>1, <2>7, <3>1, <3>2
  <2>9. \A x \in table' : \E j \in DOMAIN list' : list'[j].key = x
    <3>. SUFFICES ASSUME NEW x \in table, x # k PROVE \E j \in 1 .. Len(list) - 1 : list'[j].key = x
      BY <1>1, <2>2
    <3>1. PICK i \in 1 .. Len(list) : list[i].key = x
      BY ListFacts DEF TablesInv, InStep
    <3>2. PICK j \in 1 .. Len(list) - 1 : Skip(p, j) = i
      BY <1>4, <2>3, <3>1
    <3>. QED
      BY <2>1, <3>1, <3>2
  <2>10. \A i, j \in DOMAIN list' : i < j =>
           list'[i].entry < list'[j].entry /\ (list'[i].key # list'[j].key \/ Known(list'[i].key))
    <3>. SUFFICES ASSUME NEW i \in 1 .. Len(list) - 1, NEW j \in 1 .. Len(list) - 1, i < j
                  PROVE  list'[i].entry < list'[j].entry /\ (list'[i].key # list'[j].key \/ Known(list'[i].key))
      BY <2>2
    <3>1. list'[i] = list[Skip(p, i)] /\ list'[j] = list[Skip(p, j)] /\ Skip(p, i) < Skip(p, j)
      BY <2>1, <2>3
    <3>2. Skip(p, i) \in DOMAIN list /\ Skip(p, j) \in DOMAIN list
      BY <2>3, ListFacts
    <3>. QED
      BY <3>1, <3>2 DEF TablesInv, InStep
  <2>11. InStep'
    BY <1>1, <2>8, <2>9, <2>10 DEF InStep, Known
  <2>. QED
    BY <1>1, <1>2, <2>1, <2>4, <2>6, <2>11 DEF TablesInv
<1>. QED
  BY <1>3, <1>4, DeleteCases

LEMMA ClearKeepsTables ==
  ASSUME TablesInv, Clear
  PROVE  TablesInv'
<1>1. list' = <<>> /\ table' = {} /\ added' = added /\ collection' = collection
  BY DEF Clear, Change
<1>2. list' \in Seq(Entries) /\ Len(list') = 0 /\ DOMAIN list' = {}
  BY <1>1, EmptySeq
<1>3. IsFiniteSet(table') /\ Cardinality(table') = 0
  BY <1>1, FS_EmptySet
<1>. QED
  BY <1>1, <1>2, <1>3 DEF TablesInv, Numbered, SizesAgree, InStep

-----------------------------------------------------------------------------
(* Iterators.  What an iterator has yet to pass was added after what it       *)
(* answered last: this survives deletions, which only move later entries to   *)
(* positions that are passed already.                                         *)

Ahead == \A it \in Iterators : \A i \in DOMAIN list :
  iterators[it].position < i => iterators[it].last < list[i].entry
LastGiven == \A it \in Iterators : iterators[it].last <= added

ForEachKinds == {"mapForEach", "setForEach"}
RunningOpen == \A n \in DOMAIN running :
  iterators[running[n]].state = "open" /\ iterators[running[n]].kind \in ForEachKinds
RunningOnce == \A m, n \in DOMAIN running : running[m] = running[n] => m = n

RunningInv == running \in Seq(Iterators) /\ RunningOpen /\ RunningOnce
IteratorsInv == iterators \in [Iterators -> IteratorStates] /\ Ahead /\ LastGiven
Inv == TablesInv /\ IteratorsInv /\ RunningInv /\ ops \in 0 .. MaxOps

(* The iterators a change leaves behind differ only in being stale. *)
LEMMA ModifiedSame ==
  ASSUME iterators \in [Iterators -> IteratorStates],
         iterators' = iterators \/ iterators' = Modified
  PROVE  /\ iterators' \in [Iterators -> IteratorStates]
         /\ \A it \in Iterators : /\ iterators'[it].position = iterators[it].position
                                  /\ iterators'[it].last = iterators[it].last
                                  /\ iterators'[it].kind = iterators[it].kind
                                  /\ iterators'[it].state = iterators[it].state
<1>1. CASE iterators' = Modified
  <2>. DEFINE M(it) == [iterators[it] EXCEPT !.stale = @ \/ iterators[it].state # "fresh"]
  <2>1. \A it \in Iterators : iterators[it] \in IteratorStates
    OBVIOUS
  <2>2. \A it \in Iterators : /\ M(it) \in IteratorStates
                              /\ M(it).position = iterators[it].position
                              /\ M(it).last = iterators[it].last
                              /\ M(it).kind = iterators[it].kind
                              /\ M(it).state = iterators[it].state
    BY <2>1 DEF IteratorStates
  <2>3. iterators' = [it \in Iterators |-> M(it)]
    BY <1>1 DEF Modified
  <2>. HIDE DEF M
  <2>. QED
    BY <2>2, <2>3
<1>. QED
  BY <1>1

LEMMA IteratorFacts ==
  ASSUME IteratorsInv, NEW it \in Iterators
  PROVE  /\ iterators[it].position \in Nat /\ iterators[it].last \in Nat
         /\ iterators[it] \in IteratorStates
BY DEF IteratorsInv, IteratorStates

(* Scripts change the tables and at most make iterators stale. *)
LEMMA ScriptKeepsRunning ==
  ASSUME Inv, running' = running, iterators' = iterators \/ iterators' = Modified
  PROVE  RunningInv'
<1>1. \A n \in DOMAIN running : running[n] \in Iterators
  BY ElementOfSeq, LenProperties DEF Inv, RunningInv
<1>2. \A it \in Iterators : iterators'[it].kind = iterators[it].kind /\ iterators'[it].state = iterators[it].state
  BY ModifiedSame DEF Inv, IteratorsInv
<1>. QED
  BY <1>1, <1>2 DEF Inv, RunningInv, RunningOpen, RunningOnce

LEMMA AddKeepsIterators ==
  ASSUME Inv, NEW k \in Keys, Add(k)
  PROVE  IteratorsInv'
<1>. DEFINE e == [key |-> k, entry |-> added + 1]
<1>1. list' = Append(list, e) /\ added' = added + 1 /\ iterators' = Modified
  BY DEF Add, Change
<1>2. e \in Entries /\ added \in Nat
  BY DEF Entries, Inv, TablesInv
<1>3. /\ list' \in Seq(Entries) /\ Len(list') = Len(list) + 1
      /\ \A i \in 1 .. Len(list) : list'[i] = list[i]
      /\ list'[Len(list) + 1] = e
  BY <1>1, <1>2, AppendProperties DEF Inv, TablesInv
<1>4. DOMAIN list' = 1 .. Len(list) + 1
  BY <1>3, LenProperties
<1>5. /\ iterators' \in [Iterators -> IteratorStates]
      /\ \A it \in Iterators : /\ iterators'[it].position = iterators[it].position
                               /\ iterators'[it].last = iterators[it].last
  BY <1>1, ModifiedSame DEF Inv, IteratorsInv
<1>6. LastGiven'
  <2>1. \A it \in Iterators : iterators[it].last \in Nat /\ iterators[it].last <= added
    BY IteratorFacts DEF Inv, IteratorsInv, LastGiven
  <2>. QED
    BY <1>1, <1>2, <1>5, <2>1 DEF LastGiven
<1>7. Ahead'
  <2>. SUFFICES ASSUME NEW it \in Iterators, NEW i \in 1 .. Len(list) + 1, iterators[it].position < i
                PROVE  iterators[it].last < list'[i].entry
    BY <1>4, <1>5 DEF Ahead
  <2>1. CASE i = Len(list) + 1
    <3>1. list'[i].entry = added + 1 /\ iterators[it].last <= added /\ iterators[it].last \in Nat
      BY <2>1, <1>3, IteratorFacts DEF Inv, IteratorsInv, LastGiven
    <3>. QED
      BY <3>1, <1>2
  <2>2. CASE i # Len(list) + 1
    <3>1. Len(list) \in Nat /\ DOMAIN list = 1 .. Len(list)
      BY ListFacts DEF Inv
    <3>2. i \in DOMAIN list /\ list'[i] = list[i]
      BY <2>2, <1>3, <3>1
    <3>. QED
      BY <3>2 DEF Inv, IteratorsInv, Ahead
  <2>. QED
    BY <2>1, <2>2
<1>. QED
  BY <1>5, <1>6, <1>7 DEF IteratorsInv

LEMMA DeleteKeepsIterators ==
  ASSUME Inv, NEW k \in Keys, Delete(k)
  PROVE  IteratorsInv'
<1>1. iterators' = iterators \/ iterators' = Modified
  BY DEF Delete
<1>2. /\ iterators' \in [Iterators -> IteratorStates]
      /\ \A it \in Iterators : /\ iterators'[it].position = iterators[it].position
                               /\ iterators'[it].last = iterators[it].last
  BY <1>1, ModifiedSame DEF Inv, IteratorsInv
<1>3. LastGiven'
  BY <1>2, DeleteCases DEF Inv, IteratorsInv, LastGiven
<1>4. CASE list' = list
  BY <1>2, <1>3, <1>4 DEF Inv, IteratorsInv, Ahead
<1>5. ASSUME NEW p \in 1 .. Len(list), list' = Without(list, p)
      PROVE  Ahead'
  <2>1. Len(list) \in Nat /\ DOMAIN list = 1 .. Len(list)
    BY ListFacts DEF Inv
  <2>2. DOMAIN list' = 1 .. Len(list) - 1
    BY <1>5, WithoutProperties, LenProperties DEF Inv, TablesInv
  <2>. SUFFICES ASSUME NEW it \in Iterators, NEW i \in 1 .. Len(list) - 1, iterators[it].position < i
                PROVE  iterators[it].last < list'[i].entry
    BY <1>2, <2>2 DEF Ahead
  <2>3. list'[i] = list[Skip(p, i)]
    BY <1>5, WithoutProperties DEF Inv, TablesInv
  <2>4. Skip(p, i) \in DOMAIN list /\ iterators[it].position < Skip(p, i)
    BY <2>1, IteratorFacts DEF Skip, Inv
  <2>. QED
    BY <2>3, <2>4 DEF Inv, IteratorsInv, Ahead
<1>. QED
  BY <1>2, <1>3, <1>4, <1>5, DeleteCases DEF Inv, IteratorsInv

LEMMA ClearKeepsIterators ==
  ASSUME Inv, Clear
  PROVE  IteratorsInv'
<1>1. list' = <<>> /\ added' = added /\ iterators' = Modified
  BY DEF Clear, Change
<1>2. /\ iterators' \in [Iterators -> IteratorStates]
      /\ \A it \in Iterators : iterators'[it].last = iterators[it].last
  BY <1>1, ModifiedSame DEF Inv, IteratorsInv
<1>3. DOMAIN list' = {}
  BY <1>1
<1>. QED
  BY <1>1, <1>2, <1>3 DEF Inv, IteratorsInv, Ahead, LastGiven

LEMMA ScriptKeeps ==
  ASSUME Inv, Script
  PROVE  Inv'
<1>1. /\ running' = running /\ (iterators' = iterators \/ iterators' = Modified)
      /\ ops < MaxOps /\ ops' = ops + 1
  BY DEF Script, Clear, Add, Delete, Change
<1>2. ops' \in 0 .. MaxOps
  BY <1>1, BoundsAssumption DEF Inv
<1>3. TablesInv' /\ IteratorsInv'
  <2>1. CASE Clear
    BY <2>1, ClearKeepsTables, ClearKeepsIterators DEF Inv
  <2>2. ASSUME NEW k \in Keys, Add(k) PROVE TablesInv' /\ IteratorsInv'
    BY <2>2, AddKeepsTables, AddKeepsIterators DEF Inv
  <2>3. ASSUME NEW k \in Keys, Delete(k) PROVE TablesInv' /\ IteratorsInv'
    BY <2>3, DeleteKeepsTables, DeleteKeepsIterators DEF Inv
  <2>. QED
    BY <2>1, <2>2, <2>3 DEF Script
<1>. QED
  BY <1>1, <1>2, <1>3, ScriptKeepsRunning DEF Inv

(* Both tables have one size, so that an iterator that goes by Count never    *)
(* asks for a position beyond the list.                                       *)
LEMMA SizeIsLength ==
  ASSUME TablesInv
  PROVE  Size = Len(list)
BY DEF TablesInv, SizesAgree, Size

(* One iterator may take a new state; the others keep theirs. *)
LEMMA ReplacedIterator ==
  ASSUME Inv, Quiet, NEW it \in Iterators, NEW new \in IteratorStates,
         iterators' = [iterators EXCEPT ![it] = new],
         new.last <= added,
         \A i \in DOMAIN list : new.position < i => new.last < list[i].entry
  PROVE  TablesInv' /\ IteratorsInv' /\ ops' = ops
<1>1. list' = list /\ table' = table /\ added' = added /\ collection' = collection /\ ops' = ops
  BY DEF Quiet, tables
<1>2. TablesInv'
  BY <1>1 DEF Inv, TablesInv, Numbered, SizesAgree, InStep, Known
<1>3. /\ iterators' \in [Iterators -> IteratorStates]
      /\ \A x \in Iterators : iterators'[x] = IF x = it THEN new ELSE iterators[x]
  BY DEF Inv, IteratorsInv
<1>4. Ahead' /\ LastGiven'
  BY <1>1, <1>3 DEF Inv, IteratorsInv, Ahead, LastGiven
<1>. QED
  BY <1>1, <1>2, <1>3, <1>4 DEF IteratorsInv

(* An answer is an entry of the list, and later than the one before. *)
LEMMA YieldsForward ==
  ASSUME Inv, NEW it \in Iterators, iterators[it].position < Len(list), Yields(it)
  PROVE  \E new \in IteratorStates :
           /\ iterators' = [iterators EXCEPT ![it] = new]
           /\ new.position = iterators[it].position + 1
           /\ new.kind = iterators[it].kind /\ new.state = "open"
           /\ new.stale = iterators[it].stale
           /\ new.last = list[iterators[it].position + 1].entry
           /\ iterators[it].last < new.last /\ new.last <= added
           /\ \A i \in DOMAIN list : new.position < i => new.last < list[i].entry
<1>. DEFINE n == iterators[it].position + 1
<1>. DEFINE new == [iterators[it] EXCEPT !.position = n, !.last = list[n].entry, !.state = "open"]
<1>1. n \in DOMAIN list /\ n \in Nat /\ list[n] \in Entries
  BY ListFacts, IteratorFacts DEF Inv
<1>2. list[n].entry \in Nat /\ list[n].entry <= added
  BY <1>1 DEF Inv, TablesInv, Numbered, Entries
<1>3. /\ new \in IteratorStates
      /\ new.position = n /\ new.last = list[n].entry
      /\ new.kind = iterators[it].kind /\ new.state = "open"
      /\ new.stale = iterators[it].stale
  BY <1>1, <1>2, IteratorFacts DEF Inv, IteratorStates
<1>4. iterators[it].last < list[n].entry
  BY <1>1, IteratorFacts DEF Inv, IteratorsInv, Ahead
<1>5. \A i \in DOMAIN list : n < i => list[n].entry < list[i].entry
  BY <1>1 DEF Inv, TablesInv, InStep
<1>6. iterators' = [iterators EXCEPT ![it] = new]
  <2>1. iterators' = [iterators EXCEPT ![it].position = n, ![it].last = list[n].entry, ![it].state = "open"]
    BY DEF Yields
  <2>2. iterators \in [Iterators -> IteratorStates]
    BY DEF Inv, IteratorsInv
  <2>. QED
    BY <2>1, <2>2
<1>. HIDE DEF new
<1>. QED
  BY <1>2, <1>3, <1>4, <1>5, <1>6

LEMMA ClosesOnly ==
  ASSUME Inv, NEW it \in Iterators, Closes(it)
  PROVE  \E new \in IteratorStates :
           /\ iterators' = [iterators EXCEPT ![it] = new]
           /\ new.position = iterators[it].position
           /\ new.kind = iterators[it].kind
           /\ new.stale = iterators[it].stale /\ new.state = "closed"
           /\ new.last = iterators[it].last /\ new.last <= added
           /\ \A i \in DOMAIN list : new.position < i => new.last < list[i].entry
<1>. DEFINE new == [iterators[it] EXCEPT !.state = "closed"]
<1>1. /\ new \in IteratorStates
      /\ new.position = iterators[it].position /\ new.kind = iterators[it].kind
      /\ new.last = iterators[it].last
      /\ new.stale = iterators[it].stale /\ new.state = "closed"
  BY IteratorFacts DEF Inv, IteratorStates
<1>2. iterators' = [iterators EXCEPT ![it] = new]
  BY DEF Closes, Inv, IteratorsInv
<1>. HIDE DEF new
<1>. QED
  BY <1>1, <1>2 DEF Inv, IteratorsInv, Ahead, LastGiven

(* The calls in progress, and what happens to them. *)
LEMMA RunningFacts ==
  ASSUME RunningInv
  PROVE  /\ Len(running) \in Nat /\ DOMAIN running = 1 .. Len(running)
         /\ \A n \in 1 .. Len(running) : running[n] \in Iterators
BY LenProperties, ElementOfSeq DEF RunningInv

LEMMA RunningSame ==
  ASSUME Inv, NEW it \in Iterators, NEW new \in IteratorStates,
         iterators' = [iterators EXCEPT ![it] = new],
         new.kind = iterators[it].kind,
         new.state = "open" \/ new.kind \notin ForEachKinds,
         running' = running
  PROVE  RunningInv'
<1>1. \A x \in Iterators : iterators'[x] = IF x = it THEN new ELSE iterators[x]
  BY DEF Inv, IteratorsInv
<1>. QED
  BY <1>1, RunningFacts DEF Inv, RunningInv, RunningOpen, RunningOnce

LEMMA RunningPopped ==
  ASSUME RunningInv, running # <<>>
  PROVE  /\ Tail(running) \in Seq(Iterators) /\ Head(running) \in Iterators
         /\ Head(running) = running[1] /\ 1 \in DOMAIN running
         /\ DOMAIN Tail(running) = 1 .. Len(running) - 1
         /\ \A n \in 1 .. Len(running) - 1 :
              Tail(running)[n] = running[n + 1] /\ n + 1 \in DOMAIN running
<1>1. Len(running) \in Nat /\ DOMAIN running = 1 .. Len(running) /\ Len(running) >= 1
  BY RunningFacts, EmptySeq DEF RunningInv
<1>2. /\ Head(running) = running[1] /\ Tail(running) \in Seq(Iterators)
      /\ Len(Tail(running)) = Len(running) - 1
      /\ \A n \in 1 .. Len(Tail(running)) : Tail(running)[n] = running[n + 1]
  BY HeadTailProperties DEF RunningInv
<1>3. DOMAIN Tail(running) = 1 .. Len(running) - 1
  BY <1>2, LenProperties
<1>. QED
  BY <1>1, <1>2, <1>3, RunningFacts

LEMMA BeginKeeps ==
  ASSUME Inv, NEW it \in Iterators, NEW kind \in Kinds, Begin(it, kind)
  PROVE  Inv'
<1>. DEFINE new == Opened(kind)
<1>1. iterators[it].kind = "none" /\ Quiet /\ iterators' = [iterators EXCEPT ![it] = new]
  BY DEF Begin, Quiet
<1>2. /\ new \in IteratorStates /\ new.kind = kind /\ new.position = 0 /\ new.last = 0
      /\ kind \in ForEachKinds => new.state = "open"
  BY DEF Opened, Fresh, IteratorStates, ForEachKinds, Kinds, MapKinds, SetKinds
<1>. HIDE DEF new
<1>3. new.last <= added /\ \A i \in DOMAIN list : new.last < list[i].entry
  BY <1>2 DEF Inv, TablesInv, Numbered
<1>4. TablesInv' /\ IteratorsInv' /\ ops' = ops
  BY <1>1, <1>2, <1>3, ReplacedIterator
<1>5. \A x \in Iterators : iterators'[x] = IF x = it THEN new ELSE iterators[x]
  BY <1>1 DEF Inv, IteratorsInv
<1>6. \A n \in 1 .. Len(running) : running[n] # it
  BY <1>1, RunningFacts DEF Inv, RunningInv, RunningOpen, ForEachKinds
<1>7. CASE kind \notin ForEachKinds
  <2>1. running' = running
    BY <1>7 DEF Begin, ForEachKinds
  <2>. QED
    BY <1>4, <1>5, <1>6, <2>1, RunningFacts DEF Inv, RunningInv, RunningOpen, RunningOnce
<1>8. CASE kind \in ForEachKinds
  <2>1. running' = <<it>> \o running
    BY <1>8 DEF Begin, ForEachKinds
  <2>2. <<it>> \in Seq(Iterators) /\ Len(<<it>>) = 1 /\ <<it>>[1] = it
    OBVIOUS
  <2>3. /\ running' \in Seq(Iterators) /\ Len(running') = Len(running) + 1
        /\ \A n \in 1 .. Len(running) + 1 : running'[n] = IF n = 1 THEN it ELSE running[n - 1]
    BY <2>1, <2>2, RunningFacts, ConcatProperties DEF Inv, RunningInv
  <2>4. DOMAIN running' = 1 .. Len(running) + 1
    BY <2>3, LenProperties
  <2>5. RunningOpen'
    <3>. SUFFICES ASSUME NEW n \in 1 .. Len(running) + 1
                  PROVE  iterators'[running'[n]].state = "open" /\ iterators'[running'[n]].kind \in ForEachKinds
      BY <2>4 DEF RunningOpen
    <3>1. CASE n = 1
      BY <3>1, <2>3, <1>2, <1>5, <1>8
    <3>2. CASE n # 1
      <4>1. n - 1 \in 1 .. Len(running) /\ running'[n] = running[n - 1]
        BY <3>2, <2>3, RunningFacts DEF Inv
      <4>. QED
        BY <4>1, <1>5, <1>6, RunningFacts DEF Inv, RunningInv, RunningOpen
    <3>. QED
      BY <3>1, <3>2
  <2>6. RunningOnce'
    <3>. SUFFICES ASSUME NEW m \in 1 .. Len(running) + 1, NEW n \in 1 .. Len(running) + 1,
                         running'[m] = running'[n]
                  PROVE  m = n
      BY <2>4 DEF RunningOnce
    <3>1. Len(running) \in Nat /\ DOMAIN running = 1 .. Len(running)
      BY RunningFacts DEF Inv
    <3>2. CASE m # 1 /\ n # 1
      <4>1. m - 1 \in DOMAIN running /\ n - 1 \in DOMAIN running /\ running[m - 1] = running[n - 1]
        BY <3>1, <3>2, <2>3
      <4>2. m - 1 = n - 1
        BY <4>1 DEF Inv, RunningInv, RunningOnce
      <4>. QED
        BY <4>2
    <3>3. CASE m = 1 \/ n = 1
      <4>1. \A x \in 1 .. Len(running) + 1 : x # 1 => x - 1 \in 1 .. Len(running) /\ running'[x] # it
        BY <3>1, <2>3, <1>6
      <4>2. running'[1] = it
        BY <3>1, <2>3
      <4>. QED
        BY <3>3, <4>1, <4>2
    <3>. QED
      BY <3>2, <3>3
  <2>. QED
    BY <1>4, <2>3, <2>5, <2>6 DEF Inv, RunningInv
<1>. QED
  BY <1>7, <1>8

(* A step of an iterator that is no forEach answers an entry or closes it. *)
LEMMA IteratorStepKeeps ==
  ASSUME Inv, Quiet, running' = running, NEW it \in Iterators,
         iterators[it].kind \notin ForEachKinds,
         (iterators[it].position < Len(list) /\ Yields(it)) \/ Closes(it)
  PROVE  Inv'
<1>1. PICK new \in IteratorStates :
        /\ iterators' = [iterators EXCEPT ![it] = new] /\ new.kind = iterators[it].kind
        /\ new.last <= added
        /\ \A i \in DOMAIN list : new.position < i => new.last < list[i].entry
  BY YieldsForward, ClosesOnly
<1>. QED
  BY <1>1, ReplacedIterator, RunningSame DEF Inv

(* forEach takes the next entry, or closes its iterator and is over. *)
LEMMA ForEachKeeps ==
  ASSUME Inv, StepForEach
  PROVE  Inv'
<1>. DEFINE it == Head(running)
<1>1. running # <<>> /\ Quiet /\ it \in Iterators
  BY RunningPopped DEF StepForEach, Inv
<1>2. iterators[it].position \in Nat /\ Size = Len(list) /\ Len(list) \in Nat
  BY <1>1, IteratorFacts, SizeIsLength, ListFacts DEF Inv
<1>3. CASE iterators[it].position < Len(list)
  <2>1. Yields(it) /\ running' = running
    BY <1>2, <1>3 DEF StepForEach
  <2>2. PICK new \in IteratorStates :
          /\ iterators' = [iterators EXCEPT ![it] = new] /\ new.kind = iterators[it].kind
          /\ new.state = "open" /\ new.last <= added
          /\ \A i \in DOMAIN list : new.position < i => new.last < list[i].entry
    BY <1>1, <1>3, <2>1, YieldsForward
  <2>. QED
    BY <1>1, <2>1, <2>2, ReplacedIterator, RunningSame DEF Inv
<1>4. CASE ~(iterators[it].position < Len(list))
  <2>1. Closes(it) /\ running' = Tail(running)
    BY <1>2, <1>4 DEF StepForEach
  <2>2. PICK new \in IteratorStates :
          /\ iterators' = [iterators EXCEPT ![it] = new] /\ new.last <= added
          /\ \A i \in DOMAIN list : new.position < i => new.last < list[i].entry
    BY <1>1, <2>1, ClosesOnly
  <2>3. \A x \in Iterators : x # it => iterators'[x] = iterators[x]
    BY <2>2 DEF Inv, IteratorsInv
  <2>4. RunningInv'
    <3>1. \A n \in 1 .. Len(running) - 1 : running[n + 1] # it /\ running[n + 1] \in Iterators
      BY <1>1, RunningPopped, RunningFacts DEF Inv, RunningInv, RunningOnce
    <3>2. \A n \in 1 .. Len(running) - 1 : iterators'[running[n + 1]] = iterators[running[n + 1]]
      BY <2>3, <3>1
    <3>3. RunningOpen'
      BY <1>1, <2>1, <3>2, RunningPopped DEF Inv, RunningInv, RunningOpen
    <3>4. RunningOnce'
      BY <1>1, <2>1, RunningPopped, RunningFacts DEF Inv, RunningInv, RunningOnce
    <3>. QED
      BY <1>1, <2>1, <3>3, <3>4, RunningPopped DEF Inv, RunningInv
  <2>. QED
    BY <1>1, <2>2, <2>4, ReplacedIterator DEF Inv
<1>. QED
  BY <1>3, <1>4

LEMMA ThrowKeeps ==
  ASSUME Inv, CallbackThrows
  PROVE  Inv'
<1>1. /\ running # <<>> /\ running' = Tail(running) /\ iterators' = iterators /\ ops' = ops
      /\ list' = list /\ table' = table /\ added' = added /\ collection' = collection
  BY DEF CallbackThrows, Quiet, tables
<1>2. TablesInv'
  BY <1>1 DEF Inv, TablesInv, Numbered, SizesAgree, InStep, Known
<1>3. IteratorsInv'
  BY <1>1 DEF Inv, IteratorsInv, Ahead, LastGiven
<1>4. RunningInv'
  <2>1. RunningOpen'
    BY <1>1, RunningPopped DEF Inv, RunningInv, RunningOpen
  <2>2. RunningOnce'
    BY <1>1, RunningPopped, RunningFacts DEF Inv, RunningInv, RunningOnce
  <2>. QED
    BY <1>1, <2>1, <2>2, RunningPopped DEF Inv, RunningInv
<1>. QED
  BY <1>1, <1>2, <1>3, <1>4 DEF Inv

LEMMA IterateKeeps ==
  ASSUME Inv, Iterate
  PROVE  Inv'
<1>1. CASE StepForEach
  BY <1>1, ForEachKeeps
<1>2. CASE CallbackThrows
  BY <1>2, ThrowKeeps
<1>3. ASSUME NEW it \in Iterators, NEW kind \in Kinds, Begin(it, kind) PROVE Inv'
  BY <1>3, BeginKeeps
<1>4. ASSUME NEW it \in Iterators,
             StepEntries(it) \/ StepSetValues(it) \/ StepMapKeys(it) \/ StepMapValues(it)
      PROVE  Inv'
  <2>1. Quiet /\ running' = running /\ iterators[it].kind \notin ForEachKinds
    BY <1>4 DEF StepEntries, StepSetValues, StepMapKeys, StepMapValues, Is, ForEachKinds
  <2>2. (iterators[it].position < Len(list) /\ Yields(it)) \/ Closes(it)
    BY <1>4, SizeIsLength DEF StepEntries, StepSetValues, StepMapKeys, StepMapValues, Inv
  <2>. QED
    BY <2>1, <2>2, IteratorStepKeeps
<1>. QED
  BY <1>1, <1>2, <1>3, <1>4 DEF Iterate

-----------------------------------------------------------------------------
(* The theorems *)

LEMMA InitEstablishes ==
  ASSUME Init
  PROVE  Inv
<1>1. list = <<>> /\ running = <<>> /\ table = {} /\ added = 0 /\ ops = 0 /\ collection \in {"map", "set"}
  BY DEF Init
<1>2. /\ list \in Seq(Entries) /\ Len(list) = 0 /\ DOMAIN list = {}
      /\ running \in Seq(Iterators) /\ DOMAIN running = {}
  BY <1>1, EmptySeq
<1>3. IsFiniteSet(table) /\ Cardinality(table) = 0
  BY <1>1, FS_EmptySet
<1>4. Fresh \in IteratorStates /\ Fresh.last = 0
  BY DEF Fresh, IteratorStates
<1>5. /\ iterators \in [Iterators -> IteratorStates]
      /\ \A it \in Iterators : iterators[it].last = 0
  BY <1>4 DEF Init
<1>6. ops \in 0 .. MaxOps
  BY <1>1, BoundsAssumption
<1>7. TablesInv
  BY <1>1, <1>2, <1>3 DEF TablesInv, Numbered, SizesAgree, InStep
<1>8. IteratorsInv
  BY <1>1, <1>2, <1>5 DEF IteratorsInv, Ahead, LastGiven
<1>. QED
  BY <1>2, <1>6, <1>7, <1>8 DEF Inv, RunningInv, RunningOpen, RunningOnce

LEMMA StutterKeeps ==
  ASSUME Inv, UNCHANGED vars
  PROVE  Inv'
<1>. USE DEF vars, tables
<1>1. TablesInv'
  BY DEF Inv, TablesInv, Numbered, SizesAgree, InStep, Known
<1>2. IteratorsInv'
  BY DEF Inv, IteratorsInv, Ahead, LastGiven
<1>3. RunningInv'
  BY DEF Inv, RunningInv, RunningOpen, RunningOnce
<1>. QED
  BY <1>1, <1>2, <1>3 DEF Inv

(* The strengthened invariant holds in every reachable state. *)
THEOREM Invariance == Spec => []Inv
<1>1. Init => Inv
  BY InitEstablishes
<1>2. Inv /\ [Next]_vars => Inv'
  BY ScriptKeeps, IterateKeeps, StutterKeeps DEF Next
<1>. QED
  BY <1>1, <1>2, PTL DEF Spec

(* Every variable keeps its type: in particular no iterator reads the list at *)
(* a position that it does not have (MapIteratorPrototype.cs:83,              *)
(* MapInstance.cs:72 call GetKey after a look at Count).                      *)
THEOREM CollectionTypes == Spec => []TypeOK
<1>1. Inv => TypeOK
  BY DEF Inv, TablesInv, IteratorsInv, RunningInv, RunningOpen, TypeOK
<1>. QED
  BY <1>1, Invariance, PTL

(* The hash table and the list of a collection stay in step, whatever is      *)
(* added, deleted and cleared, except for NaN in a set.                       *)
THEOREM TablesInStep == Spec => []InStep
<1>1. Inv => InStep
  BY DEF Inv, TablesInv
<1>. QED
  BY <1>1, Invariance, PTL

(* An iterator never goes back: while it lives, each answer was added after   *)
(* the one before, so no entry is answered twice.                             *)
Forward(it) ==
  /\ iterators[it].last <= iterators'[it].last
  /\ iterators'[it].position # iterators[it].position => iterators[it].last < iterators'[it].last
AnswersInOrder == [][\A it \in Iterators : iterators[it].kind # "none" => Forward(it)]_vars

(* One iterator that moves forward, with the others where they are. *)
LEMMA OneForward ==
  ASSUME Inv, NEW it \in Iterators, NEW new,
         iterators' = [iterators EXCEPT ![it] = new],
         \/ iterators[it].last < new.last
         \/ new.last = iterators[it].last /\ new.position = iterators[it].position
         \/ iterators[it].kind = "none",
         NEW x \in Iterators, iterators[x].kind # "none", new.last \in Nat
  PROVE  Forward(x)
<1>1. iterators'[x] = IF x = it THEN new ELSE iterators[x]
  BY DEF Inv, IteratorsInv
<1>2. iterators[x].last \in Nat
  BY IteratorFacts DEF Inv
<1>. QED
  BY <1>1, <1>2 DEF Forward

LEMMA YieldOrClose ==
  ASSUME Inv, NEW it \in Iterators,
         (iterators[it].position < Len(list) /\ Yields(it)) \/ Closes(it),
         NEW x \in Iterators, iterators[x].kind # "none"
  PROVE  Forward(x)
<1>1. PICK new \in IteratorStates :
        /\ iterators' = [iterators EXCEPT ![it] = new]
        /\ \/ iterators[it].last < new.last
           \/ new.last = iterators[it].last /\ new.position = iterators[it].position
  BY YieldsForward, ClosesOnly
<1>2. new.last \in Nat
  BY DEF IteratorStates
<1>. QED
  BY <1>1, <1>2, OneForward

(* No iterator goes back, in any step of any behaviour. *)
THEOREM IterationInOrder == Spec => AnswersInOrder
<1>. DEFINE A == \A it \in Iterators : iterators[it].kind # "none" => Forward(it)
<1>1. ASSUME Inv, NEW x \in Iterators, iterators[x].kind # "none",
             iterators' = iterators \/ iterators' = Modified
      PROVE  Forward(x)
  <2>1. iterators'[x].position = iterators[x].position /\ iterators'[x].last = iterators[x].last
    BY <1>1, ModifiedSame DEF Inv, IteratorsInv
  <2>. QED
    BY <1>1, <2>1, IteratorFacts DEF Forward, Inv
<1>2. ASSUME Inv, Next, NEW x \in Iterators, iterators[x].kind # "none"
      PROVE  Forward(x)
  <2>1. CASE Script
    <3>1. iterators' = iterators \/ iterators' = Modified
      BY <2>1 DEF Script, Clear, Add, Delete
    <3>. QED
      BY <1>1, <1>2, <3>1
  <2>2. CASE StepForEach
    <3>. DEFINE it == Head(running)
    <3>1. it \in Iterators /\ Size = Len(list)
      BY <1>2, <2>2, RunningPopped, SizeIsLength DEF Inv, StepForEach
    <3>2. (iterators[it].position < Len(list) /\ Yields(it)) \/ Closes(it)
      BY <2>2, <3>1 DEF StepForEach
    <3>. HIDE DEF it
    <3>. QED
      BY <1>2, <3>1, <3>2, YieldOrClose
  <2>3. CASE CallbackThrows
    BY <1>1, <1>2, <2>3 DEF CallbackThrows
  <2>4. ASSUME NEW it \in Iterators, NEW kind \in Kinds, Begin(it, kind) PROVE Forward(x)
    <3>. DEFINE new == Opened(kind)
    <3>1. /\ iterators[it].kind = "none" /\ iterators' = [iterators EXCEPT ![it] = new]
          /\ new.last \in Nat
      BY <2>4 DEF Begin, Opened, Fresh
    <3>. HIDE DEF new
    <3>. QED
      BY <1>2, <3>1, OneForward
  <2>5. ASSUME NEW it \in Iterators,
               StepEntries(it) \/ StepSetValues(it) \/ StepMapKeys(it) \/ StepMapValues(it)
        PROVE  Forward(x)
    <3>1. (iterators[it].position < Len(list) /\ Yields(it)) \/ Closes(it)
      BY <1>2, <2>5, SizeIsLength DEF StepEntries, StepSetValues, StepMapKeys, StepMapValues, Inv
    <3>. QED
      BY <1>2, <3>1, YieldOrClose
  <2>. QED
    BY <1>2, <2>1, <2>2, <2>3, <2>4, <2>5 DEF Next, Iterate
<1>3. Inv /\ [Next]_vars => [A]_vars
  BY <1>2
<1>. QED
  BY <1>3, Invariance, PTL DEF Spec, AnswersInOrder

-----------------------------------------------------------------------------
(* The collections implement LiveIteration: counting what an iterator passed. *)

(* The first entries of the list are as many as their places.                 *)
LEMMA EntriesCounted ==
  ASSUME TablesInv, NEW n \in 0 .. Len(list)
  PROVE  LET S == {list[i].entry : i \in 1 .. n}
         IN  IsFiniteSet(S) /\ Cardinality(S) = n /\ S \subseteq Nat
<1>. DEFINE S == {list[i].entry : i \in 1 .. n}
            f == [i \in 1 .. n |-> list[i].entry]
<1>1. n \in Nat /\ \A i \in 1 .. n : i \in DOMAIN list /\ list[i].entry \in Nat
  BY ListFacts DEF Entries
<1>2. \A i, j \in 1 .. n : i < j => list[i].entry < list[j].entry
  BY <1>1 DEF TablesInv, InStep
<1>3. \A i, j \in 1 .. n : list[i].entry = list[j].entry => i = j
  <2>. SUFFICES ASSUME NEW i \in 1 .. n, NEW j \in 1 .. n, list[i].entry = list[j].entry
                PROVE  ~(i < j) /\ ~(j < i)
    BY <1>1
  <2>. QED
    BY <1>1, <1>2
<1>4. f \in Bijection(1 .. n, S)
  <2>1. f \in [1 .. n -> S] /\ \A i \in 1 .. n : f[i] = list[i].entry
    OBVIOUS
  <2>2. \A t \in S : \E i \in 1 .. n : f[i] = t
    BY <2>1
  <2>. HIDE DEF f, S
  <2>3. \A i, j \in 1 .. n : f[i] = f[j] => i = j
    BY <1>3, <2>1
  <2>. QED
    BY <2>1, <2>2, <2>3 DEF Bijection, Injection, Surjection, IsInjective
<1>5. ExistsBijection(1 .. n, S)
  BY <1>4 DEF ExistsBijection
<1>6. IsFiniteSet(S) /\ Cardinality(S) = n
  BY <1>1, <1>5, FS_NatBijection, FS_CountingElements
<1>. QED
  BY <1>1, <1>6

LEMMA SameCount ==
  ASSUME NEW S
  PROVE  Live!Cardinality(S) = Cardinality(S)
BY DEF Live!Cardinality, Cardinality

LEMMA SmallerOf ==
  ASSUME NEW p \in Nat, NEW n \in Nat
  PROVE  \E m \in 0 .. n : m <= p /\ (m = p \/ m = n)
<1>1. CASE p <= n
  <2>1. p \in 0 .. n /\ p <= p
    BY <1>1
  <2>. QED
    BY <2>1
<1>2. CASE ~(p <= n)
  <2>1. n \in 0 .. n /\ n <= p
    BY <1>2
  <2>. QED
    BY <2>1
<1>. QED
  BY <1>1, <1>2

(* An iterator has left its position behind, and at most as many entries.     *)
LEMMA BehindFacts ==
  ASSUME Inv, NEW it \in Iterators
  PROVE  /\ IsFiniteSet(ListEntries) /\ Cardinality(ListEntries) = Len(list)
         /\ ListEntries \subseteq Nat
         /\ IsFiniteSet(Behind(it)) /\ Cardinality(Behind(it)) \in Nat
         /\ Cardinality(Behind(it)) <= iterators[it].position
<1>1. /\ Len(list) \in Nat /\ DOMAIN list = 1 .. Len(list)
      /\ iterators[it].position \in Nat /\ iterators[it].last \in Nat
      /\ \A i \in DOMAIN list : list[i].entry \in Nat
  BY ListFacts, IteratorFacts DEF Inv, Entries
<1>2. /\ IsFiniteSet(ListEntries) /\ Cardinality(ListEntries) = Len(list)
      /\ ListEntries \subseteq Nat
  <2>1. ListEntries = {list[i].entry : i \in 1 .. Len(list)} /\ Len(list) \in 0 .. Len(list)
    BY <1>1 DEF ListEntries
  <2>. QED
    BY <2>1, EntriesCounted DEF Inv
<1>. DEFINE p == iterators[it].position
            n == Len(list)
<1>0. p \in Nat /\ n \in Nat /\ DOMAIN list = 1 .. n
  BY <1>1
<1>3. PICK m \in 0 .. n : m <= p /\ (m = p \/ m = n)
  <2>. HIDE DEF p, n
  <2>. QED
    BY <1>0, SmallerOf
<1>. DEFINE S == {list[i].entry : i \in 1 .. m}
<1>4. IsFiniteSet(S) /\ Cardinality(S) = m
  BY EntriesCounted DEF Inv
<1>5. Behind(it) \subseteq S
  <2>. SUFFICES ASSUME NEW i \in DOMAIN list, list[i].entry <= iterators[it].last
                PROVE  i \in 1 .. m
    BY DEF Behind, ListEntries
  <2>1. ~(p < i)
    BY <1>1 DEF Inv, IteratorsInv, Ahead
  <2>. HIDE DEF p, n
  <2>. QED
    BY <1>0, <1>3, <2>1
<1>6. IsFiniteSet(Behind(it)) /\ Cardinality(Behind(it)) <= m
  BY <1>4, <1>5, FS_Subset
<1>7. Cardinality(Behind(it)) \in Nat
  BY <1>6, FS_CardinalityType
<1>8. Cardinality(Behind(it)) <= p
  <2>. HIDE DEF p, n
  <2>. QED
    BY <1>0, <1>3, <1>6, <1>7
<1>. QED
  BY <1>2, <1>6, <1>7, <1>8

(* An answer passes over what was deleted in its place, and over no more.     *)
LEMMA PassesMapped ==
  ASSUME Inv, Quiet, NEW it \in Iterators, iterators[it].state # "closed",
         iterators[it].position < Len(list), Yields(it)
  PROVE  Live!Passes(it)
<1>. DEFINE p == iterators[it].position
            n == Len(list)
            l == iterators[it].last
            next == list[p + 1].entry
            Missed == {e \in {e \in ListEntries : l < e} : e < next}
            Passed == {list[i].entry : i \in 1 .. p}
            c == Cardinality(Behind(it))
<1>1. PICK new \in IteratorStates :
        /\ iterators' = [iterators EXCEPT ![it] = new]
        /\ new.position = p + 1 /\ new.last = next
        /\ new.state = "open" /\ new.stale = iterators[it].stale
        /\ l < next
  BY YieldsForward
<1>2. /\ list' = list /\ ListEntries' = ListEntries
      /\ \A x \in Iterators : iterators'[x] = IF x = it THEN new ELSE iterators[x]
  BY <1>1 DEF Quiet, tables, Inv, IteratorsInv, ListEntries
<1>3. p \in Nat /\ n \in Nat /\ DOMAIN list = 1 .. n /\ l \in Nat /\ p < n
  BY ListFacts, IteratorFacts DEF Inv
<1>4. p + 1 \in DOMAIN list /\ p \in 0 .. n /\ p + 1 \in 0 .. n /\ 1 .. p \subseteq DOMAIN list
  <2>. HIDE DEF p, n
  <2>. QED
    BY <1>3
<1>5. \A i \in DOMAIN list : list[i].entry \in Nat
  BY <1>3, ListFacts DEF Inv, Entries
<1>6. next \in ListEntries /\ next \in Nat
  BY <1>4, <1>5 DEF ListEntries
<1>7. \A i, j \in DOMAIN list : i < j => list[i].entry < list[j].entry
  BY DEF Inv, TablesInv, InStep
<1>8. \A i \in DOMAIN list : list[i].entry < next <=> i \in 1 .. p
  <2>. SUFFICES ASSUME NEW i \in DOMAIN list PROVE list[i].entry < next <=> i \in 1 .. p
    OBVIOUS
  <2>1. i < p + 1 \/ i = p + 1 \/ p + 1 < i
    BY <1>3
  <2>2. CASE i < p + 1
    BY <2>2, <1>3, <1>4, <1>7
  <2>3. CASE i = p + 1
    BY <2>3, <1>3, <1>6
  <2>4. CASE p + 1 < i
    <3>1. next < list[i].entry
      BY <2>4, <1>4, <1>7
    <3>2. ~(list[i].entry < next)
      BY <3>1, <1>5, <1>6
    <3>. QED
      BY <3>2, <2>4, <1>3
  <2>. QED
    BY <2>1, <2>2, <2>3, <2>4
<1>9. IsFiniteSet(Passed) /\ Cardinality(Passed) = p
  BY <1>4, EntriesCounted DEF Inv
<1>10. /\ IsFiniteSet(Behind(it)) /\ c \in Nat
  BY BehindFacts
<1>11. Passed = {e \in ListEntries : e < next}
  BY <1>4, <1>8 DEF ListEntries
<1>12. Behind(it) \cup Missed = Passed /\ Behind(it) \cap Missed = {}
  <2>1. \A e \in ListEntries : e \in Nat
    BY <1>5 DEF ListEntries
  <2>. HIDE DEF Passed, next, l
  <2>2. Behind(it) = {e \in ListEntries : e <= l}
    BY DEF Behind, l
  <2>3. \A e \in ListEntries : (e <= l => e < next) /\ (l < e <=> ~(e <= l))
    BY <2>1, <1>1, <1>3, <1>6
  <2>. QED
    BY <1>11, <2>2, <2>3
<1>13. IsFiniteSet(Missed)
  BY <1>9, <1>12, FS_Subset
<1>14. Cardinality(Missed) = p - c
  <2>. HIDE DEF Passed, Missed
  <2>1. Cardinality(Passed) = Cardinality(Behind(it)) + Cardinality(Missed) - Cardinality({})
    BY <1>10, <1>12, <1>13, FS_Union
  <2>2. Cardinality({}) = 0 /\ Cardinality(Missed) \in Nat
    BY <1>13, FS_EmptySet, FS_CardinalityType
  <2>. HIDE DEF p, c
  <2>. QED
    BY <1>3, <1>9, <1>10, <2>1, <2>2 DEF c
<1>15. Cardinality(Behind(it)') = p + 1
  <2>1. Behind(it)' = {e \in ListEntries : e <= next}
    BY <1>1, <1>2 DEF Behind
  <2>2. \A i \in DOMAIN list : list[i].entry <= next <=> i \in 1 .. p + 1
    <3>. SUFFICES ASSUME NEW i \in DOMAIN list PROVE list[i].entry <= next <=> i \in 1 .. p + 1
      OBVIOUS
    <3>1. CASE i = p + 1
      BY <3>1, <1>3, <1>6
    <3>2. CASE i # p + 1
      <4>1. list[i].entry # next
        BY <3>2, <1>3, <1>4, <1>5, <1>6, <1>7
      <4>2. list[i].entry <= next <=> list[i].entry < next
        BY <4>1, <1>5, <1>6
      <4>3. i \in 1 .. p + 1 <=> i \in 1 .. p
        BY <3>2, <1>3
      <4>. QED
        BY <4>2, <4>3, <1>8
    <3>. QED
      BY <3>1, <3>2
  <2>3. 1 .. p + 1 \subseteq DOMAIN list
    BY <1>3
  <2>4. Behind(it)' = {list[i].entry : i \in 1 .. p + 1}
    BY <2>1, <2>2, <2>3 DEF ListEntries
  <2>. QED
    BY <1>4, <2>4, EntriesCounted DEF Inv
<1>16. \A x \in Iterators : x # it => Behind(x)' = Behind(x)
  BY <1>2 DEF Behind
<1>17. Live!Later(it) = {e \in ListEntries : l < e}
  BY DEF Live!Later, Answered
<1>18. it \notin Over
  BY DEF Over
<1>19. Spare' = [Spare EXCEPT ![it] = Spare[it] - Cardinality(Missed)] /\ Cardinality(Missed) <= Spare[it]
  <2>1. \A x \in Iterators : Spare'[x] = IF x = it THEN 0 ELSE Spare[x]
    <3>. SUFFICES ASSUME NEW x \in Iterators PROVE Spare'[x] = IF x = it THEN 0 ELSE Spare[x]
      OBVIOUS
    <3>0. Spare'[x] = iterators'[x].position - Cardinality(Behind(x)')
      BY DEF Spare
    <3>1. CASE x = it
      <4>1. Spare'[x] = (p + 1) - (p + 1)
        BY <3>0, <3>1, <1>1, <1>2, <1>15
      <4>. QED
        BY <4>1, <3>1, <1>3
    <3>2. CASE x # it
      BY <3>0, <3>2, <1>2, <1>16 DEF Spare
    <3>. QED
      BY <3>1, <3>2
  <2>2. Spare[it] = p - c
    BY DEF Spare
  <2>3. Spare[it] - Cardinality(Missed) = 0 /\ Cardinality(Missed) <= Spare[it]
    <3>. HIDE DEF Missed, p, c
    <3>. QED
      BY <2>2, <1>3, <1>10, <1>14 DEF c
  <2>4. Spare' = [x \in Iterators |-> Spare'[x]] /\ Spare = [x \in Iterators |-> Spare[x]]
    BY DEF Spare
  <2>. HIDE DEF Missed, p, c
  <2>. QED
    BY <2>1, <2>3, <2>4
<1>20. Answered' = [Answered EXCEPT ![it] = next]
  <2>1. \A x \in Iterators : iterators'[x].last = IF x = it THEN next ELSE iterators[x].last
    BY <1>1, <1>2
  <2>. HIDE DEF next
  <2>. QED
    BY <2>1 DEF Answered
<1>21. Stale' = Stale /\ Over' = Over
  BY <1>1, <1>2 DEF Stale, Over
<1>22. next \in Live!Later(it)
  BY <1>1, <1>6, <1>17
<1>23. Live!Missed(it, next) = Cardinality(Missed)
  <2>1. {e \in Live!Later(it) : e < next} = Missed
    BY <1>17
  <2>. HIDE DEF Missed, next
  <2>. QED
    BY <2>1, SameCount DEF Live!Missed
<1>. HIDE DEF next, Missed
<1>24. /\ Live!Missed(it, next) <= Spare[it]
       /\ Spare' = [Spare EXCEPT ![it] = Spare[it] - Live!Missed(it, next)]
  BY <1>19, <1>23
<1>. QED
  BY <1>2, <1>18, <1>20, <1>21, <1>22, <1>24 DEF Live!Passes

(* An iterator that has come to its end has at most missed what it may.       *)
LEMMA EndsMapped ==
  ASSUME Inv, Quiet, NEW it \in Iterators, Closes(it),
         iterators[it].stale \/ ~(iterators[it].position < Len(list))
  PROVE  Live!Ends(it)
<1>. DEFINE p == iterators[it].position
            n == Len(list)
            l == iterators[it].last
            c == Cardinality(Behind(it))
            Rest == {e \in ListEntries : l < e}
<1>1. PICK new \in IteratorStates :
        /\ iterators' = [iterators EXCEPT ![it] = new]
        /\ new.position = p /\ new.last = l /\ new.stale = iterators[it].stale /\ new.state = "closed"
  BY ClosesOnly
<1>2. /\ list' = list /\ ListEntries' = ListEntries
      /\ \A x \in Iterators : iterators'[x] = IF x = it THEN new ELSE iterators[x]
  BY <1>1 DEF Quiet, tables, Inv, IteratorsInv, ListEntries
<1>3. Answered' = Answered /\ Stale' = Stale
  BY <1>1, <1>2 DEF Answered, Stale
<1>4. Spare' = Spare
  <2>1. \A x \in Iterators : Behind(x)' = Behind(x) /\ iterators'[x].position = iterators[x].position
    BY <1>1, <1>2 DEF Behind
  <2>. QED
    BY <2>1 DEF Spare
<1>5. Over' = Over \cup {it}
  BY <1>1, <1>2 DEF Over
<1>6. p \in Nat /\ n \in Nat /\ l \in Nat
  BY ListFacts, IteratorFacts DEF Inv
<1>7. Live!Later(it) = Rest
  BY DEF Live!Later, Answered
<1>8. Cardinality(Rest) = n - c /\ c \in Nat
  <2>1. /\ IsFiniteSet(ListEntries) /\ Cardinality(ListEntries) = n /\ ListEntries \subseteq Nat
        /\ IsFiniteSet(Behind(it)) /\ c \in Nat
    BY BehindFacts
  <2>2. ListEntries = Behind(it) \cup Rest /\ Behind(it) \cap Rest = {}
    <3>. HIDE DEF l
    <3>1. Behind(it) = {e \in ListEntries : e <= l}
      BY DEF Behind, l
    <3>2. \A e \in ListEntries : l < e <=> ~(e <= l)
      BY <2>1, <1>6
    <3>. QED
      BY <3>1, <3>2
  <2>3. IsFiniteSet(Rest)
    BY <2>1, <2>2, FS_Subset
  <2>. HIDE DEF Rest
  <2>4. Cardinality(ListEntries) = Cardinality(Behind(it)) + Cardinality(Rest) - Cardinality({})
    BY <2>1, <2>2, <2>3, FS_Union
  <2>5. Cardinality({}) = 0 /\ Cardinality(Rest) \in Nat
    BY <2>3, FS_EmptySet, FS_CardinalityType
  <2>. HIDE DEF n, c
  <2>. QED
    BY <2>1, <2>4, <2>5, <1>6 DEF c
<1>9. Live!Cardinality(Live!Later(it)) <= Spare[it] \/ it \in Stale
  <2>1. CASE iterators[it].stale
    BY <2>1 DEF Stale
  <2>2. CASE ~(p < n)
    <3>1. Live!Cardinality(Live!Later(it)) = Cardinality(Rest)
      BY <1>7, SameCount
    <3>2. Spare[it] = p - c
      BY DEF Spare
    <3>. HIDE DEF p, n, c, Rest
    <3>. QED
      BY <2>2, <3>1, <3>2, <1>6, <1>8
  <2>. QED
    BY <2>1, <2>2
<1>. QED
  BY <1>2, <1>3, <1>4, <1>5, <1>9 DEF Live!Ends

(* What a change leaves of the iterators: the answered and the over are the   *)
(* same, and no stale one is fresh again.                                     *)
LEMMA ChangeKeepsAnswers ==
  ASSUME Inv, iterators' = iterators \/ iterators' = Modified
  PROVE  /\ Answered' = Answered /\ Over' = Over /\ Stale \subseteq Stale'
         /\ \A it \in Iterators : /\ iterators'[it].position = iterators[it].position
                                  /\ iterators'[it].last = iterators[it].last
<1>1. \A it \in Iterators : /\ iterators'[it].position = iterators[it].position
                            /\ iterators'[it].last = iterators[it].last
                            /\ iterators'[it].state = iterators[it].state
  BY ModifiedSame DEF Inv, IteratorsInv
<1>2. Stale \subseteq Stale'
  <2>. DEFINE M(it) == [iterators[it] EXCEPT !.stale = @ \/ iterators[it].state # "fresh"]
  <2>. SUFFICES ASSUME iterators' = Modified, NEW it \in Iterators, iterators[it].stale
                PROVE  iterators'[it].stale
    BY DEF Stale
  <2>1. iterators'[it] = M(it)
    BY DEF Modified
  <2>2. M(it).stale = (iterators[it].stale \/ iterators[it].state # "fresh")
    BY IteratorFacts DEF Inv, IteratorStates
  <2>. HIDE DEF M
  <2>. QED
    BY <2>1, <2>2
<1>. QED
  BY <1>1, <1>2 DEF Answered, Over

LEMMA AdditionMapped ==
  ASSUME Inv, NEW k \in Keys, Add(k)
  PROVE  Live!Changes
<1>. DEFINE e == [key |-> k, entry |-> added + 1]
<1>1. list' = Append(list, e) /\ iterators' = Modified
  BY DEF Add, Change
<1>2. e \in Entries /\ added \in Nat
  BY DEF Entries, Inv, TablesInv
<1>3. /\ list' \in Seq(Entries) /\ Len(list') = Len(list) + 1
      /\ \A i \in 1 .. Len(list) : list'[i] = list[i]
      /\ list'[Len(list) + 1] = e
  BY <1>1, <1>2, AppendProperties DEF Inv, TablesInv
<1>4. DOMAIN list' = 1 .. Len(list) + 1 /\ DOMAIN list = 1 .. Len(list) /\ Len(list) \in Nat
  BY <1>3, LenProperties, ListFacts DEF Inv
<1>5. ListEntries' = ListEntries \cup {added + 1}
  <2>1. ListEntries' = {list'[i].entry : i \in 1 .. Len(list) + 1}
    BY <1>4 DEF ListEntries
  <2>2. \A i \in 1 .. Len(list) + 1 : i \in 1 .. Len(list) \/ i = Len(list) + 1
    BY <1>4
  <2>3. Len(list) + 1 \in 1 .. Len(list) + 1 /\ 1 .. Len(list) \subseteq 1 .. Len(list) + 1
    BY <1>4
  <2>. QED
    BY <1>3, <1>4, <2>1, <2>2, <2>3 DEF ListEntries
<1>6. \A x \in ListEntries : x < added + 1
  <2>1. \A i \in DOMAIN list : list[i].entry <= added /\ list[i].entry \in Nat
    BY <1>4, ListFacts DEF Inv, TablesInv, Numbered, Entries
  <2>. QED
    BY <1>2, <2>1 DEF ListEntries
<1>7. \A it \in Iterators : iterators[it].last < added + 1
  BY <1>2, IteratorFacts DEF Inv, IteratorsInv, LastGiven
<1>8. /\ Answered' = Answered /\ Over' = Over /\ Stale \subseteq Stale'
      /\ \A it \in Iterators : /\ iterators'[it].position = iterators[it].position
                               /\ iterators'[it].last = iterators[it].last
  BY <1>1, ChangeKeepsAnswers
<1>9. Spare' = Spare
  <2>1. \A it \in Iterators : Behind(it)' = Behind(it)
    <3>. SUFFICES ASSUME NEW it \in Iterators PROVE Behind(it)' = Behind(it)
      OBVIOUS
    <3>1. ~(added + 1 <= iterators[it].last)
      BY <1>2, <1>7, IteratorFacts DEF Inv
    <3>. QED
      BY <3>1, <1>5, <1>8 DEF Behind
  <2>. QED
    BY <1>8, <2>1 DEF Spare
<1>10. Live!Addition
  <2>1. \A it \in Iterators : Answered[it] < added + 1
    BY <1>7 DEF Answered
  <2>. QED
    BY <1>5, <1>6, <1>9, <2>1 DEF Live!Addition
<1>. QED
  BY <1>8, <1>10 DEF Live!Changes

(* An iterator may miss one more for each entry it had passed that is gone.   *)
LEMMA RemovalMapped ==
  ASSUME Inv, iterators' = iterators \/ iterators' = Modified,
         ListEntries' \subseteq ListEntries, ListEntries' # ListEntries \/ ListEntries = {}
  PROVE  Live!Changes
<1>. DEFINE gone == ListEntries \ ListEntries'
            Past(it) == {e \in gone : e <= Answered[it]}
<1>1. /\ Answered' = Answered /\ Over' = Over /\ Stale \subseteq Stale'
      /\ \A it \in Iterators : /\ iterators'[it].position = iterators[it].position
                               /\ iterators'[it].last = iterators[it].last
  BY ChangeKeepsAnswers
<1>2. \A it \in Iterators : Spare'[it] = Spare[it] + Cardinality(Past(it))
  <2>. SUFFICES ASSUME NEW it \in Iterators PROVE Spare'[it] = Spare[it] + Cardinality(Past(it))
    OBVIOUS
  <2>1. Behind(it)' \cup Past(it) = Behind(it) /\ Behind(it)' \cap Past(it) = {}
    BY <1>1 DEF Behind, Answered
  <2>2. IsFiniteSet(Behind(it)) /\ iterators[it].position \in Nat
    BY BehindFacts, IteratorFacts DEF Inv
  <2>3. IsFiniteSet(Behind(it)') /\ IsFiniteSet(Past(it))
    BY <2>1, <2>2, FS_Subset
  <2>. HIDE DEF Past
  <2>4. Cardinality(Behind(it)) = Cardinality(Behind(it)') + Cardinality(Past(it)) - Cardinality({})
    BY <2>1, <2>3, FS_Union
  <2>5. /\ Cardinality({}) = 0 /\ Cardinality(Past(it)) \in Nat
        /\ Cardinality(Behind(it)) \in Nat /\ Cardinality(Behind(it)') \in Nat
    BY <2>2, <2>3, FS_EmptySet, FS_CardinalityType
  <2>6. /\ Spare[it] = iterators[it].position - Cardinality(Behind(it))
        /\ Spare'[it] = iterators[it].position - Cardinality(Behind(it)')
    BY <1>1 DEF Spare
  <2>. QED
    BY <2>2, <2>4, <2>5, <2>6
<1>3. Spare' = [it \in Iterators |-> Spare[it] + Live!Cardinality(Past(it))]
  <2>1. \A it \in Iterators : Spare'[it] = Spare[it] + Live!Cardinality(Past(it))
    BY <1>2, SameCount
  <2>2. Spare' = [it \in Iterators |-> Spare'[it]]
    BY DEF Spare
  <2>. HIDE DEF Past
  <2>. QED
    BY <2>1, <2>2
<1>4. gone # {} \/ ListEntries = {}
  OBVIOUS
<1>5. Live!Removal
  BY <1>3, <1>4 DEF Live!Removal
<1>. QED
  BY <1>1, <1>5 DEF Live!Changes

LEMMA DeleteMapped ==
  ASSUME Inv, NEW k \in Keys, Delete(k)
  PROVE  Live!Changes \/ (list' = list /\ iterators' = iterators)
<1>1. list' = list => iterators' = iterators
  BY DEF Delete, Change
<1>2. iterators' = iterators \/ iterators' = Modified
  BY DEF Delete
<1>3. ASSUME NEW p \in 1 .. Len(list), list' = Without(list, p)
      PROVE  Live!Changes
  <2>1. Len(list) \in Nat /\ DOMAIN list = 1 .. Len(list)
    BY ListFacts DEF Inv
  <2>2. /\ DOMAIN list' = 1 .. Len(list) - 1
        /\ \A j \in 1 .. Len(list) - 1 : list'[j] = list[Skip(p, j)]
    BY <1>3, WithoutProperties, LenProperties DEF Inv, TablesInv
  <2>3. \A j \in 1 .. Len(list) - 1 : Skip(p, j) \in 1 .. Len(list) /\ Skip(p, j) # p
    BY <2>1, SkipProperties
  <2>4. \A i \in 1 .. Len(list) : list[i].entry = list[p].entry => i = p
    <3>. SUFFICES ASSUME NEW i \in 1 .. Len(list), list[i].entry = list[p].entry
                  PROVE  ~(i < p) /\ ~(p < i)
      BY <2>1
    <3>1. list[i].entry \in Nat
      BY ListFacts DEF Inv, Entries
    <3>2. \A a, b \in DOMAIN list : a < b => list[a].entry < list[b].entry
      BY DEF Inv, TablesInv, InStep
    <3>. QED
      BY <2>1, <3>1, <3>2
  <2>5. ListEntries' \subseteq ListEntries
    BY <2>1, <2>2, <2>3 DEF ListEntries
  <2>6. list[p].entry \in ListEntries /\ list[p].entry \notin ListEntries'
    BY <2>1, <2>2, <2>3, <2>4 DEF ListEntries
  <2>. QED
    BY <1>2, <2>5, <2>6, RemovalMapped
<1>. QED
  BY <1>1, <1>3, DeleteCases DEF Inv

LEMMA ClearMapped ==
  ASSUME Inv, Clear
  PROVE  Live!Changes
<1>1. list' = <<>> /\ iterators' = Modified
  BY DEF Clear, Change
<1>2. ListEntries' = {}
  BY <1>1 DEF ListEntries
<1>. QED
  BY <1>1, <1>2, RemovalMapped

(* Which states an iterator of a kind can be in: one that was never asked has *)
(* passed nothing and is not stale, and some kinds never close.               *)
NeverClose == {"mapEntries", "setEntries", "mapKeys"}
Life == \A it \in Iterators :
  /\ iterators[it].kind = "none" => iterators[it].state = "fresh"
  /\ iterators[it].kind \in NeverClose => iterators[it].state # "closed"
  /\ iterators[it].state = "fresh" =>
       iterators[it].position = 0 /\ iterators[it].last = 0 /\ ~iterators[it].stale

LEMMA ModifiedKeepsLife ==
  ASSUME Inv, Life, iterators' = iterators \/ iterators' = Modified
  PROVE  Life'
<1>. DEFINE M(it) == [iterators[it] EXCEPT !.stale = @ \/ iterators[it].state # "fresh"]
<1>. SUFFICES ASSUME iterators' = Modified, NEW it \in Iterators
              PROVE  /\ iterators'[it].kind = "none" => iterators'[it].state = "fresh"
                     /\ iterators'[it].kind \in NeverClose => iterators'[it].state # "closed"
                     /\ iterators'[it].state = "fresh" => /\ iterators'[it].position = 0
                                                          /\ iterators'[it].last = 0
                                                          /\ ~iterators'[it].stale
  BY DEF Life
<1>1. /\ iterators'[it].position = iterators[it].position /\ iterators'[it].last = iterators[it].last
      /\ iterators'[it].kind = iterators[it].kind /\ iterators'[it].state = iterators[it].state
  BY ModifiedSame DEF Inv, IteratorsInv
<1>2. iterators[it].state = "fresh" => ~iterators'[it].stale
  <2>1. iterators'[it] = M(it)
    BY DEF Modified
  <2>2. M(it).stale = (iterators[it].stale \/ iterators[it].state # "fresh")
    BY IteratorFacts DEF Inv, IteratorStates
  <2>3. iterators[it].state = "fresh" => ~iterators[it].stale
    BY DEF Life
  <2>. HIDE DEF M
  <2>. QED
    BY <2>1, <2>2, <2>3
<1>. QED
  BY <1>1, <1>2 DEF Life

LEMMA ReplacedKeepsLife ==
  ASSUME Inv, Life, NEW it \in Iterators, NEW new,
         iterators' = [iterators EXCEPT ![it] = new],
         new.kind # "none", new.kind \in NeverClose => new.state # "closed",
         new.state = "fresh" => new.position = 0 /\ new.last = 0 /\ ~new.stale
  PROVE  Life'
<1>1. \A x \in Iterators : iterators'[x] = IF x = it THEN new ELSE iterators[x]
  BY DEF Inv, IteratorsInv
<1>. QED
  BY <1>1 DEF Life

(* The step of an iterator that has begun. *)
LEMMA StepMapped ==
  ASSUME Inv, Life, Quiet, NEW it \in Iterators,
         iterators[it].kind # "none", iterators[it].state # "closed",
         \/ iterators[it].position < Len(list) /\ Yields(it)
         \/ /\ Closes(it) /\ iterators[it].kind \notin NeverClose
            /\ iterators[it].stale \/ ~(iterators[it].position < Len(list))
  PROVE  Life' /\ (Live!Passes(it) \/ Live!Ends(it))
<1>1. CASE iterators[it].position < Len(list) /\ Yields(it)
  <2>1. PICK new \in IteratorStates :
          /\ iterators' = [iterators EXCEPT ![it] = new]
          /\ new.kind = iterators[it].kind /\ new.state = "open"
    BY <1>1, YieldsForward
  <2>. QED
    BY <1>1, <2>1, ReplacedKeepsLife, PassesMapped
<1>2. CASE /\ Closes(it) /\ iterators[it].kind \notin NeverClose
           /\ iterators[it].stale \/ ~(iterators[it].position < Len(list))
  <2>1. PICK new \in IteratorStates :
          /\ iterators' = [iterators EXCEPT ![it] = new]
          /\ new.kind = iterators[it].kind /\ new.state = "closed"
    BY <1>2, ClosesOnly
  <2>. QED
    BY <1>2, <2>1, ReplacedKeepsLife, EndsMapped
<1>. QED
  BY <1>1, <1>2

LEMMA BeginMapped ==
  ASSUME Inv, Life, NEW it \in Iterators, NEW kind \in Kinds, Begin(it, kind)
  PROVE  Life' /\ UNCHANGED Live!vars
<1>. DEFINE new == Opened(kind)
<1>1. /\ iterators[it].kind = "none" /\ iterators' = [iterators EXCEPT ![it] = new]
      /\ list' = list
  BY DEF Begin, tables
<1>2. /\ new.kind = kind /\ kind # "none" /\ new.position = 0 /\ new.last = 0 /\ ~new.stale
      /\ new.state # "closed"
  BY DEF Opened, Fresh, Kinds, MapKinds, SetKinds
<1>. HIDE DEF new
<1>3. Life'
  BY <1>1, <1>2, ReplacedKeepsLife
<1>4. \A x \in Iterators : /\ iterators'[x].position = iterators[x].position
                           /\ iterators'[x].last = iterators[x].last
                           /\ iterators'[x].stale <=> iterators[x].stale
                           /\ iterators'[x].state = "closed" <=> iterators[x].state = "closed"
  BY <1>1, <1>2 DEF Life, Inv, IteratorsInv
<1>5. ListEntries' = ListEntries
  BY <1>1 DEF ListEntries
<1>6. \A x \in Iterators : Behind(x)' = Behind(x)
  BY <1>4, <1>5 DEF Behind
<1>. QED
  BY <1>3, <1>4, <1>5, <1>6 DEF Live!vars, Answered, Spare, Stale, Over

LEMMA SameMapped ==
  ASSUME Inv, Life, list' = list, iterators' = iterators
  PROVE  Life' /\ UNCHANGED Live!vars
BY DEF Life, Live!vars, Answered, Spare, Behind, Stale, Over, ListEntries

(* Every step of the collections is one of LiveIteration, or changes nothing  *)
(* that it speaks of.                                                         *)
LEMMA StepImplements ==
  ASSUME Inv, Life, [Next]_vars
  PROVE  Life' /\ [Live!Next]_Live!vars
<1>1. CASE Script
  <2>1. iterators' = iterators \/ iterators' = Modified
    BY <1>1 DEF Script, Clear, Add, Delete
  <2>2. Live!Changes \/ (list' = list /\ iterators' = iterators)
    BY <1>1, AdditionMapped, DeleteMapped, ClearMapped DEF Script
  <2>3. Life'
    BY <2>1, ModifiedKeepsLife
  <2>. QED
    BY <2>2, <2>3, SameMapped DEF Live!Next
<1>2. CASE StepForEach
  <2>. DEFINE it == Head(running)
  <2>1. it \in Iterators /\ Quiet /\ Size = Len(list)
    BY <1>2, RunningPopped, SizeIsLength DEF Inv, StepForEach
  <2>2. iterators[it].kind \in ForEachKinds /\ iterators[it].state = "open"
    BY <1>2, RunningPopped DEF Inv, RunningInv, RunningOpen, StepForEach
  <2>3. \/ iterators[it].position < Len(list) /\ Yields(it)
        \/ ~(iterators[it].position < Len(list)) /\ Closes(it)
    BY <1>2, <2>1 DEF StepForEach
  <2>. HIDE DEF it
  <2>4. iterators[it].kind # "none" /\ iterators[it].kind \notin NeverClose
    BY <2>2 DEF ForEachKinds, NeverClose
  <2>. QED
    BY <2>1, <2>2, <2>3, <2>4, StepMapped DEF Live!Next
<1>3. CASE CallbackThrows
  BY <1>3, SameMapped DEF CallbackThrows, Quiet, tables
<1>4. ASSUME NEW it \in Iterators, NEW kind \in Kinds, Begin(it, kind)
      PROVE  Life' /\ [Live!Next]_Live!vars
  BY <1>4, BeginMapped
<1>5. ASSUME NEW it \in Iterators,
             StepEntries(it) \/ StepSetValues(it) \/ StepMapKeys(it) \/ StepMapValues(it)
      PROVE  Life' /\ [Live!Next]_Live!vars
  <2>1. Quiet /\ Size = Len(list)
    BY <1>5, SizeIsLength DEF Inv, StepEntries, StepSetValues, StepMapKeys, StepMapValues
  <2>2. iterators[it].kind # "none" /\ iterators[it].state # "closed"
    BY <1>5 DEF StepEntries, StepSetValues, StepMapKeys, StepMapValues, Is, Life, NeverClose
  <2>3. \/ iterators[it].position < Len(list) /\ Yields(it)
        \/ /\ Closes(it) /\ iterators[it].kind \notin NeverClose
           /\ iterators[it].stale \/ ~(iterators[it].position < Len(list))
    BY <1>5, <2>1 DEF StepEntries, StepSetValues, StepMapKeys, StepMapValues, Is, NeverClose
  <2>. QED
    BY <2>1, <2>2, <2>3, StepMapped DEF Live!Next
<1>6. CASE UNCHANGED vars
  BY <1>6, SameMapped DEF vars, tables
<1>. QED
  BY <1>1, <1>2, <1>3, <1>4, <1>5, <1>6 DEF Next, Iterate

(* The iterators of maps and sets keep what LiveIteration promises: whatever  *)
(* is added and deleted while they run, each answers entries in the order of  *)
(* their addition, none twice, and misses no more than were deleted among     *)
(* those it had passed; one that is over stays over, and has reached the end  *)
(* or was stale (MapIteratorPrototype.cs:67-96, SetIteratorPrototype.cs:47-105, *)
(* MapInstance.cs:59-73, SetInstance.cs:56-71).                               *)
THEOREM LiveIterationImplemented == Spec => ImplementsLiveIteration
<1>1. Init => Life /\ Live!Init
  <2>. SUFFICES ASSUME Init PROVE Life /\ Live!Init
    OBVIOUS
  <2>1. \A it \in Iterators : iterators[it] = Fresh
    BY DEF Init
  <2>2. ListEntries = {}
    BY DEF Init, ListEntries
  <2>3. Life
    BY <2>1 DEF Life, Fresh, NeverClose
  <2>4. Stale = {} /\ Over = {} /\ Answered = [it \in Iterators |-> 0]
    BY <2>1 DEF Stale, Over, Answered, Fresh
  <2>5. Spare = [it \in Iterators |-> 0]
    <3>1. \A it \in Iterators : Behind(it) = {} /\ iterators[it].position = 0
      BY <2>1, <2>2 DEF Behind, Fresh
    <3>2. Cardinality({}) = 0
      BY FS_EmptySet
    <3>. QED
      BY <3>1, <3>2 DEF Spare
  <2>. QED
    BY <2>2, <2>3, <2>4, <2>5 DEF Live!Init
<1>2. Inv /\ Life /\ [Next]_vars => Life' /\ [Live!Next]_Live!vars
  BY StepImplements
<1>. QED
  BY <1>1, <1>2, Invariance, PTL DEF Spec, ImplementsLiveIteration, Live!Spec

=============================================================================
