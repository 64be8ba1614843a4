---------------------------- MODULE ArrayStorage ----------------------------
(* How a JavaScript array keeps its elements: Native/Array/ArrayInstance.cs.  *)
(*                                                                            *)
(* An ArrayInstance starts dense (_dense, a .NET array with spare capacity)   *)
(* and falls back to a dictionary (_sparse) when an index looks sparse. Reads *)
(* and writes take short cuts while CanUseFastAccess holds: no element ever   *)
(* was more than a plain value and the prototypes hold no indexed property.   *)
(* The operators below are the methods of ArrayInstance as functions of the   *)
(* array; the machine that calls them is in ArrayMethods.                     *)
EXTENDS Integers, Sequences, SequencesExt, FiniteSetsExt

CONSTANTS
  Numbers,        \* what scripts store, numbers so that sort orders them
  Undefined,
  Inherited,     \* the value of an element of Array.prototype
  NoElement,     \* a hole: null in _dense, an absent key of _sparse
  MaxDense,      \* MaxDenseArrayLength, 10 000 000 in the code
  Gap,           \* how far beyond the capacity an index looks sparse: 50
  MaxLength      \* no array of the model gets longer

ASSUME StorageAssumption ==
  /\ Numbers \subseteq Int
  /\ Inherited \in Int
  /\ {Undefined, Inherited, NoElement} \cap Numbers = {}
  /\ MaxDense \in Nat /\ Gap \in Nat /\ MaxLength \in Nat

Index == 0 .. MaxLength - 1

\* An element: a plain value or a PropertyDescriptor with these attributes.
Element(v) == [value |-> v, writable |-> TRUE, configurable |-> TRUE]
IsDefault(e) == e.writable /\ e.configurable

\* proto: the prototype chain is "intact", "indexed" when Array.prototype got
\* an element of its own at index 1, or "replaced" by an object without any.
Prototypes == {"intact", "indexed", "replaced"}
InheritedElement(a, i) ==
  IF a.proto = "indexed" /\ i = 1
  THEN [value |-> Inherited, writable |-> FALSE, configurable |-> FALSE] ELSE NoElement

\* special: ObjectChangeFlags.NonDefaultDataDescriptorUsage.
CanUseFastAccess(a) == ~a.special /\ a.proto = "intact"

\* The array `new Array(n)` creates, and `[]` for n = 0.
NewArray(n) ==
  [dense |-> n < MaxDense, capacity |-> IF n < MaxDense THEN n ELSE 0,
   elements |-> [i \in Index |-> NoElement], length |-> n, locked |-> FALSE,
   extensible |-> TRUE, special |-> FALSE, proto |-> "intact", named |-> FALSE]

Present(a, i) == i \in Index /\ a.elements[i] # NoElement
Keys(a) == {i \in Index : Present(a, i)}

-----------------------------------------------------------------------------
(* Reading *)

\* TryGetValue: own elements first, prototypes only without fast access.
TryGetValue(a, i) ==
  IF Present(a, i) THEN a.elements[i]
  ELSE IF CanUseFastAccess(a) THEN NoElement ELSE InheritedElement(a, i)

Get(a, i) == LET e == TryGetValue(a, i) IN IF e = NoElement THEN Undefined ELSE e.value

HasProperty(a, i) == Present(a, i) \/ InheritedElement(a, i) # NoElement

\* GetSmallestIndex lets methods skip the start of a small dictionary. Without
\* fast access it is the one of ObjectInstance, which looks for indexes among
\* the named properties, where arrays keep none.
GetSmallestIndex(fast, a) ==
  IF fast THEN IF a.dense \/ Keys(a) = {} THEN 0 ELSE Min(Keys(a))
  ELSE IF a.named THEN a.length ELSE 0

-----------------------------------------------------------------------------
(* Writing one element *)

NewSize(a, i) == IF i >= a.capacity THEN Max({i, a.capacity, 2}) * 2 ELSE 0

EnsureCapacity(a, n) ==
  IF a.dense /\ n <= MaxDense /\ n > a.capacity THEN [a EXCEPT !.capacity = n] ELSE a

LooksDense(a, i) == a.dense /\ (i < a.capacity \/
  (i < MaxDense /\ NewSize(a, i) < MaxDense /\ i < a.capacity + Gap))

WriteWithoutGrowing(a, i, e) == [a EXCEPT !.elements[i] = e]

\* WriteArrayValue: grow the dense array or turn to the dictionary.
WriteArrayValue(a, i, e) ==
  IF LooksDense(a, i)
  THEN [EnsureCapacity(a, NewSize(a, i)) EXCEPT !.elements[i] = e]
  ELSE [a EXCEPT !.dense = FALSE, !.capacity = 0, !.elements[i] = e]

\* A method's running state: the array, and whether it has thrown.
Ok(a) == [array |-> a, ok |-> TRUE]
Fail(a) == [array |-> a, ok |-> FALSE]

SetKeepingLength(a, i, v, updateLength) == Ok(WriteArrayValue(a, i, Element(v)))

\* SetIndexValue: the fast write, which looks neither at the old element nor
\* at Extensible; a length that cannot grow makes it throw.
SetIndexValue(a, i, v, updateLength) ==
  IF updateLength /\ i >= a.length
  THEN IF a.locked THEN Fail(a)
       ELSE Ok(WriteArrayValue([a EXCEPT !.length = i + 1], i, Element(v)))
  ELSE Ok(WriteArrayValue(a, i, Element(v)))

MayChangeReadOnly(old, new) == old.configurable \/ ~new.configurable

\* ValidateAndApplyPropertyDescriptor on an element that is there already.
MayChange(old, new) == old.configurable \/
  /\ ~new.configurable
  /\ old.writable \/ (~new.writable /\ new.value = old.value)

\* An element that is there gets a new descriptor; one that lies beyond the length
\* takes the length along.
Redefined(a, i, e) == [a EXCEPT !.elements[i] = e, !.length = Max({@, i + 1})]

DefineUntracked(a, i, e, plain) ==
  IF Present(a, i)
  THEN IF MayChange(a.elements[i], e) THEN Ok(Redefined(a, i, e)) ELSE Fail(a)
  ELSE IF ~a.extensible \/ (i >= a.length /\ a.locked) THEN Fail(a)
  ELSE Ok([WriteArrayValue(a, i, e) EXCEPT !.length = Max({@, i + 1})])

\* DefineOwnProperty of an element; TrackChanges comes first, whether or not
\* the definition is refused afterwards.
DefineElement(a, i, e, plain) ==
  LET t == [a EXCEPT !.special = @ \/ ~plain]
  IN IF i >= t.length /\ t.locked THEN Fail(t)
     ELSE IF Present(t, i)
     THEN IF MayChange(t.elements[i], e) THEN Ok(Redefined(t, i, e)) ELSE Fail(t)
     ELSE IF ~t.extensible THEN Fail(t)
     ELSE Ok([WriteArrayValue(t, i, e) EXCEPT !.length = Max({@, i + 1})])

\* ObjectInstance.Set, the slow path: an own element decides, then the
\* prototypes, then a new element is created.
SetSlowly(a, i, v) ==
  IF Present(a, i)
  THEN IF a.elements[i].writable
       THEN DefineElement(a, i, [a.elements[i] EXCEPT !.value = v], FALSE) ELSE Fail(a)
  ELSE IF InheritedElement(a, i) # NoElement THEN Fail(a)
  ELSE DefineElement(a, i, Element(v), TRUE)

\* a[i] = v: the short cuts of ArrayInstance.Set, then the slow path.
SetElement(a, i, v) ==
  LET plain == Present(a, i) /\ IsDefault(a.elements[i])
  IN IF ~a.extensible THEN SetSlowly(a, i, v)
     ELSE IF a.dense /\ CanUseFastAccess(a) /\ (plain \/ ~Present(a, i))
     THEN SetIndexValue(a, i, v, TRUE)
     ELSE IF plain THEN Ok([a EXCEPT !.elements[i].value = v])
     ELSE IF CanUseFastAccess(a) /\ ~Present(a, i) THEN SetIndexValue(a, i, v, TRUE)
     ELSE SetSlowly(a, i, v)

DeleteAnything(a, i) == Ok([a EXCEPT !.elements[i] = NoElement])
DeleteElement(a, i) ==
  IF ~Present(a, i) THEN Ok(a)
  ELSE IF a.elements[i].configurable THEN Ok([a EXCEPT !.elements[i] = NoElement])
  ELSE Fail(a)

-----------------------------------------------------------------------------
(* The length *)

\* The array without some elements.
Without(a, S) == [a EXCEPT !.elements = [i \in Index |-> IF i \in S THEN NoElement ELSE @[i]]]

\* The failing ways to shrink to n, by the order in which elements go: an
\* element that cannot be deleted stops the loop right behind itself. With
\* more room than elements to drop the code counts down; otherwise it walks
\* the dense array upwards, or the dictionary in an order nobody promises.
CountsDown(a, n) == (IF a.dense THEN a.capacity ELSE Cardinality(Keys(a))) >= a.length - n
StoppedBefore(a, n) ==
  LET fixed == {i \in Keys(a) : i >= n /\ i < a.length /\ ~a.elements[i].configurable}
  IN {Fail([Without(a, {j \in Index : j > i}) EXCEPT !.length = i]) : i \in fixed}
Stopped(a, n) ==
  LET dropped == {i \in Keys(a) : i >= n /\ i < a.length}
      fixed == {i \in dropped : ~a.elements[i].configurable}
      stop(i, gone) == Fail([Without(a, gone) EXCEPT !.length = i + 1])
  IN IF fixed = {} THEN {}
     ELSE IF CountsDown(a, n)
     THEN {stop(Max(fixed), {i \in dropped : i > Max(fixed)})}
     ELSE IF a.dense THEN {stop(Min(fixed), {i \in dropped : i < Min(fixed)})}
     ELSE {stop(i, gone) : i \in fixed, gone \in SUBSET (dropped \ fixed)}

Truncated(a, n) ==
  IF n >= a.length THEN {Ok([a EXCEPT !.length = n])}
  ELSE IF Stopped(a, n) # {} THEN Stopped(a, n)
  ELSE {Ok([Without(a, {i \in Index : i >= n /\ i < a.length}) EXCEPT !.length = n])}

\* DefineOwnProperty of "length" with value n, and writable: false if it is to be
\* locked: the outcomes. It is locked also when the shrinking has stopped.
DefineLength(a, n, lock) ==
  IF a.locked THEN {IF n = a.length THEN Ok(a) ELSE Fail(a)}
  ELSE {[s EXCEPT !.array.locked = lock] : s \in Truncated(a, n)}

\* a.length = n: ObjectInstance.Set asks first whether the length is writable.
AssignLength(a, n) == IF a.locked THEN {Fail(a)} ELSE DefineLength(a, n, FALSE)

\* SetLength, as methods with fast access call it: no element is deleted.
SetLength(a, n) ==
  IF a.extensible /\ ~a.locked THEN {Ok([a EXCEPT !.length = n])} ELSE AssignLength(a, n)

-----------------------------------------------------------------------------
(* Integrity levels *)

PreventExtensions(a) == [a EXCEPT !.extensible = FALSE]

\* Object.freeze visits the keys GetOwnPropertyKeys lists, then the length. An
\* element beyond a locked length cannot be redefined and ends it half-way.
OwnKeys(a) == {i \in Keys(a) : ~a.dense \/ (i < a.capacity /\ i < a.length)}
Frozen(a, S) ==
  [a EXCEPT !.extensible = FALSE, !.special = @ \/ S # {},
            !.length = Max({@} \cup {i + 1 : i \in S}),
            !.elements = [i \in Index |-> IF i \in S
                            THEN [@[i] EXCEPT !.writable = FALSE, !.configurable = FALSE] ELSE @[i]]]
Freeze(a) ==
  LET beyond == {i \in OwnKeys(a) : i >= a.length}
  IN IF a.locked /\ beyond # {}
     THEN {Fail([Frozen(a, S) EXCEPT !.special = TRUE]) : S \in SUBSET (OwnKeys(a) \ beyond)}
     ELSE {Ok([Frozen(a, OwnKeys(a)) EXCEPT !.locked = TRUE])}
=============================================================================
