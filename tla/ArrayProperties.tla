--------------------------- MODULE ArrayProperties ---------------------------
(* What should hold of arrays; see ArrayStorage and ArrayMethods.             *)
EXTENDS ArrayMethods

Ecma == INSTANCE EcmaArray

\* What a script can see of an array.
View(a) == [elements |-> a.elements, length |-> a.length, locked |-> a.locked,
            extensible |-> a.extensible]
Seen(a) == Ecma!ValuesOf(View(a))
Agrees(s, e) == s.ok = e.ok /\ View(s.array) = e.view

Covered(a) == \A i \in Keys(a) : i < a.length
Plain(a) == ~a.locked /\ a.extensible /\ a.proto # "indexed" /\ Covered(a)
            /\ \A i \in Keys(a) : IsDefault(a.elements[i])
HasHoles(a) == \E i \in 0 .. a.length - 1 : ~Present(a, i)

Attributes == [value : Numbers \cup {Undefined, Inherited}, writable : BOOLEAN, configurable : BOOLEAN]

\* Every variable has its type, and a dense array holds what it has room for.
TypeOK ==
  /\ array.dense \in BOOLEAN /\ array.capacity \in 0 .. MaxDense /\ array.length \in 0 .. MaxLength
  /\ {array.locked, array.extensible, array.special, array.named} \subseteq BOOLEAN
  /\ array.proto \in Prototypes
  /\ \A i \in Index : array.elements[i] \in Attributes \cup {NoElement}
  /\ IF array.dense THEN \A i \in Keys(array) : i < array.capacity ELSE array.capacity = 0
  /\ call # NoCall => call.method \in {"sort", "fill", "copyWithin", "splice"}
  /\ ops \in 0 .. MaxOps

\* Fast access is safe: while it holds, every element is a plain value that
\* reads and writes may take directly, and no prototype has an element
\* (CanUseFastAccess against TrackChanges, ArrayInstance.cs:101-132, 557-573).
FastAccessSound == CanUseFastAccess(array) =>
  \A i \in Index : /\ Present(array, i) => IsDefault(array.elements[i])
                   /\ InheritedElement(array, i) = NoElement

ElementsAgree == \A i \in Index :
  /\ \A v \in Numbers : Agrees(SetElement(array, i, v),
                              Ecma!Put(View(array), InheritedElement(array, i), i, v))
  /\ \A v \in Numbers, w, c \in BOOLEAN :
       LET e == [value |-> v, writable |-> w, configurable |-> c]
       IN Agrees(DefineElement(array, i, e, FALSE), Ecma!Define(View(array), i, e))
  /\ Agrees(DeleteElement(array, i), Ecma!Delete(View(array), i))
LengthAgrees == \A n \in 0 .. MaxLength :
  LET Conform(outcomes, e) == \A s \in outcomes : Agrees(s, e) \/
        (~s.ok /\ ~e.ok /\ s.array.locked = e.view.locked /\ ~CountsDown(array, n))
  IN /\ Conform(AssignLength(array, n), Ecma!PutLength(View(array), n))
     /\ \A lock \in BOOLEAN :
          Conform(DefineLength(array, n, lock), Ecma!ArraySetLength(View(array), n, lock))

\* Assigning, defining and deleting an element, assigning the length and defining
\* it, locked or not, do what ECMAScript says, whichever short cut they take and
\* however the array is stored, except that an element that cannot be deleted may stop a walk that
\* does not count down at another place; the failure is reported even then.
StorageConforms == Covered(array) => ElementsAgree /\ LengthAgrees

Outcomes(a, expected) == {<<s.ok, Seen(s.array)>> : s \in a} = {<<TRUE, expected>>}
Offsets == 0 .. array.length
Items == {<<>>, <<1>>, <<1, 2>>}

ValuesMean ==
  LET fast == CanUseFastAccess(array)
      s == Seen(array)
  IN /\ Outcomes(Pop(fast, array), Ecma!Pop(s))
     /\ Outcomes(Shift(fast, array), Ecma!Shift(s))
     /\ Outcomes(ReverseInPlace(fast, array), Reverse(s))
     /\ \A items \in Items : Fits(Len(items)) =>
          /\ Outcomes(Push(array, items), Ecma!Push(s, items))
          /\ GetSmallestIndex(fast, array) = 0 =>
               Outcomes(Unshift(fast, array, items), Ecma!Unshift(s, items))
     /\ \A from, to \in Offsets : from <= to =>
          /\ Outcomes(Fill(fast, array, 1, from, to), Ecma!Fill(s, 1, from, to))
          /\ \A items \in Items : Fits(Len(items) - (to - from)) =>
               Outcomes(Splice(fast, array, array.length, from, to - from, items),
                        Ecma!Splice(s, from, to - from, items))
          /\ \A k \in Offsets :
               Outcomes(CopyWithin(fast, array, k, from, Min({to - from, array.length - k})),
                        Ecma!CopyWithin(s, k, from, to))
     /\ \A t \in WriteSorted(fast, array, array.length, Collected(fast, array)) :
          t.ok /\ Ecma!Sorts(s, Seen(t.array))
     /\ (\A i \in Keys(array) : i >= GetSmallestIndex(fast, array)) =>
          \A v \in Numbers : IndexOf(array, v) = Ecma!IndexOf(s, v)

CopiesMean ==
  /\ \A from, to \in Offsets : from <= to /\ (array.dense => ~HasHoles(array)) /\ (from = 0 \/ array.dense)
       => Seen(Slice(array, from, to)) = Ecma!Slice(Seen(array), from, to)
  /\ \A s \in Literals : LET b == Literal(s)
     IN Fits(Len(s)) /\ (array.dense => ~HasHoles(array)) /\ ~HasHoles(b) =>
          Seen(Concat(array, b)) = Seen(array) \o s

\* On an array of plain values, dense or sparse, with fast access or without,
\* the methods that change it leave the sequence of values they should, those
\* that copy it return the values of their sources, and indexOf finds the first
\* element that equals its argument. Left out are what is known to fail: unshift
\* and indexOf where GetSmallestIndex makes them skip elements, and CopyValues
\* where direct copies fill holes and other copies start too late.
MethodsMean == Plain(array) => ValuesMean /\ CopiesMean

Kept(a, b) ==
  /\ \A i \in Keys(a) : ~a.elements[i].configurable =>
       Present(b, i) /\ ~b.elements[i].configurable /\
       (~a.elements[i].writable => b.elements[i] = a.elements[i])
  /\ a.locked => b.locked /\ b.length = a.length
  /\ ~a.extensible => ~b.extensible /\ Keys(b) \subseteq Keys(a)
Unguarded(a) == ~a.extensible /\ CanUseFastAccess(a)
StaleAccess == call # NoCall /\ call.fast /\ (~array.extensible \/ ~CanUseFastAccess(array))
Coverable ==
  /\ Covered(array) /\ ~array.locked
  /\ \A i \in Keys(array) : array.elements[i].configurable
  /\ ~(call # NoCall /\ call.method \in {"fill", "splice"} /\ call.fast /\ call.len # array.length)

\* What methods may never spoil, whatever user code does in the middle of them.
\* Frozen elements, locked lengths and inextensible arrays stay what they are,
\* except through fast access, which does not look at Extensible (Unguarded),
\* and through a method that goes on with a fast access the array has lost
\* meanwhile (StaleAccess). And no method that is interrupted, refused or
\* stopped leaves an element beyond the length, except (Coverable) a shrinking
\* length that meets a fixed element, a fast push on a locked length, and a fast
\* fill or splice after user code has changed the length.
NothingSpoiled == [][
  /\ Kept(array, array') \/ Unguarded(array) \/ StaleAccess
  /\ Coverable => Covered(array')]_vars
=============================================================================
