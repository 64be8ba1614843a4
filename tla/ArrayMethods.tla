---------------------------- MODULE ArrayMethods ----------------------------
(* The methods of Array.prototype and the scripts that call them              *)
(* (Native/Array/ArrayPrototype.cs, ArrayOperations.cs).                      *)
(*                                                                            *)
(* A method asks once, through ArrayOperations.For, whether the array has     *)
(* fast access, and works on it with the operations it got. Some call user    *)
(* code after that (a compare function, the valueOf of an argument, a species *)
(* constructor): such a call is two steps of the machine, and scripts do      *)
(* what they like with the array in between.                                  *)
EXTENDS ArrayStorage, TLC

CONSTANTS NoCall, MaxOps

VARIABLES
  array,   \* the array a script works on
  call,    \* the method that waits for user code, or NoCall
  ops      \* how many operations scripts have begun
vars == <<array, call, ops>>

-----------------------------------------------------------------------------
(* Operations, with and without fast access *)

Found(fast, a, i) == IF fast THEN TryGetValue(a, i) # NoElement ELSE HasProperty(a, i)

Put(fast, a, i, v, updateLength, throws) ==
  IF fast THEN SetIndexValue(a, i, v, updateLength)
  ELSE LET s == SetElement(a, i, v) IN IF throws THEN s ELSE Ok(s.array)

Finish(fast, s, n) ==
  IF ~s.ok THEN {s} ELSE IF fast THEN SetLength(s.array, n) ELSE AssignLength(s.array, n)

\* A loop over the indexes of a sequence, which an exception ends.
Each(op(_, _), a, indexes) ==
  FoldLeft(LAMBDA s, k : IF s.ok THEN op(s.array, k) ELSE s, Ok(a), indexes)
Up(from, to) == [k \in 1 .. (IF to < from THEN 0 ELSE to - from + 1) |-> from + k - 1]
Down(from, to) == [k \in 1 .. (IF from < to THEN 0 ELSE from - to + 1) |-> from - k + 1]
Then(s, op(_)) == IF s.ok THEN op(s.array) ELSE s

MoveOnlyPresent(fast, a, present, from, to, updateLength, throws) ==
  IF present THEN Put(fast, a, to, Get(a, from), updateLength, throws) ELSE Ok(a)
MoveElement(fast, a, present, from, to, updateLength, throws) ==
  IF present THEN Put(fast, a, to, Get(a, from), updateLength, throws) ELSE DeleteElement(a, to)

-----------------------------------------------------------------------------
(* Methods, as the outcomes they may have *)

\* ArrayInstance.Push when the array has fast access, else the generic push.
Push(a, items) ==
  LET n == a.length + Len(items)
      grown == IF a.length # 0 /\ Len(items) > 2 * a.length THEN EnsureCapacity(a, n) ELSE a
      write(b, k) == Ok(WriteArrayValue(b, a.length + k - 1, Element(items[k])))
      put(b, k) == Put(FALSE, b, a.length + k - 1, items[k], TRUE, TRUE)
      written == Each(write, grown, Up(1, Len(items)))
  IN IF CanUseFastAccess(a)
     THEN IF a.locked THEN {Fail(written.array)} ELSE {Ok([written.array EXCEPT !.length = n])}
     ELSE Finish(FALSE, Each(put, a, Up(1, Len(items))), n)

Pop(fast, a) ==
  IF a.length = 0 THEN Finish(fast, Ok(a), 0)
  ELSE Finish(fast, DeleteElement(a, a.length - 1), a.length - 1)

Shift(fast, a) ==
  LET move(b, k) == MoveElement(fast, b, Found(fast, b, k), k, k - 1, FALSE, FALSE)
      drop(b) == DeleteElement(b, a.length - 1)
  IN IF a.length = 0 THEN Finish(fast, Ok(a), 0)
     ELSE Finish(fast, Then(Each(move, a, Up(1, a.length - 1)), drop), a.length - 1)

Unshift(fast, a, items) ==
  LET count == Len(items)
      roomy == IF fast THEN EnsureCapacity(a, a.length + count) ELSE a
      move(b, k) == MoveElement(fast, b, Found(fast, b, k - 1), k - 1, k + count - 1, FALSE, TRUE)
      put(b, k) == Put(fast, b, k - 1, items[k], FALSE, TRUE)
      moved == Each(move, roomy, Down(a.length, GetSmallestIndex(fast, a) + 1))
  IN Finish(fast, Then(moved, LAMBDA b : Each(put, b, Up(1, count))), a.length + count)

ReverseInPlace(fast, a) ==
  LET swap(b, lower) ==
        LET upper == a.length - lower - 1
            low == HasProperty(b, lower)
            high == HasProperty(b, upper)
        IN CASE low /\ high -> Then(Put(fast, b, lower, Get(b, upper), FALSE, TRUE),
                                    LAMBDA c : Put(fast, c, upper, Get(b, lower), FALSE, TRUE))
             [] ~low /\ high -> Then(Put(fast, b, lower, Get(b, upper), FALSE, TRUE),
                                     LAMBDA c : DeleteElement(c, upper))
             [] low /\ ~high -> Then(DeleteElement(b, lower),
                                     LAMBDA c : Put(fast, c, upper, Get(b, lower), FALSE, TRUE))
             [] OTHER -> Ok(b)
  IN {Each(swap, a, Up(0, a.length \div 2 - 1))}

Fill(fast, a, v, from, end) ==
  {Each(LAMBDA b, k : Put(fast, b, k, v, FALSE, FALSE), a, Up(from, end - 1))}

CopyWithin(fast, a, to, from, count) ==
  LET copy(b, k) == MoveElement(fast, b, HasProperty(b, from + k), from + k, to + k, TRUE, TRUE)
  IN {Each(copy, a, IF from < to /\ to < from + count THEN Down(count - 1, 0) ELSE Up(0, count - 1))}

Splice(fast, a, len, start, count, items) ==
  LET added == Len(items)
      roomy == IF fast THEN EnsureCapacity(a, len - count + added) ELSE a
      move(b, k, throws) ==
        MoveElement(fast, b, HasProperty(b, k + count), k + count, k + added, FALSE, throws)
      closed == Then(Each(LAMBDA b, k : move(b, k, FALSE), roomy, Up(start, len - count - 1)),
                     LAMBDA b : Each(DeleteElement, b, Down(len - 1, len - count + added)))
      opened == Each(LAMBDA b, k : move(b, k, TRUE), roomy, Down(len - count - 1, start))
      moved == IF added < count THEN closed ELSE IF added > count THEN opened ELSE Ok(roomy)
      put(b, k) == Put(fast, b, start + k - 1, items[k], FALSE, TRUE)
  IN Finish(fast, Then(moved, LAMBDA b : Each(put, b, Up(1, added))), len - count + added)

\* Sort collects what it finds, sorts that, and writes it back over the array.
Collected(fast, a) ==
  FoldLeft(LAMBDA s, k : IF Found(fast, a, k) THEN Append(s, Get(a, k)) ELSE s,
           <<>>, Up(0, a.length - 1))
Less(x, y) == x # Undefined /\ (y = Undefined \/ x < y)
WriteSorted(fast, a, len, items) ==
  LET sorted == SortSeq(items, Less)
      put(b, k) == Put(fast, b, k - 1, sorted[k], k = Len(items), TRUE)
  IN {Then(Each(put, a, Up(1, Len(items))), LAMBDA b : Each(DeleteElement, b, Up(Len(items), len - 1)))}

CopyFromStart(target, source, from, to, length) ==
  LET t == EnsureCapacity(target, to + source.capacity)
  IN Each(LAMBDA b, k : SetIndexValue(b, to + k, Get(source, k), FALSE), t, Up(0, length - 1)).array

\* CopyValues, the short cut of slice and concat from array to array.
CopyValues(target, source, from, to, length) ==
  LET t == IF source.dense THEN EnsureCapacity(target, to + source.capacity) ELSE target
      direct == t.dense /\ source.dense /\ t.capacity >= to + length /\ ~Present(t, to)
      copy(b, k) == Ok([b EXCEPT !.elements[to + k] = Element(Get(source, from + k))])
      set(b, k) == IF TryGetValue(source, k) = NoElement THEN Ok(b)
                   ELSE SetIndexValue(b, to + k - from, Get(source, k), FALSE)
  IN IF length = 0 THEN target
     ELSE IF direct THEN Each(copy, t, Up(0, length - 1)).array
     ELSE Each(set, t, Up(from, length - 1)).array

Slice(a, from, end) == CopyValues(NewArray(end - from), a, from, 0, end - from)

Concat(a, b) ==
  LET first == CopyValues(NewArray(0), a, 0, 0, a.length)
  IN [CopyValues(first, b, 0, a.length, b.length) EXCEPT !.length = a.length + b.length]

IndexOf(a, v) ==
  LET fast == CanUseFastAccess(a)
      hits == {k \in GetSmallestIndex(fast, a) .. a.length - 1 : HasProperty(a, k) /\ Get(a, k) = v}
  IN IF hits = {} THEN -1 ELSE Min(hits)

-----------------------------------------------------------------------------
(* The machine *)

Step == ops < MaxOps /\ ops' = ops + 1 /\ UNCHANGED call
Becomes(outcomes) == \E s \in outcomes : array' = s.array

Assign == Step /\ \E i \in Index, v \in Numbers : Becomes({SetElement(array, i, v)})
Define == Step /\ \E i \in Index, w, c \in BOOLEAN :
  Becomes({DefineElement(array, i, [value |-> 1, writable |-> w, configurable |-> c], FALSE)})
RemoveElement == Step /\ \E i \in Index : Becomes({DeleteElement(array, i)})
ChangeLength == Step /\ \E n \in 0 .. MaxLength :
  Becomes(AssignLength(array, n)) \/ \E lock \in BOOLEAN : Becomes(DefineLength(array, n, lock))
LockLength == Step /\ array' = [array EXCEPT !.locked = TRUE]
MakeInextensible == Step /\ array' = PreventExtensions(array)
FreezeArray == Step /\ Becomes(Freeze(array))
ChangePrototype == Step /\ \E p \in Prototypes \ {"intact"} :
  /\ array.proto = "intact" /\ (p = "replaced" => array.extensible)
  /\ array' = [array EXCEPT !.proto = p]
NameProperty == Step /\ array.extensible /\ array' = [array EXCEPT !.named = TRUE]

Fits(n) == array.length + n <= MaxLength
CallPush == Step /\ \E items \in {<<1>>, <<1, 2>>} : Fits(Len(items)) /\ Becomes(Push(array, items))
CallUnshift == Step /\ \E items \in {<<1>>, <<1, 2>>} :
  Fits(Len(items)) /\ Becomes(Unshift(CanUseFastAccess(array), array, items))
CallPop == Step /\ Becomes(Pop(CanUseFastAccess(array), array))
CallShift == Step /\ Becomes(Shift(CanUseFastAccess(array), array))
CallReverse == Step /\ Becomes(ReverseInPlace(CanUseFastAccess(array), array))

\* A method has asked for fast access and the length, and calls user code.
Begin(method, arguments) ==
  /\ call = NoCall /\ ops < MaxOps /\ ops' = ops + 1
  /\ call' = [method |-> method, fast |-> CanUseFastAccess(array), len |-> array.length] @@ arguments
  /\ UNCHANGED array
BeginSort == array.length > 1 /\
  Begin("sort", [items |-> Collected(CanUseFastAccess(array), array)])
BeginFill == \E from \in {0, 1} : from <= array.length /\
  Begin("fill", [value |-> 1, from |-> from])
BeginCopyWithin == \E to \in {0, 1} : array.length > 0 /\
  Begin("copyWithin", [to |-> to, from |-> 1 - to, count |-> array.length - 1])
BeginSplice == \E start \in {0, 1}, count \in {0, 1}, items \in {<<>>, <<1>>} :
  start + count <= array.length /\ Fits(Len(items) - count) /\
  Begin("splice", [start |-> start, count |-> count, items |-> items])

\* User code has returned, and the method goes on with what it had asked.
Resume ==
  /\ call # NoCall /\ call' = NoCall /\ UNCHANGED ops
  /\ CASE call.method = "sort" -> Becomes(WriteSorted(call.fast, array, call.len, call.items))
       [] call.method = "fill" -> Becomes(Fill(call.fast, array, call.value, call.from, call.len))
       [] call.method = "copyWithin" ->
            Becomes(CopyWithin(call.fast, array, call.to, call.from, call.count))
       [] call.method = "splice" ->
            Becomes(Splice(call.fast, array, call.len, call.start, call.count, call.items))

\* User code throws, and the method with it.
Abandon == call # NoCall /\ call' = NoCall /\ UNCHANGED <<array, ops>>

\* An array literal has one element per value, holes included.
Literal(s) == [NewArray(Len(s)) EXCEPT !.elements = [i \in Index |->
                 IF i < Len(s) /\ s[i + 1] # NoElement THEN Element(s[i + 1]) ELSE NoElement]]
Literals == {<<2, 1>>, <<1, NoElement, 2>>}

Init ==
  /\ array \in {NewArray(n) : n \in {0, MaxDense}} \cup {Literal(s) : s \in Literals}
  /\ call = NoCall
  /\ ops = 0

Next ==
  \/ Assign \/ Define \/ RemoveElement \/ ChangeLength \/ LockLength \/ MakeInextensible \/ FreezeArray
  \/ ChangePrototype \/ NameProperty
  \/ CallPush \/ CallUnshift \/ CallPop \/ CallShift \/ CallReverse
  \/ BeginSort \/ BeginFill \/ BeginCopyWithin \/ BeginSplice \/ Resume \/ Abandon

Spec == Init /\ [][Next]_vars
=============================================================================
