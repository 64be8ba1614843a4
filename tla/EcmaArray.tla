------------------------------ MODULE EcmaArray ------------------------------
(* What ECMAScript says of arrays, the reference for ArrayStorage and         *)
(* ArrayMethods: an array is its elements, its length, whether the length is  *)
(* locked and whether it is extensible; of how it is stored nothing is known. *)
(* Methods are given by what they make of the sequence of an array's values,  *)
(* holes included.                                                            *)
EXTENDS Integers, Sequences, FiniteSets, SequencesExt

CONSTANTS Undefined, NoElement

Done(v) == [view |-> v, ok |-> TRUE]
Refused(v) == [view |-> v, ok |-> FALSE]

Default(x) == [value |-> x, writable |-> TRUE, configurable |-> TRUE]
HasOwn(v, i) == v.elements[i] # NoElement

\* ArrayDefineOwnProperty of a full data descriptor (10.4.2.1).
Define(v, i, e) ==
  LET old == v.elements[i]
      allowed == IF HasOwn(v, i)
                 THEN old.configurable \/ (~e.configurable /\ (old.writable \/ e = old))
                 ELSE v.extensible /\ (i < v.length \/ ~v.locked)
  IN IF ~allowed THEN Refused(v)
     ELSE Done([v EXCEPT !.elements[i] = e, !.length = IF i < @ THEN @ ELSE i + 1])

\* OrdinarySet (10.1.9) with the prototype's element, if any.
Put(v, inherited, i, x) ==
  IF HasOwn(v, i)
  THEN IF v.elements[i].writable THEN Done([v EXCEPT !.elements[i].value = x]) ELSE Refused(v)
  ELSE IF inherited # NoElement /\ ~inherited.writable THEN Refused(v)
  ELSE Define(v, i, Default(x))

Delete(v, i) ==
  IF ~HasOwn(v, i) THEN Done(v)
  ELSE IF v.elements[i].configurable THEN Done([v EXCEPT !.elements[i] = NoElement])
  ELSE Refused(v)

\* ArraySetLength (10.4.2.4) of a descriptor with value n, and writable: false if
\* it locks the length: elements go from the end of the array, and the first that
\* cannot be deleted keeps all before it.
ArraySetLength(v, n, lock) ==
  LET stays == {i \in DOMAIN v.elements :
                  i >= n /\ i < v.length /\ HasOwn(v, i) /\ ~v.elements[i].configurable}
      end == IF stays = {} THEN n ELSE 1 + CHOOSE i \in stays : \A j \in stays : j <= i
  IN IF v.locked THEN IF n = v.length THEN Done(v) ELSE Refused(v)
     ELSE [view |-> [v EXCEPT !.length = end, !.locked = lock,
                              !.elements = [i \in DOMAIN @ |->
                                              IF i >= end /\ i < v.length THEN NoElement ELSE @[i]]],
           ok |-> stays = {}]
PutLength(v, n) == IF v.locked THEN Refused(v) ELSE ArraySetLength(v, n, FALSE)

-----------------------------------------------------------------------------
(* Methods on the values of an array, a sequence with NoElement for holes *)

ValuesOf(v) == [k \in 1 .. v.length |-> IF HasOwn(v, k - 1) THEN v.elements[k - 1].value ELSE NoElement]

Clamp(k, len) == IF k > len THEN len ELSE k
Push(s, items) == s \o items
Pop(s) == IF s = <<>> THEN s ELSE Front(s)
Shift(s) == IF s = <<>> THEN s ELSE Tail(s)
Unshift(s, items) == items \o s
Fill(s, x, from, to) == [k \in DOMAIN s |-> IF from < k /\ k <= to THEN x ELSE s[k]]
CopyWithin(s, to, from, end) ==
  LET copied == SubSeq(s, from + 1, Clamp(end, from + Len(s) - to))
  IN [k \in DOMAIN s |-> IF k > to /\ k <= to + Len(copied) THEN copied[k - to] ELSE s[k]]
Slice(s, from, to) == SubSeq(s, from + 1, to)
Splice(s, from, count, items) == SubSeq(s, 1, from) \o items \o SubSeq(s, from + count + 1, Len(s))

\* Numbers in order, undefined behind them, holes last.
Rank(x) == CASE x = NoElement -> 2 [] x = Undefined -> 1 [] OTHER -> 0
Before(x, y) == Rank(x) < Rank(y) \/ (Rank(x) = 0 /\ Rank(y) = 0 /\ x < y)
Count(s, x) == Cardinality({k \in DOMAIN s : s[k] = x})
Sorts(s, t) ==
  /\ \A k \in DOMAIN t : k = 1 \/ ~Before(t[k], t[k - 1])
  /\ Len(s) = Len(t) /\ \A x \in Range(s) : Count(s, x) = Count(t, x)

\* The smallest index whose element is the value sought, or -1.
IndexOf(s, x) ==
  IF \E k \in DOMAIN s : s[k] = x
  THEN (CHOOSE k \in DOMAIN s : s[k] = x /\ \A j \in 1 .. k - 1 : s[j] # x) - 1 ELSE -1
=============================================================================
