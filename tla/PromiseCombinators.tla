-------------------------- MODULE PromiseCombinators --------------------------
(***************************************************************************)
(* One call of Promise.all, allSettled, any or race (PromiseConstructor).  *)
(*                                                                         *)
(* The constructor is %Promise% itself, so the functions of the capability *)
(* are those of CreateResolvingFunctions: the first call counts and none   *)
(* throws.  Everything else the loop calls is user code: next, done, value,*)
(* Promise.resolve, the getter of then, then, and the iterator's return.   *)
(* While user code runs, and ever after, it may call the functions that    *)
(* were handed to a then, in any order and as often as it likes.  Adopting *)
(* a thenable that resolves the capability is in PromiseJobs.              *)
(***************************************************************************)
EXTENDS Integers, Sequences

CONSTANTS
  Kinds,     \* the combinators of this instance
  Values,    \* values and errors of user code
  None,      \* the null of results, and of a capability nobody has used
  TypeError, \* what the engine itself throws
  MaxItems   \* bound: entries of results

ASSUME KindsAssumption == Kinds \subseteq {"all", "allSettled", "any", "race"}
ASSUME BoundAssumption == MaxItems \in Nat

VARIABLES
  kind,           \* which combinator was called
  pc,             \* the user code the call waits for, or how it has ended
  results,        \* results of all and allSettled, errors of any
  index,          \* counts the elements whose then has returned
  doneIterating,
  elements,       \* per element, what its closures share
  outcome,        \* what the capability was first called with
  thrown,         \* the exception the outer catch holds while return runs
  answers,        \* history: what each element answered first
  iteration,      \* history: the iterator is not there yet, open, at its end,
                  \* or has thrown
  closed,         \* history: the iterator was asked to return
  skipped         \* history: any has passed over an exception of next

vars == <<kind, pc, results, index, doneIterating, elements, outcome, thrown,
          answers, iteration, closed, skipped>>

Errors == Values \cup {TypeError}
Fulfilled(v) == [how |-> "fulfilled", with |-> v]
Rejected(v) == [how |-> "rejected", with |-> v]
Answers == [how : {"fulfilled", "rejected"}, with : Errors]

ASSUME NoneAssumption ==
  /\ None \notin Errors
  /\ None \notin Answers
  /\ None \notin [how : {"fulfilled", "rejected"}, with : Seq(Answers \cup {None})]

\* The calls of the capability: only the first one counts.
Settled(o) == IF outcome = None THEN o ELSE outcome
Reject(e) == outcome' = Settled(Rejected(e))

\* The answers that settle the combined promise themselves: all and any hand the
\* capability's own reject or resolve to then, and race both.
Decides(a) ==
  \/ kind = "race"
  \/ kind = "all" /\ a.how = "rejected"
  \/ kind = "any" /\ a.how = "fulfilled"

\* What a full list gives: an array, or the AggregateError of any.
Collected(list) == IF kind = "any" THEN Rejected(list) ELSE Fulfilled(list)
IsFull(list) == \A i \in 1 .. Len(list) : list[i] # None

\* ResolveIfFinished of all and allSettled, RejectIfAllRejected of any.
ResolveIfFinished(list, done) ==
  outcome' = IF kind # "race" /\ done /\ IsFull(list)
             THEN Settled(Collected(list)) ELSE outcome

Init ==
  /\ kind \in Kinds
  /\ pc = "start"
  /\ results = <<>> /\ index = 0 /\ doneIterating = FALSE
  /\ elements = <<>>
  /\ outcome = None
  /\ thrown = None
  /\ answers = <<>>
  /\ iteration = "none"
  /\ closed = FALSE
  /\ skipped = FALSE

-----------------------------------------------------------------------------
(* Before the loop: TryGetPromiseCapabilityAndIterator *)

listVars == <<results, index, elements, answers>>
iterVars == <<iteration, closed, skipped>>

\* The receiver is no constructor: the call throws and there is no promise.
BadReceiver ==
  /\ pc = "start"
  /\ pc' = "threw"
  /\ UNCHANGED <<kind, listVars, doneIterating, outcome, thrown, iterVars>>

\* Promise.resolve cannot be read or called, or the argument gives no iterator.
CannotBegin(e) ==
  /\ pc = "start"
  /\ Reject(e)
  /\ pc' = "returned"
  /\ UNCHANGED <<kind, listVars, doneIterating, thrown, iterVars>>

Begin ==
  /\ pc = "start"
  /\ pc' = "next"
  /\ iteration' = "open"
  /\ UNCHANGED <<kind, listVars, doneIterating, outcome, thrown, closed, skipped>>

-----------------------------------------------------------------------------
(* One round of the loop *)

\* Bug variant: elements that answered before the end are not looked at.
IteratorEndsQuietly ==
  /\ pc = "next"
  /\ doneIterating' = TRUE
  /\ iteration' = "ended"
  /\ pc' = "returned"
  /\ UNCHANGED <<kind, listVars, outcome, thrown, closed, skipped>>

IteratorEnds ==
  /\ pc = "next"
  /\ doneIterating' = TRUE
  /\ ResolveIfFinished(results, TRUE)
  /\ iteration' = "ended"
  /\ pc' = "returned"
  /\ UNCHANGED <<kind, listVars, thrown, closed, skipped>>

\* The inner catch: next, done or value threw.
IteratorFails(e) ==
  /\ pc = "next" /\ kind # "any"
  /\ Reject(e)
  /\ iteration' = "broken"
  /\ pc' = "returned"
  /\ UNCHANGED <<kind, listVars, doneIterating, thrown, closed, skipped>>

\* any throws again when the result says that it is not done, or when reading
\* done throws once more: the outer catch then closes the iterator.
ValueFailsInAny(e) ==
  /\ pc = "next" /\ kind = "any"
  /\ thrown' = e
  /\ iteration' = "broken"
  /\ pc' = "close"
  /\ UNCHANGED <<kind, listVars, doneIterating, outcome, closed, skipped>>

\* any keeps the exception as if an element had been rejected with it, does not
\* count it, and asks for the next element.
NextFailsInAny(e) ==
  /\ pc = "next" /\ kind = "any" /\ Len(results) < MaxItems
  /\ results' = Append(results, Rejected(e))
  /\ skipped' = TRUE
  /\ UNCHANGED <<kind, pc, index, doneIterating, elements, outcome, thrown,
                 answers, iteration, closed>>

\* The result has no boolean done: AsBoolean throws an exception of .NET, which
\* neither catch takes.
DoneMissingInAny ==
  /\ pc = "next" /\ kind = "any"
  /\ iteration' = "broken"
  /\ pc' = "threw"
  /\ UNCHANGED <<kind, listVars, doneIterating, outcome, thrown, closed, skipped>>

IteratorGives ==
  /\ pc = "next" /\ Len(results) < MaxItems
  /\ results' = Append(results, None)
  /\ answers' = Append(answers, None)
  /\ pc' = "resolve"
  /\ UNCHANGED <<kind, index, doneIterating, elements, outcome, thrown, iterVars>>

\* Bug variant: the closures capture the index after it was counted.
CallThenLate ==
  /\ pc = "resolve"
  /\ elements' = Append(elements, [capturedIndex |-> index + 1, alreadyCalled |-> FALSE])
  /\ pc' = "then"
  /\ UNCHANGED <<kind, results, index, doneIterating, outcome, thrown, answers, iterVars>>

\* Promise.resolve has returned an object whose then can be called.  (race keeps
\* neither list nor index; they count its elements here.)
CallThen ==
  /\ pc = "resolve"
  /\ elements' = Append(elements, [capturedIndex |-> index, alreadyCalled |-> FALSE])
  /\ pc' = "then"
  /\ UNCHANGED <<kind, results, index, doneIterating, outcome, thrown, answers, iterVars>>

ThenReturns ==
  /\ pc = "then"
  /\ index' = index + 1
  /\ pc' = "next"
  /\ UNCHANGED <<kind, results, doneIterating, elements, outcome, thrown, answers, iterVars>>

\* Bug variant: the outer catch rejects without closing.
ElementFailsUnclosed(e) ==
  /\ pc \in {"resolve", "then"}
  /\ Reject(e)
  /\ pc' = "returned"
  /\ UNCHANGED <<kind, listVars, doneIterating, thrown, iterVars>>

\* The outer catch, for Promise.resolve, the getter of then, a then that cannot
\* be called and a then that throws.
ElementFails(e) ==
  /\ pc \in {"resolve", "then"}
  /\ thrown' = e
  /\ pc' = "close"
  /\ UNCHANGED <<kind, listVars, doneIterating, outcome, iterVars>>

\* IteratorInstance.Close swallows what return itself throws.
CloseReturns ==
  /\ pc = "close"
  /\ Reject(thrown)
  /\ closed' = TRUE
  /\ thrown' = None
  /\ pc' = "returned"
  /\ UNCHANGED <<kind, listVars, doneIterating, iteration, skipped>>

\* The getter of return throws, or return cannot be called: Close throws out of
\* the catch, and nobody rejects the promise.
CloseThrows ==
  /\ pc = "close"
  /\ closed' = TRUE
  /\ thrown' = None
  /\ pc' = "threw"
  /\ UNCHANGED <<kind, listVars, doneIterating, outcome, iteration, skipped>>

-----------------------------------------------------------------------------
(* The functions then was given *)

\* Bug variant: each closure has a flag of its own.
SetResultTwice(i, a) ==
  /\ elements' = [elements EXCEPT ![i].alreadyCalled = TRUE]
  /\ results' = [results EXCEPT ![elements[i].capturedIndex + 1] = a]
  /\ answers' = [answers EXCEPT ![i] = IF @ = None THEN a ELSE @]
  /\ ResolveIfFinished(results', doneIterating)

\* onSuccess, onFailure and onError: whichever is called first sets the entry.
SetResult(i, a) ==
  /\ ~elements[i].alreadyCalled
  /\ elements' = [elements EXCEPT ![i].alreadyCalled = TRUE]
  /\ results' = [results EXCEPT ![elements[i].capturedIndex + 1] = a]
  /\ answers' = [answers EXCEPT ![i] = a]
  /\ ResolveIfFinished(results', doneIterating)

CallBack(i, a) ==
  /\ i \in 1 .. Len(elements)
  /\ \/ /\ Decides(a)
        /\ outcome' = Settled(a)
        /\ UNCHANGED <<results, elements, answers>>
     \/ /\ ~Decides(a)
        /\ SetResult(i, a)
  /\ UNCHANGED <<kind, pc, index, doneIterating, thrown, iterVars>>

-----------------------------------------------------------------------------
Next ==
  \/ BadReceiver
  \/ Begin
  \/ IteratorEnds
  \/ DoneMissingInAny
  \/ IteratorGives
  \/ CallThen
  \/ ThenReturns
  \/ CloseReturns
  \/ CloseThrows
  \/ \E e \in Errors : \/ CannotBegin(e)
                       \/ IteratorFails(e)
                       \/ ValueFailsInAny(e)
                       \/ NextFailsInAny(e)
                       \/ ElementFails(e)
  \/ \E i \in 1 .. MaxItems, h \in {"fulfilled", "rejected"}, v \in Values :
       CallBack(i, [how |-> h, with |-> v])

Spec == Init /\ [][Next]_vars
=============================================================================
