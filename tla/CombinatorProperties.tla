------------------------- MODULE CombinatorProperties -------------------------
(***************************************************************************)
(* What PromiseCombinators promises: every property the runs check.        *)
(***************************************************************************)
EXTENDS PromiseCombinators

(* Every variable has its type; the closures of an element point into the list. *)
TypeOK ==
  /\ kind \in Kinds
  /\ pc \in {"start", "next", "resolve", "then", "close", "returned", "threw"}
  /\ results \in Seq(Answers \cup {None}) /\ Len(results) <= MaxItems
  /\ index \in 0 .. MaxItems
  /\ doneIterating \in BOOLEAN
  /\ elements \in Seq([capturedIndex : 0 .. MaxItems, alreadyCalled : BOOLEAN])
  /\ \A i \in 1 .. Len(elements) : elements[i].capturedIndex < Len(results)
  /\ outcome = None \/ /\ outcome.how \in {"fulfilled", "rejected"}
                       /\ \/ outcome.with \in Errors
                          \/ outcome.with \in Seq(Answers)
  /\ thrown \in Errors \cup {None}
  /\ answers \in Seq(Answers \cup {None}) /\ Len(answers) <= Len(results)
  /\ iteration \in {"none", "open", "ended", "broken"}
  /\ closed \in BOOLEAN /\ skipped \in BOOLEAN

-----------------------------------------------------------------------------
Outcome == INSTANCE CombinedOutcome WITH ended <- iteration = "ended"

(* The combined promise is settled by the event that decides it and by no       *)
(* other, and the list it is settled with has every element's first answer at   *)
(* the place of that element: although elements answer while the loop still     *)
(* runs, out of order, twice, or after another has failed.  After any has       *)
(* passed over an exception of next (line 484) its indices are off by one, and  *)
(* nothing is promised: see AnyDecides.                                         *)
ImplementsOutcome ==
  Outcome!Init /\ [][skipped' \/ Outcome!Next]_(Outcome!vars)

(* A call that has returned leaves its promise undecided only while there is     *)
(* something to wait for: an exception of the iterator, of Promise.resolve or of *)
(* a then has rejected it, and a list that was filled before its iterator ended  *)
(* is not forgotten when it ends.                                                *)
NothingForgotten ==
  pc = "returned" /\ outcome = None /\ ~skipped =>
    iteration = "ended" /\ (kind = "race" \/ ~IsFull(answers))

(* A call that has returned leaves its iterator in exactly one of two ways: the  *)
(* iterator has ended or thrown by itself, or it was told to return.  (any also  *)
(* closes an iterator whose value cannot be read, line 480.)                     *)
IteratorLeft ==
  pc = "returned" /\ iteration # "none" =>
    \/ closed <=> iteration = "open"
    \/ kind = "any" /\ iteration = "broken"

(* "it will help to detect if all inner promises were rejected": once the       *)
(* iterator of Promise.any has ended and every element has been rejected, the   *)
(* promise is rejected.                                                         *)
AnyDecides ==
  kind = "any" /\ doneIterating /\ IsFull(answers) => outcome # None
=============================================================================
