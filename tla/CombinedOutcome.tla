--------------------------- MODULE CombinedOutcome ---------------------------
(***************************************************************************)
(* What a combinator promises: the combined promise is settled by the      *)
(* first event that decides it, with the answers of the elements in the    *)
(* order in which the elements were given, whatever the order in which     *)
(* they answered.                                                          *)
(***************************************************************************)
EXTENDS Integers, Sequences

CONSTANTS Values, Errors, None

VARIABLES
  kind,      \* "all", "allSettled", "any" or "race"
  answers,   \* per element, the answer that counts, or None
  ended,     \* there are no more elements
  outcome    \* None while the promise waits

vars == <<kind, answers, ended, outcome>>

Rejection(e) == [how |-> "rejected", with |-> e]

\* race is decided by any answer, all by a rejection, any by a fulfilment.
Decisive(a) == CASE kind = "race" -> TRUE
                 [] kind = "all" -> a.how = "rejected"
                 [] kind = "any" -> a.how = "fulfilled"
                 [] OTHER -> FALSE

\* What the elements have decided together.
Verdict(list, over) ==
  IF kind = "race" \/ ~over \/ \E i \in 1 .. Len(list) : list[i] = None THEN None
  ELSE [how |-> IF kind = "any" THEN "rejected" ELSE "fulfilled", with |-> list]

First(o) == outcome' = IF outcome = None THEN o ELSE outcome

Init ==
  /\ kind \in {"all", "allSettled", "any", "race"}
  /\ answers = <<>> /\ ended = FALSE /\ outcome = None

Ask == /\ ~ended
       /\ answers' = Append(answers, None)
       /\ UNCHANGED <<kind, ended, outcome>>
Answer(i, a) ==
  /\ i \in 1 .. Len(answers)
  /\ IF Decisive(a)
     THEN First(a) /\ UNCHANGED answers
     ELSE /\ answers[i] = None
          /\ answers' = [answers EXCEPT ![i] = a]
          /\ First(Verdict(answers', ended))
  /\ UNCHANGED <<kind, ended>>
End == /\ ~ended /\ ended' = TRUE
       /\ First(Verdict(answers, TRUE))
       /\ UNCHANGED <<kind, answers>>
Fail(e) == /\ ~ended
           /\ First(Rejection(e))
           /\ UNCHANGED <<kind, answers, ended>>

Next ==
  \/ Ask
  \/ End
  \/ \E i \in 1 .. Len(answers), h \in {"fulfilled", "rejected"}, v \in Values :
       Answer(i, [how |-> h, with |-> v])
  \/ \E e \in Errors : Fail(e)

Spec == Init /\ [][Next]_vars
=============================================================================
