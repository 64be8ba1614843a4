--------------------------- MODULE CombinatorProofs ---------------------------
(***************************************************************************)
(* Proofs about PromiseCombinators, for every set of values and any number *)
(* of elements: the combined promise implements CombinedOutcome, nothing   *)
(* is forgotten, the iterator is left once, and the types.                 *)
(***************************************************************************)
EXTENDS CombinatorProperties, SequenceTheorems, TLAPS

\* The list and the history of answers are the same, element i writes entry i,
\* and its flag says whether it has answered.
Aligned ==
  /\ Len(elements) <= Len(answers) /\ Len(answers) <= Len(results)
  /\ ~skipped => results = answers
  /\ \A i \in 1 .. Len(elements) :
       /\ elements[i].capturedIndex = i - 1
       /\ elements[i].alreadyCalled <=> answers[i] # None

\* Where the loop stands.
LoopShape ==
  /\ pc \in {"next", "resolve"} => index = Len(elements)
  /\ pc = "then" => index = Len(elements) - 1
  /\ pc \in {"next", "then"} => Len(elements) = Len(answers)
  /\ pc = "resolve" => /\ Len(elements) = Len(answers) - 1
                       /\ answers[Len(answers)] = None
  /\ pc = "start" => /\ elements = <<>> /\ answers = <<>> /\ results = <<>>
                     /\ index = 0

\* What the iterator has to do with it.
IteratorShape ==
  /\ doneIterating <=> iteration = "ended"
  /\ pc = "start" => iteration = "none" /\ ~closed /\ outcome = None
  /\ pc \in {"next", "resolve", "then"} => iteration = "open" /\ ~closed
  /\ pc = "close" => /\ ~closed
                     /\ thrown # None
                     /\ \/ iteration = "open"
                        \/ kind = "any" /\ iteration = "broken"

Types ==
  /\ kind \in {"all", "allSettled", "any", "race"}
  /\ pc \in {"start", "next", "resolve", "then", "close", "returned", "threw"}
  /\ results \in Seq(Answers \cup {None})
  /\ answers \in Seq(Answers \cup {None})
  /\ index \in Int
  /\ elements \in Seq([capturedIndex : Int, alreadyCalled : BOOLEAN])
  /\ thrown \in Errors \cup {None}
  /\ doneIterating \in BOOLEAN
  /\ closed \in BOOLEAN /\ skipped \in BOOLEAN

Inv == Types /\ Aligned /\ LoopShape /\ IteratorShape /\ NothingForgotten /\ IteratorLeft

-----------------------------------------------------------------------------
LEMMA ErrorIsSomething == \A e \in Errors : e # None
  BY NoneAssumption

LEMMA AnswerIsSomething == \A a \in Answers : a # None
  BY NoneAssumption

LEMMA RejectedIsSomething == \A e \in Errors : Rejected(e) # None
  BY NoneAssumption DEF Rejected, Answers

LEMMA CollectedIsSomething ==
  \A s \in Seq(Answers \cup {None}) : Collected(s) # None
  BY NoneAssumption DEF Collected, Fulfilled, Rejected

(* Nothing has happened yet. *)
LEMMA InitInv == Init => Inv
  <1> SUFFICES ASSUME Init PROVE Inv OBVIOUS
  <1>1. Types
    <2>1. kind \in {"all", "allSettled", "any", "race"}
      BY KindsAssumption DEF Init
    <2>2. results \in Seq(Answers \cup {None}) /\ answers \in Seq(Answers \cup {None})
      BY DEF Init
    <2>3. elements \in Seq([capturedIndex : Int, alreadyCalled : BOOLEAN])
      BY DEF Init
    <2>4. /\ pc = "start" /\ index = 0 /\ thrown = None
          /\ doneIterating \in BOOLEAN /\ closed \in BOOLEAN /\ skipped \in BOOLEAN
      BY DEF Init
    <2> QED BY <2>1, <2>2, <2>3, <2>4 DEF Types
  <1>2. Aligned /\ LoopShape
    BY DEF Init, Aligned, LoopShape
  <1>3. IteratorShape /\ NothingForgotten /\ IteratorLeft
    BY DEF Init, IteratorShape, NothingForgotten, IteratorLeft
  <1> QED BY <1>1, <1>2, <1>3 DEF Inv

(* Every action but those that touch the lists keeps them aligned.             *)
LEMMA NextInv == Inv /\ [Next]_vars => Inv'
  <1> SUFFICES ASSUME Inv, [Next]_vars PROVE Inv'
    OBVIOUS
  <1> USE DEF Inv
  <1>1. CASE BadReceiver
    BY <1>1 DEF BadReceiver, listVars, iterVars, Types, Aligned, LoopShape,
       IteratorShape, NothingForgotten, IteratorLeft
  <1>2. CASE Begin
    BY <1>2 DEF Begin, listVars, iterVars, Types, Aligned, LoopShape,
       IteratorShape, NothingForgotten, IteratorLeft
  <1>3. CASE IteratorEnds
    BY <1>3, CollectedIsSomething DEF IteratorEnds, ResolveIfFinished, Settled,
       listVars, Types, Aligned, LoopShape, IteratorShape, NothingForgotten,
       IteratorLeft
  <1>4. CASE DoneMissingInAny
    BY <1>4 DEF DoneMissingInAny, listVars, Types, Aligned, LoopShape,
       IteratorShape, NothingForgotten, IteratorLeft
  <1>5. CASE IteratorGives
    <2>1. Types'
      BY <1>5 DEF IteratorGives, Types, iterVars
    <2>2. Aligned'
      BY <1>5 DEF IteratorGives, Types, Aligned, LoopShape, iterVars
    <2>3. (LoopShape /\ IteratorShape /\ NothingForgotten /\ IteratorLeft)'
      BY <1>5 DEF IteratorGives, Types, LoopShape, IteratorShape,
         NothingForgotten, IteratorLeft, iterVars
    <2> QED BY <2>1, <2>2, <2>3
  <1>6. CASE CallThen
    <2>1. Types'
      BY <1>6 DEF CallThen, Types, iterVars
    <2>2. Aligned'
      <3> DEFINE new == [capturedIndex |-> index, alreadyCalled |-> FALSE]
      <3>1. /\ Len(elements') = Len(elements) + 1
            /\ elements'[Len(elements) + 1] = new
            /\ \A j \in 1 .. Len(elements) : elements'[j] = elements[j]
        BY <1>6 DEF CallThen, Types
      <3>2. index = Len(elements) /\ Len(answers) = Len(elements) + 1
        BY <1>6 DEF CallThen, LoopShape, Types
      <3>3. ASSUME NEW j \in 1 .. Len(elements')
            PROVE  /\ elements'[j].capturedIndex = j - 1
                   /\ elements'[j].alreadyCalled <=> answers'[j] # None
        <4>1. CASE j = Len(elements) + 1
          BY <1>6, <3>1, <3>2, <4>1 DEF CallThen, LoopShape, Types
        <4>2. CASE j \in 1 .. Len(elements)
          BY <1>6, <3>1, <4>2 DEF CallThen, Aligned
        <4> QED BY <3>1, <4>1, <4>2 DEF Types
      <3> QED BY <1>6, <3>1, <3>2, <3>3 DEF CallThen, Aligned, Types, iterVars
    <2>3. (LoopShape /\ IteratorShape /\ NothingForgotten /\ IteratorLeft)'
      BY <1>6 DEF CallThen, Types, LoopShape, IteratorShape,
         NothingForgotten, IteratorLeft, iterVars
    <2> QED BY <2>1, <2>2, <2>3
  <1>7. CASE ThenReturns
    BY <1>7 DEF ThenReturns, Types, Aligned, LoopShape,
       IteratorShape, NothingForgotten, IteratorLeft, iterVars
  <1>8. CASE CloseReturns
    BY <1>8, RejectedIsSomething DEF CloseReturns, Reject, Settled, listVars,
       Types, Aligned, LoopShape, IteratorShape, NothingForgotten, IteratorLeft
  <1>9. CASE CloseThrows
    BY <1>9 DEF CloseThrows, listVars, Types, Aligned, LoopShape,
       IteratorShape, NothingForgotten, IteratorLeft
  <1>10. ASSUME NEW e \in Errors, CannotBegin(e) PROVE Inv'
    BY <1>10, RejectedIsSomething DEF CannotBegin, Reject, Settled, listVars,
       iterVars, Types, Aligned, LoopShape, IteratorShape, NothingForgotten,
       IteratorLeft
  <1>11. ASSUME NEW e \in Errors, IteratorFails(e) PROVE Inv'
    BY <1>11, RejectedIsSomething DEF IteratorFails, Reject, Settled, listVars,
       Types, Aligned, LoopShape, IteratorShape, NothingForgotten, IteratorLeft
  <1>12. ASSUME NEW e \in Errors, ValueFailsInAny(e) PROVE Inv'
    BY <1>12, ErrorIsSomething DEF ValueFailsInAny, listVars, Types, Aligned,
       LoopShape, IteratorShape, NothingForgotten, IteratorLeft
  <1>13. ASSUME NEW e \in Errors, NextFailsInAny(e) PROVE Inv'
    <2>1. Types'
      BY <1>13 DEF NextFailsInAny, Types, Rejected, Answers
    <2>2. Aligned'
      BY <1>13 DEF NextFailsInAny, Types, Aligned
    <2>3. (LoopShape /\ IteratorShape /\ NothingForgotten /\ IteratorLeft)'
      BY <1>13 DEF NextFailsInAny, Types, LoopShape, IteratorShape,
         NothingForgotten, IteratorLeft
    <2> QED BY <2>1, <2>2, <2>3
  <1>14. ASSUME NEW e \in Errors, ElementFails(e) PROVE Inv'
    <2>1. e # None
      BY ErrorIsSomething
    <2>2. Types' /\ Aligned'
      BY <1>14 DEF ElementFails, listVars, iterVars, Types, Aligned
    <2>3. LoopShape' /\ NothingForgotten' /\ IteratorLeft'
      BY <1>14 DEF ElementFails, LoopShape, NothingForgotten, IteratorLeft
    <2>4. IteratorShape'
      BY <1>14, <2>1 DEF ElementFails, iterVars, IteratorShape
    <2> QED BY <2>2, <2>3, <2>4
  <1>15. ASSUME NEW i \in 1 .. MaxItems, NEW a \in Answers, CallBack(i, a)
         PROVE  Inv'
    <2>1. i \in 1 .. Len(elements) /\ i \in 1 .. Len(answers)
      BY <1>15 DEF CallBack, Aligned, Types
    <2>2. CASE Decides(a) /\ outcome' = Settled(a) /\ UNCHANGED <<results, elements, answers>>
      BY <1>15, <2>2, AnswerIsSomething DEF CallBack, Settled, iterVars, Types, Aligned,
         LoopShape, IteratorShape, NothingForgotten, IteratorLeft
    <2>3. CASE ~Decides(a) /\ SetResult(i, a)
      <3> DEFINE Elements == [capturedIndex : Int, alreadyCalled : BOOLEAN]
                 element == [elements[i] EXCEPT !.alreadyCalled = TRUE]
      <3>a. /\ elements' = [elements EXCEPT ![i] = element]
            /\ results' = [results EXCEPT ![i] = a]
            /\ answers' = [answers EXCEPT ![i] = a]
        <4>1. elements[i].capturedIndex + 1 = i
          BY <2>1 DEF Aligned
        <4> QED BY <2>3, <4>1 DEF SetResult
      <3>b. elements[i] \in Elements /\ element \in Elements
        <4>1. elements[i] \in Elements
          BY <2>1, ElementOfSeq DEF Types
        <4> QED BY <4>1
      <3>c. /\ elements' \in Seq(Elements) /\ Len(elements') = Len(elements)
            /\ \A j \in 1 .. Len(elements) :
                 elements'[j] = IF j = i THEN element ELSE elements[j]
        BY <2>1, <3>a, <3>b DEF Types
      <3>d. /\ answers' \in Seq(Answers \cup {None}) /\ Len(answers') = Len(answers)
            /\ \A j \in 1 .. Len(answers) :
                 answers'[j] = IF j = i THEN a ELSE answers[j]
        BY <2>1, <3>a DEF Types
      <3>e. results' \in Seq(Answers \cup {None}) /\ Len(results') = Len(results)
        BY <2>1, <3>a DEF Types, Aligned
      <3>1. Types'
        BY <1>15, <3>c, <3>d, <3>e DEF CallBack, iterVars, Types
      <3>2. Aligned'
        <4>1. Len(elements') <= Len(answers') /\ Len(answers') <= Len(results')
          BY <3>c, <3>d, <3>e DEF Aligned
        <4>2. ~skipped' => results' = answers'
          BY <1>15, <3>a DEF CallBack, iterVars, Aligned
        <4>3. ASSUME NEW j \in 1 .. Len(elements')
              PROVE  /\ elements'[j].capturedIndex = j - 1
                     /\ elements'[j].alreadyCalled <=> answers'[j] # None
          <5>1. j \in 1 .. Len(elements) /\ j \in 1 .. Len(answers)
            BY <3>c DEF Aligned, Types
          <5>2. CASE j = i
            BY <3>b, <3>c, <3>d, <5>1, <5>2, AnswerIsSomething DEF Aligned
          <5>3. CASE j # i
            BY <3>c, <3>d, <5>1, <5>3 DEF Aligned
          <5> QED BY <5>2, <5>3
        <4> QED BY <4>1, <4>2, <4>3 DEF Aligned
      <3>3. LoopShape' /\ IteratorShape' /\ IteratorLeft'
        <4>1. LoopShape'
          <5>1. pc' = pc /\ index' = index
            BY <1>15 DEF CallBack
          <5>2. pc # "start"
            BY <2>1 DEF LoopShape, Types
          <5>3. pc = "resolve" => answers'[Len(answers')] = None
            BY <2>1, <3>d DEF LoopShape, Types
          <5> QED BY <3>c, <3>d, <5>1, <5>2, <5>3 DEF LoopShape
        <4>2. IteratorShape' /\ IteratorLeft'
          BY <1>15, <2>1 DEF CallBack, iterVars, LoopShape, IteratorShape, IteratorLeft
        <4> QED BY <4>1, <4>2
      <3>4. NothingForgotten'
        BY <1>15, <2>1, <2>3, <3>1, <3>2, CollectedIsSomething
        DEF CallBack, SetResult, ResolveIfFinished, Settled, iterVars, Types, Aligned,
            IteratorShape, NothingForgotten
      <3> QED BY <3>1, <3>2, <3>3, <3>4
    <2> QED BY <1>15, <2>2, <2>3 DEF CallBack
  <1>16. CASE UNCHANGED vars
    BY <1>16 DEF vars, Types, Aligned, LoopShape, IteratorShape, NothingForgotten,
       IteratorLeft, IsFull
  <1>17. CASE \E i \in 1 .. MaxItems, h \in {"fulfilled", "rejected"}, v \in Values :
                CallBack(i, [how |-> h, with |-> v])
    BY <1>15, <1>17 DEF Answers, Errors
  <1> QED
    BY <1>1, <1>2, <1>3, <1>4, <1>5, <1>6, <1>7, <1>8, <1>9, <1>10, <1>11, <1>12,
       <1>13, <1>14, <1>16, <1>17 DEF Next

(* The strengthened invariant holds in every reachable state. *)
LEMMA InvHolds == Spec => []Inv
  <1>1. Init => Inv
    BY InitInv
  <1>2. Inv /\ [Next]_vars => Inv'
    BY NextInv
  <1> QED BY <1>1, <1>2, PTL DEF Spec

(* A call that has returned has settled its promise unless an element still has  *)
(* to answer (PromiseConstructor.All and its kin, with their ResolveIfFinished). *)
THEOREM NothingForgottenHolds == Spec => []NothingForgotten
  <1>1. Inv => NothingForgotten
    BY DEF Inv
  <1> QED BY <1>1, InvHolds, PTL

(* A call that has returned has closed its iterator if and only if the iterator  *)
(* neither ended nor threw (the two catches of the loop).                        *)
THEOREM IteratorLeftHolds == Spec => []IteratorLeft
  <1>1. Inv => IteratorLeft
    BY DEF Inv
  <1> QED BY <1>1, InvHolds, PTL

-----------------------------------------------------------------------------
(* The refinement *)

(* The two ways to say which answers settle the promise at once agree.           *)
LEMMA DecidesAgree ==
  ASSUME Types, NEW a
  PROVE  Decides(a) <=> Outcome!Decisive(a)
  BY DEF Types, Decides, Outcome!Decisive

(* What ResolveIfFinished does is what the verdict says.                         *)
LEMMA FinishAgrees ==
  ASSUME NEW list, NEW done \in BOOLEAN, ResolveIfFinished(list, done)
  PROVE  Outcome!First(Outcome!Verdict(list, done))
  BY DEF ResolveIfFinished, IsFull, Settled, Collected, Fulfilled, Rejected,
     Outcome!First, Outcome!Verdict

-----------------------------------------------------------------------------

LEMMA StepRefines ==
  Inv /\ [Next]_vars => [skipped' \/ Outcome!Next]_(Outcome!vars)
  <1> SUFFICES ASSUME Inv, [Next]_vars, ~skipped'
               PROVE  Outcome!Next \/ UNCHANGED Outcome!vars
    OBVIOUS
  <1> USE DEF Inv
  <1>1. CASE \/ BadReceiver \/ Begin \/ DoneMissingInAny \/ CallThen \/ ThenReturns
             \/ CloseThrows \/ UNCHANGED vars
    BY <1>1 DEF BadReceiver, Begin, DoneMissingInAny, CallThen, ThenReturns,
       CloseThrows, vars, listVars, iterVars, IteratorShape, Outcome!vars
  <1>2. CASE IteratorEnds
    <2>1. Outcome!First(Outcome!Verdict(answers, TRUE))
      <3>1. results = answers
        BY <1>2 DEF IteratorEnds, Aligned
      <3> QED BY <1>2, <3>1, FinishAgrees DEF IteratorEnds
    <2>2. Outcome!End
      BY <1>2, <2>1 DEF IteratorEnds, listVars, IteratorShape, Outcome!End
    <2> QED BY <2>2 DEF Outcome!Next
  <1>3. CASE IteratorGives
    BY <1>3 DEF IteratorGives, iterVars, IteratorShape, Outcome!Next, Outcome!Ask
  <1>4. ASSUME NEW e \in Errors, Reject(e), UNCHANGED <<kind, answers>>,
               iteration # "ended", iteration' # "ended"
        PROVE  Outcome!Next
    <2>1. Outcome!Fail(e)
      BY <1>4 DEF Reject, Settled, Rejected, Outcome!Fail, Outcome!First,
         Outcome!Rejection
    <2> QED BY <2>1 DEF Outcome!Next
  <1>5. CASE CloseReturns
    BY <1>4, <1>5 DEF CloseReturns, listVars, Types, IteratorShape
  <1>6. CASE \E e \in Errors : CannotBegin(e) \/ IteratorFails(e)
    BY <1>4, <1>6 DEF CannotBegin, IteratorFails, listVars, iterVars, IteratorShape
  <1>7. CASE \E e \in Errors : ValueFailsInAny(e) \/ ElementFails(e)
    BY <1>7 DEF ValueFailsInAny, ElementFails, listVars, iterVars, IteratorShape,
       Outcome!vars
  <1>8. CASE \E e \in Errors : NextFailsInAny(e)
    BY <1>8 DEF NextFailsInAny
  <1>9. ASSUME NEW i \in 1 .. MaxItems, NEW h \in {"fulfilled", "rejected"},
               NEW v \in Values, CallBack(i, [how |-> h, with |-> v])
        PROVE  Outcome!Next
    <2> DEFINE a == [how |-> h, with |-> v]
    <2>1. i \in 1 .. Len(answers) /\ i \in 1 .. Len(elements)
      BY <1>9 DEF CallBack, Aligned, Types
    <2>2. UNCHANGED <<kind, iteration, doneIterating>> /\ ~skipped
      BY <1>9 DEF CallBack, iterVars
    <2>3. Outcome!Answer(i, a)
      <3>1. CASE Decides(a)
        BY <1>9, <2>1, <2>2, <3>1, DecidesAgree
        DEF CallBack, Settled, Outcome!Answer, Outcome!First
      <3>2. CASE ~Decides(a)
        <4>1. SetResult(i, a)
          BY <1>9, <3>2 DEF CallBack
        <4>2. answers[i] = None /\ answers' = [answers EXCEPT ![i] = a]
          BY <2>1, <4>1 DEF SetResult, Aligned
        <4>3. results' = answers'
          <5>1. results = answers
            BY <2>2 DEF Aligned
          <5>2. elements[i].capturedIndex + 1 = i
            BY <2>1 DEF Aligned
          <5>3. results' = [results EXCEPT ![i] = a]
            BY <4>1, <5>2 DEF SetResult
          <5> QED BY <4>2, <5>1, <5>3
        <4>4. Outcome!First(Outcome!Verdict(answers', doneIterating))
          BY <4>1, <4>3, FinishAgrees DEF SetResult, Types
        <4>5. doneIterating = (iteration = "ended")
          BY DEF IteratorShape, Types
        <4> QED BY <2>1, <2>2, <3>2, <4>2, <4>4, <4>5, DecidesAgree DEF Outcome!Answer
      <3> QED BY <3>1, <3>2
    <2> QED BY <2>1, <2>3 DEF Outcome!Next
  <1> QED
    BY <1>1, <1>2, <1>3, <1>5, <1>6, <1>7, <1>8, <1>9 DEF Next

(* For every set of values and any number of elements, the combined promise is   *)
(* settled by the event that decides it, with the first answers in their places  *)
(* (PromiseConstructor.All, AllSettled, Any, Race), until any passes over an     *)
(* exception of next.                                                            *)
THEOREM OutcomeImplemented == Spec => ImplementsOutcome
  <1>1. Init => Outcome!Init
    BY KindsAssumption DEF Init, Outcome!Init
  <1>2. Inv /\ [Next]_vars => [skipped' \/ Outcome!Next]_(Outcome!vars)
    BY StepRefines
  <1> QED BY <1>1, <1>2, InvHolds, PTL DEF Spec, ImplementsOutcome

-----------------------------------------------------------------------------
(* Types *)

\* What a capability may have been called with.
IsOutcome(o) ==
  o = None \/ /\ o.how \in {"fulfilled", "rejected"}
              /\ o.with \in Errors \/ o.with \in Seq(Answers)

\* The bounds of what the list and the index hold.
Bounds ==
  /\ kind \in Kinds
  /\ index \in 0 .. Len(elements)
  /\ Len(results) <= MaxItems
  /\ IsOutcome(outcome)
  /\ iteration \in {"none", "open", "ended", "broken"}

LEMMA RejectedIsOutcome == \A e \in Errors : IsOutcome(Rejected(e))
  BY DEF IsOutcome, Rejected

LEMMA AnswerIsOutcome == \A a \in Answers : IsOutcome(a)
  BY DEF IsOutcome, Answers

(* A list without holes holds answers only.                                      *)
LEMMA FullIsOutcome ==
  ASSUME NEW list \in Seq(Answers \cup {None}), IsFull(list)
  PROVE  IsOutcome(Collected(list))
  <1>1. list \in Seq(Answers)
    BY DEF IsFull
  <1>2. CASE kind = "any"
    BY <1>1, <1>2 DEF Collected, Rejected, IsOutcome
  <1>3. CASE kind # "any"
    BY <1>1, <1>3 DEF Collected, Fulfilled, IsOutcome
  <1> QED BY <1>2, <1>3

(* The capability keeps what it was first called with.                           *)
LEMMA RejectKeeps ==
  ASSUME IsOutcome(outcome), NEW e \in Errors, Reject(e)
  PROVE  IsOutcome(outcome)'
  <1>1. outcome' = outcome \/ outcome' = Rejected(e)
    BY DEF Reject, Settled
  <1> QED BY <1>1, RejectedIsOutcome

LEMMA FinishKeeps ==
  ASSUME IsOutcome(outcome), NEW list \in Seq(Answers \cup {None}), NEW done,
         ResolveIfFinished(list, done)
  PROVE  IsOutcome(outcome)'
  <1>1. outcome' = outcome \/ (IsFull(list) /\ outcome' = Collected(list))
    BY DEF ResolveIfFinished, Settled
  <1> QED BY <1>1, FullIsOutcome

(* A sequence whose elements are in a smaller set is one over that set.          *)
LEMMA NarrowerSeq ==
  ASSUME NEW R, NEW S, NEW s \in Seq(R), \A i \in 1 .. Len(s) : s[i] \in S
  PROVE  s \in Seq(S)
  OBVIOUS

(* Every action keeps the bounds; only the calls of the capability and the       *)
(* entries of the list have something to show.                                   *)
LEMMA BoundsHold == Inv /\ Inv' /\ Bounds /\ [Next]_vars => Bounds'
  <1> SUFFICES ASSUME Inv, Inv', Bounds, [Next]_vars PROVE Bounds'
    OBVIOUS
  <1> USE DEF Bounds
  <1>0. elements \in Seq([capturedIndex : Int, alreadyCalled : BOOLEAN])
        /\ results \in Seq(Answers \cup {None}) /\ results' \in Seq(Answers \cup {None})
        /\ MaxItems \in Nat
    BY BoundAssumption DEF Inv, Types
  <1>1. CASE \/ BadReceiver \/ Begin \/ DoneMissingInAny \/ CloseThrows \/ UNCHANGED vars
    BY <1>1, Zenon DEF BadReceiver, Begin, DoneMissingInAny, CloseThrows, vars, listVars, iterVars
  <1>2. CASE IteratorEnds
    <2>1. IsOutcome(outcome)'
      BY <1>0, <1>2, FinishKeeps DEF IteratorEnds
    <2> QED BY <1>2, <2>1, Zenon DEF IteratorEnds, listVars
  <1>3. CASE IteratorGives
    BY <1>0, <1>3 DEF IteratorGives, iterVars
  <1>4. CASE CallThen
    BY <1>0, <1>4 DEF CallThen, iterVars
  <1>5. CASE ThenReturns
    BY <1>0, <1>5 DEF ThenReturns, iterVars, Inv, LoopShape
  <1>6. CASE CloseReturns
    <2>1. thrown \in Errors /\ Reject(thrown)
      BY <1>6 DEF CloseReturns, Inv, Types, IteratorShape
    <2>2. IsOutcome(outcome)'
      BY <2>1, RejectKeeps
    <2> QED BY <1>6, <2>2, Zenon DEF CloseReturns, listVars
  <1>7. ASSUME NEW e \in Errors, CannotBegin(e) \/ IteratorFails(e) PROVE Bounds'
    <2>1. Reject(e) /\ UNCHANGED <<kind, listVars>>
          /\ (iteration' = iteration \/ iteration' = "broken")
      BY <1>7, Zenon DEF CannotBegin, IteratorFails, iterVars
    <2>2. IsOutcome(outcome)'
      BY <2>1, RejectKeeps
    <2> QED BY <2>1, <2>2, Zenon DEF listVars
  <1>8. ASSUME NEW e \in Errors, ValueFailsInAny(e) \/ ElementFails(e) PROVE Bounds'
    BY <1>8, Zenon DEF ValueFailsInAny, ElementFails, listVars, iterVars
  <1>9. ASSUME NEW e \in Errors, NextFailsInAny(e) PROVE Bounds'
    BY <1>0, <1>9 DEF NextFailsInAny
  <1>10. ASSUME NEW i \in 1 .. MaxItems, NEW a \in Answers, CallBack(i, a) PROVE Bounds'
    <2>1. UNCHANGED <<kind, index, iteration>> /\ i \in 1 .. Len(elements)
      BY <1>10 DEF CallBack, iterVars
    <2>2. CASE Decides(a) /\ outcome' = Settled(a) /\ UNCHANGED <<results, elements, answers>>
      <3>1. outcome' = outcome \/ outcome' = a
        BY <2>2 DEF Settled
      <3> QED BY <2>1, <2>2, <3>1, AnswerIsOutcome
    <2>3. CASE ~Decides(a) /\ SetResult(i, a)
      <3>1. IsOutcome(outcome)'
        BY <1>0, <2>3, FinishKeeps DEF SetResult
      <3>2. Len(results') = Len(results) /\ Len(elements') = Len(elements)
        <4>1. elements[i].capturedIndex + 1 = i /\ i \in 1 .. Len(results)
          BY <1>0, <2>1 DEF Inv, Aligned, Types
        <4>2. results' = [results EXCEPT ![i] = a]
              /\ elements' = [elements EXCEPT ![i] = [elements[i] EXCEPT !.alreadyCalled = TRUE]]
          BY <2>3, <4>1 DEF SetResult
        <4> QED BY <1>0, <2>1, <4>1, <4>2
      <3> QED BY <2>1, <3>1, <3>2
    <2> QED BY <1>10, <2>2, <2>3 DEF CallBack
  <1>11. CASE \E i \in 1 .. MaxItems, h \in {"fulfilled", "rejected"}, v \in Values :
                CallBack(i, [how |-> h, with |-> v])
    BY <1>10, <1>11 DEF Answers, Errors
  <1> QED BY <1>1, <1>2, <1>3, <1>4, <1>5, <1>6, <1>7, <1>8, <1>9, <1>11 DEF Next

(* Every variable keeps its type: a closure points into the list, the list stays *)
(* within its bound, and the capability is called with an error, an answer or a  *)
(* list without holes (PromiseConstructor.ResolveIfFinished).                    *)
THEOREM CombinatorTypes == Spec => []TypeOK
  <1>1. Init => Bounds
    <2> SUFFICES ASSUME Init PROVE Bounds OBVIOUS
    <2>1. IsOutcome(outcome)
      BY Zenon DEF Init, IsOutcome
    <2>2. kind \in Kinds /\ iteration = "none" /\ elements = <<>> /\ results = <<>> /\ index = 0
      BY Zenon DEF Init
    <2>3. Len(elements) = 0 /\ Len(results) = 0
      BY <2>2
    <2> QED BY <2>1, <2>2, <2>3, BoundAssumption DEF Bounds
  <1>2. ASSUME Inv, Bounds PROVE TypeOK
    <2>1. elements \in Seq([capturedIndex : Int, alreadyCalled : BOOLEAN]) /\ MaxItems \in Nat
      BY <1>2, BoundAssumption DEF Inv, Types
    <2>2. Len(elements) \in Nat /\ Len(answers) \in Nat /\ Len(results) \in Nat
      BY <1>2 DEF Inv, Types
    <2>3. Len(elements) <= Len(results) /\ Len(answers) <= Len(results) /\ Len(results) <= MaxItems
      BY <1>2, <2>2 DEF Inv, Aligned, Bounds
    <2>4. \A i \in 1 .. Len(elements) :
            elements[i].capturedIndex < Len(results)
            /\ elements[i] \in [capturedIndex : 0 .. MaxItems, alreadyCalled : BOOLEAN]
      <3> SUFFICES ASSUME NEW i \in 1 .. Len(elements)
                   PROVE  elements[i].capturedIndex < Len(results)
                          /\ elements[i] \in [capturedIndex : 0 .. MaxItems, alreadyCalled : BOOLEAN]
        OBVIOUS
      <3>1. elements[i] \in [capturedIndex : Int, alreadyCalled : BOOLEAN]
        BY <2>1, ElementOfSeq
      <3>2. elements[i].capturedIndex = i - 1
        BY <1>2 DEF Inv, Aligned
      <3>3. i - 1 \in 0 .. MaxItems /\ i - 1 < Len(results)
        BY <2>1, <2>2, <2>3
      <3> QED BY <3>1, <3>2, <3>3
    <2>5. elements \in Seq([capturedIndex : 0 .. MaxItems, alreadyCalled : BOOLEAN])
      BY <2>1, <2>4, NarrowerSeq
    <2>6. index \in 0 .. MaxItems
      BY <1>2, <2>1, <2>2, <2>3 DEF Bounds
    <2>7. /\ kind \in Kinds
          /\ pc \in {"start", "next", "resolve", "then", "close", "returned", "threw"}
          /\ results \in Seq(Answers \cup {None}) /\ doneIterating \in BOOLEAN
          /\ thrown \in Errors \cup {None} /\ answers \in Seq(Answers \cup {None})
          /\ iteration \in {"none", "open", "ended", "broken"}
          /\ closed \in BOOLEAN /\ skipped \in BOOLEAN
      BY <1>2, Zenon DEF Inv, Types, Bounds
    <2>8. outcome = None \/ /\ outcome.how \in {"fulfilled", "rejected"}
                            /\ \/ outcome.with \in Errors
                               \/ outcome.with \in Seq(Answers)
      BY <1>2, Zenon DEF Bounds, IsOutcome
    <2> QED BY <2>3, <2>4, <2>5, <2>6, <2>7, <2>8, Zenon DEF TypeOK
  <1>3. Inv /\ Inv' /\ Bounds /\ [Next]_vars => Bounds'
    BY BoundsHold
  <1> QED BY <1>1, <1>2, <1>3, InvHolds, PTL DEF Spec
=============================================================================
