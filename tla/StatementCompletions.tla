------------------------- MODULE StatementCompletions -------------------------
(***************************************************************************)
(* How statements end: the completions that blocks, try statements, loops, *)
(* labels and switches hand to each other, the exceptions that pass        *)
(* through them, the label a break or continue leaves in the evaluation    *)
(* context (EvaluationContext.Target), the lexical environment each        *)
(* statement puts back, and the iterator for-of has to close.              *)
(*                                                                         *)
(* The program is not fixed: whenever a statement may be executed, any     *)
(* statement ECMAScript allows there is, so that every program up to the   *)
(* nesting of MaxDepth is among the behaviours.  The innermost statement   *)
(* is on top of the stack.  A labelled loop or switch is one frame, since  *)
(* JintLabeledStatement hands on whatever that frame has not taken; two    *)
(* labels on one statement are left out, and so are blocks, loops and       *)
(* switches without lexical declarations, which make no environment.       *)
(* for-in is a for-of whose iterator has no return.                        *)
(***************************************************************************)
EXTENDS Integers, Sequences, FiniteSets

CONSTANTS
  Labels,    \* names of labels
  None,      \* no label
  MaxDepth,  \* bound: frames on the stack
  MaxLeft    \* bound: environments exceptions have left behind on the chain

ASSUME LabelsAssumption == None \notin Labels
ASSUME DepthAssumption == MaxDepth \in Nat \ {0}
ASSUME LeftAssumption == MaxLeft \in Nat

VARIABLES
  stack,     \* the statements being executed, innermost first
  reg,       \* what the innermost one has been given: leave to run, a
             \* completion or an exception
  target,    \* EvaluationContext.Target
  scope      \* the environments from ExecutionContext.LexicalEnvironment
             \* outwards, last one first, by what made them

vars == <<stack, reg, target, scope>>

-----------------------------------------------------------------------------
(* Completions and frames *)

Lists == {"list", "block"}
Loops == {"while", "for", "forOf"}
Scoping == {"block", "for", "forOf", "switch"}
Abrupt == {"Return", "Throw", "Break", "Continue"}

\* home is the height of the statement a break or continue means, 0 when the
\* label it was made with is lost (history: the code has the type only).
Completion(type, label, home) == [type |-> type, label |-> label, home |-> home]
Plain(type) == Completion(type, None, 0)
Run == Plain("Run")
Normal == Plain("Normal")
Exception == Plain("Exception")
Jumps(c) == c.type \in {"Break", "Continue"}

Frame(kind, label, phase) ==
  [kind |-> kind, label |-> label, phase |-> phase, held |-> Normal,
   scope |-> scope, catch |-> FALSE, finally |-> FALSE, iterator |-> "none"]
List == Frame("list", None, "run")

Top == stack[1]
Is(kind, phase) == stack # <<>> /\ Top.kind = kind /\ Top.phase = phase
Height == Len(stack)
Positions == 1 .. Len(stack)
Over(f) == <<f>> \o Tail(stack)
At(phase) == Over([Top EXCEPT !.phase = phase])

\* The innermost statement a break or continue with this label means.
Meant(type, label) ==
  {i \in Positions :
     IF label = None
     THEN stack[i].kind \in Loops \cup (IF type = "Break" THEN {"switch"} ELSE {})
     ELSE /\ stack[i].label = label
          /\ type = "Continue" => stack[i].kind \in Loops}
Home(type, label) ==
  Height + 1 - CHOOSE i \in Meant(type, label) : \A j \in Meant(type, label) : i <= j

\* An environment an exception has left behind (history: the code has no mark).
Mark == "left"
CanLeave == Cardinality({i \in DOMAIN scope : scope[i] = Mark}) < MaxLeft

\* A statement may be executed: the next one of a list, or the body of a loop or
\* label that is no block.
CanExecute ==
  /\ stack # <<>> /\ reg = Run
  /\ \/ Top.kind \in Lists
     \/ Top.kind \in Loops \cup {"labeled"} /\ Top.phase = "body"

Init ==
  /\ scope = <<>>
  /\ stack = <<List>>
  /\ reg = Run
  /\ target \in Labels \cup {None}

-----------------------------------------------------------------------------
(* Simple statements *)

\* Every expression that begins to be evaluated, and every statement but a block,
\* forgets the label: EvaluationContext.PrepareFor.
PrepareFor == target' = None

\* What is evaluated may call functions, which execute in the same context; no
\* one puts back or forgets the label of the last break or continue in them.
RunsCode == target' \in Labels \cup {None}

Expression ==
  /\ CanExecute
  /\ RunsCode
  /\ reg' \in {Normal, Exception}
  /\ UNCHANGED <<stack, scope>>

\* The return of a literal is resolved when the list is prepared and leaves the
\* label as it is (JintStatement.FastResolve).
Leave(type) ==
  /\ CanExecute
  /\ RunsCode
  /\ reg' = Plain(type)
  /\ UNCHANGED <<stack, scope>>

Jump(type, label) ==
  /\ CanExecute
  /\ Meant(type, label) # {}
  /\ target' = label
  /\ reg' = Completion(type, label, Home(type, label))
  /\ UNCHANGED <<stack, scope>>

-----------------------------------------------------------------------------
(* Statements that contain others *)

Free(label) == label = None \/ \A i \in Positions : stack[i].label # label
Room(n) == Len(stack) + n <= MaxDepth
Enter(f) == stack' = <<f>> \o stack /\ reg' = Run

\* A block does not reset the label.
StartBlock ==
  /\ CanExecute /\ Room(1)
  /\ Enter(Frame("block", None, "run"))
  /\ scope' = Append(scope, "block")
  /\ UNCHANGED target

StartLabeled(label) ==
  /\ CanExecute /\ Room(1) /\ label # None /\ Free(label)
  /\ Enter(Frame("labeled", label, "body"))
  /\ PrepareFor
  /\ UNCHANGED scope

StartTry(catch, finally) ==
  /\ CanExecute /\ Room(2) /\ (catch \/ finally)
  /\ LET t == [Frame("try", None, "block") EXCEPT !.catch = catch, !.finally = finally]
     IN stack' = <<List, t>> \o stack
  /\ reg' = Run
  /\ PrepareFor
  /\ UNCHANGED scope

\* while begins with its test, do with its body.
StartWhile(label, phase) ==
  /\ CanExecute /\ Room(1) /\ Free(label)
  /\ Enter(Frame("while", label, phase))
  /\ PrepareFor
  /\ UNCHANGED scope

StartFor(label) ==
  /\ CanExecute /\ Room(1) /\ Free(label)
  /\ Enter(Frame("for", label, "test"))
  /\ RunsCode
  /\ scope' = Append(scope, "loop")

StartForOf(label) ==
  /\ CanExecute /\ Room(1) /\ Free(label)
  /\ Enter(Frame("forOf", label, "head"))
  /\ PrepareFor
  /\ scope' = Append(scope, "tdz")

StartSwitch(label) ==
  /\ CanExecute /\ Room(2) /\ Free(label)
  /\ Enter(Frame("switch", label, "select"))
  /\ RunsCode
  /\ scope' = Append(scope, "block")

-----------------------------------------------------------------------------
(* Statement lists *)

\* Bug variant: only a statement that ends normally puts its environment back.
ReturnRestoringNormally(c) ==
  /\ stack' = Tail(stack)
  /\ reg' = c
  /\ scope' = IF Top.kind \in Scoping /\ c = Normal THEN Top.scope ELSE scope
\* The frame below is given c; one with an environment of its own puts back
\* what it found.
Return(c) ==
  /\ stack' = Tail(stack)
  /\ reg' = c
  /\ scope' = IF Top.kind \in Scoping THEN Top.scope ELSE scope

\* An exception leaves the statement, its environment stays.
Abandon ==
  /\ CanLeave
  /\ stack' = Tail(stack)
  /\ reg' = Exception
  /\ scope' = Append(Top.scope, Mark)

ListGoesOn ==
  /\ stack # <<>> /\ Top.kind \in Lists /\ reg = Normal
  /\ reg' = Run
  /\ UNCHANGED <<stack, target, scope>>

\* At its end, at an abrupt completion, and at an exception, which becomes a
\* throw completion (JintStatementList.HandleException).
ListEnds ==
  /\ stack # <<>> /\ Top.kind \in Lists /\ reg # Normal
  /\ LET c == CASE reg = Run -> Normal [] reg = Exception -> Plain("Throw") [] OTHER -> reg
     IN Return(c)
  /\ UNCHANGED target

-----------------------------------------------------------------------------
(* try *)

\* The completion a finalizer or return() has delayed is there again; the label
\* it was made with may not be.
Recalled(c, label) == IF Jumps(c) /\ c.label # label THEN Plain(c.type) ELSE c

\* Bug variant: the try statement does not know that it is finalizing.
FinalizeAgain(c, sc) ==
  /\ Top.finally
  /\ stack' = <<[List EXCEPT !.scope = sc]>> \o Over([Top EXCEPT !.held = c])
  /\ reg' = Run
  /\ scope' = sc
  /\ UNCHANGED target

FinalizeOrReturn(c, sc) ==
  /\ \/ /\ Top.finally
        /\ stack' = <<[List EXCEPT !.scope = sc]>>
                     \o Over([Top EXCEPT !.phase = "finally", !.held = c])
        /\ reg' = Run
     \/ /\ ~Top.finally
        /\ stack' = Tail(stack)
        /\ reg' = c
  /\ scope' = sc
  /\ UNCHANGED target

\* Bug variant: a jump leaves the block past the finalizer.
JumpLeavesBlock ==
  /\ Is("try", "block") /\ reg # Run
  /\ ~(Top.catch /\ reg.type = "Throw")
  /\ IF Jumps(reg) THEN Return(reg) /\ UNCHANGED target
                   ELSE FinalizeOrReturn(reg, scope)

BlockEnds ==
  /\ Is("try", "block") /\ reg # Run
  /\ ~(Top.catch /\ reg.type = "Throw")
  /\ FinalizeOrReturn(reg, scope)

Catch ==
  /\ Is("try", "block") /\ reg.type = "Throw" /\ Top.catch
  /\ scope' = Append(scope, "catch")
  /\ stack' = <<[List EXCEPT !.scope = scope']>>
               \o Over([Top EXCEPT !.phase = "catch", !.scope = scope])
  /\ reg' = Run
  /\ RunsCode

\* Taking the thrown value apart throws: neither the finalizer runs nor is the
\* environment put back.
CatchFails ==
  /\ Is("try", "block") /\ reg.type = "Throw" /\ Top.catch
  /\ Abandon
  /\ RunsCode

CatchEnds ==
  /\ Is("try", "catch") /\ reg # Run
  /\ FinalizeOrReturn(reg, Top.scope)

FinallyEnds ==
  /\ Is("try", "finally") /\ reg # Run
  /\ Return(IF reg = Normal THEN Recalled(Top.held, target) ELSE reg)
  /\ UNCHANGED target

-----------------------------------------------------------------------------
(* Labels and switches *)

TargetIs(label) == target = label
NoTargetOr(label) == target \in {None, label}

LabeledEnds ==
  /\ Is("labeled", "body") /\ reg # Run
  /\ Return(IF reg.type = "Break" /\ TargetIs(Top.label) THEN Normal ELSE reg)
  /\ UNCHANGED target

\* The clauses that follow are executed in turn; their selectors are evaluated
\* again.
SelectClause ==
  /\ Is("switch", "select")
  /\ stack' = <<List>> \o At("clause")
  /\ reg' = Run
  /\ RunsCode
  /\ UNCHANGED scope
SelectThrows ==
  /\ Is("switch", "select")
  /\ Abandon
  /\ RunsCode
SelectEnds ==
  /\ Is("switch", "select")
  /\ Return(Normal)
  /\ RunsCode
ClauseEnds ==
  /\ Is("switch", "clause") /\ reg # Run
  /\ IF reg = Normal
     THEN stack' = At("select") /\ reg' = Run /\ UNCHANGED scope
     ELSE Return(IF reg.type = "Break" /\ TargetIs(Top.label) THEN Normal ELSE reg)
  /\ UNCHANGED target

-----------------------------------------------------------------------------
(* while, do and for *)

Counting == stack # <<>> /\ Top.kind \in {"while", "for"}

TestHolds ==
  /\ Counting /\ Top.phase = "test" /\ reg = Run
  /\ stack' = At("body")
  /\ RunsCode
  /\ UNCHANGED <<reg, scope>>
TestEnds ==
  /\ Counting /\ Top.phase = "test" /\ reg = Run
  /\ \E c \in {Normal, Exception} : Return(c)
  /\ RunsCode

\* Bug variant: a loop takes every break.
TakesAnyBreak == reg.type = "Break"
TakesBreak == reg.type = "Break" /\ NoTargetOr(Top.label)

\* A while does not take a continue without a label if it has one itself.
TakesContinue ==
  /\ reg.type = "Continue"
  /\ IF Top.kind = "while" THEN TargetIs(Top.label) ELSE NoTargetOr(Top.label)

BodyEnds ==
  /\ Counting /\ Top.phase = "body" /\ reg # Run
  /\ IF reg = Normal \/ TakesContinue
     THEN stack' = At("test") /\ reg' = Run /\ UNCHANGED scope
     ELSE Return(IF TakesBreak THEN Normal ELSE reg)
  /\ UNCHANGED target

-----------------------------------------------------------------------------
(* for-of *)

HeadThrows ==
  /\ Is("forOf", "head")
  /\ Abandon
  /\ RunsCode
HeadEnds ==
  /\ Is("forOf", "head")
  /\ stack' = At("next")
  /\ scope' = Top.scope
  /\ RunsCode
  /\ UNCHANGED reg

\* The finally clause of the loop closes the iterator with what it holds.
ToClose(c, it) ==
  /\ stack' = Over([Top EXCEPT !.phase = "closing", !.held = c, !.iterator = it])
  /\ reg' = Run
  /\ scope' = Top.scope

IteratorGives ==
  /\ Is("forOf", "next") /\ reg = Run
  /\ stack' = Over([Top EXCEPT !.phase = "body", !.iterator = "open"])
  /\ scope' = Append(Top.scope, "iteration")
  /\ RunsCode
  /\ UNCHANGED reg
\* An iterator at its end is closed, too.
IteratorEnds ==
  /\ Is("forOf", "next") /\ reg = Run
  /\ ToClose(Normal, "ended")
  /\ RunsCode
\* close has stayed false if this was the first call of next.
IteratorThrows ==
  /\ Is("forOf", "next") /\ reg = Run
  /\ RunsCode
  /\ IF Top.iterator = "open" THEN ToClose(Exception, "broken")
     ELSE Return(Exception)
\* The value cannot be assigned or taken apart.
BindingThrows ==
  /\ Is("forOf", "body") /\ reg = Run
  /\ RunsCode
  /\ ToClose(Exception, "open")

\* Bug variant: break and return leave the iterator open.
RoundEndsOpen ==
  /\ Is("forOf", "body") /\ reg # Run
  /\ UNCHANGED target
  /\ IF reg = Normal \/ TakesContinue
     THEN /\ stack' = At("next") /\ reg' = Run
          /\ scope' = Top.scope
     ELSE Return(IF TakesBreak THEN Normal ELSE reg)

RoundEnds ==
  /\ Is("forOf", "body") /\ reg # Run
  /\ UNCHANGED target
  /\ IF reg = Normal \/ TakesContinue
     THEN /\ stack' = At("next") /\ reg' = Run
          /\ scope' = Top.scope
     ELSE ToClose(IF TakesBreak THEN Normal ELSE reg, "open")

\* The iterator has no return (those of the engine have none), or one that is
\* user code.
Closed ==
  /\ Is("forOf", "closing")
  /\ RunsCode
  /\ Return(Recalled(Top.held, target'))
\* What return throws counts unless the loop holds an exception already.
CloseThrows ==
  /\ Is("forOf", "closing")
  /\ RunsCode
  /\ IF Top.held.type \in {"Throw", "Exception"} THEN Return(Top.held)
                                                ELSE Return(Exception)

-----------------------------------------------------------------------------
Next ==
  \/ Expression
  \/ \E type \in {"Return", "Throw"} : Leave(type)
  \/ \E type \in {"Break", "Continue"}, l \in Labels \cup {None} : Jump(type, l)
  \/ StartBlock
  \/ \E l \in Labels : StartLabeled(l)
  \/ \E catch, finally \in BOOLEAN : StartTry(catch, finally)
  \/ \E l \in Labels \cup {None} :
       \/ \E phase \in {"test", "body"} : StartWhile(l, phase)
       \/ StartFor(l) \/ StartForOf(l) \/ StartSwitch(l)
  \/ ListGoesOn \/ ListEnds
  \/ BlockEnds \/ Catch \/ CatchFails \/ CatchEnds \/ FinallyEnds
  \/ LabeledEnds
  \/ SelectClause \/ SelectThrows \/ SelectEnds \/ ClauseEnds
  \/ TestHolds \/ TestEnds \/ BodyEnds
  \/ HeadThrows \/ HeadEnds
  \/ IteratorGives \/ IteratorEnds \/ IteratorThrows \/ BindingThrows
  \/ RoundEnds \/ Closed \/ CloseThrows

Spec == Init /\ [][Next]_vars
=============================================================================
