---------------------------- MODULE CyclicModules ----------------------------
(***************************************************************************)
(* Linking and evaluation of ECMAScript modules: Engine.ImportModule, the  *)
(* depth-first searches of CyclicModuleRecord.Link and Evaluate, module    *)
(* bodies, and dynamic import.                                             *)
(*                                                                         *)
(* Everything runs on one thread, but a module body calls import(), which  *)
(* Host.ImportModuleDynamically carries out at once: an ImportModule call  *)
(* starts, with a search and a stack of its own, in the middle of another  *)
(* call's search.  The ImportModule calls in progress are therefore part   *)
(* of the state, and the searches advance one required module at a time.   *)
(*                                                                         *)
(* _hasTLA is assigned nowhere, so no module ever evaluates asynchronously *)
(* and EvaluatingAsync and the async-parent machinery are dead code.       *)
(***************************************************************************)
EXTENDS Integers, Sequences, SequencesExt

CONSTANTS
  Modules,        \* the modules the loader can produce
  Graphs,         \* the import graphs considered: functions to sequences
  Values,         \* integers: ToInt32 of a body's completion value
  Unconvertible,  \* a completion value on which ToInt32 throws
  NoModule,       \* null
  MaxCalls        \* bound: ImportModule calls of a run

ASSUME GraphsAssumption ==
  \A g \in Graphs : DOMAIN g \subseteq Modules /\ g \in [DOMAIN g -> Seq(DOMAIN g)]
ASSUME SentinelsAssumption == NoModule \notin Modules /\ Values \subseteq Int /\ Unconvertible \notin Values
ASSUME MaxCallsAssumption == MaxCalls \in Nat

VARIABLES
  requests,     \* _requestedModules, in source order
  status,       \* Status
  dfsIndex,     \* _dfsIndex
  dfsAncestor,  \* _dfsAncestorIndex
  cycleRoot,    \* _cycleRoot
  evalError,    \* the modules whose _evalError is set
  initialized,  \* the modules whose _environment is not null
  imports,      \* the ImportModule calls in progress, innermost last
  contexts,     \* module contexts on the execution context stack
  answer,       \* how the last ImportModule call ended
  calls,        \* ImportModule calls so far (see MaxCalls)
  body,         \* history: what became of each module's body
  fault         \* history: assertions that have failed

vars == <<requests, status, dfsIndex, dfsAncestor, cycleRoot, evalError, initialized,
          imports, contexts, answer, calls, body, fault>>
dfsVars == <<dfsIndex, dfsAncestor>>
recordVars == <<cycleRoot, evalError>>

Statuses == {"Unlinked", "Linking", "Linked", "Evaluating", "Evaluated"}

-----------------------------------------------------------------------------
(* The searches *)

\* A call of InnerModuleLinking or InnerModuleEvaluation on the control stack:
\* which required module comes next, and whether the body is running.
Visit(m) == [module |-> m, next |-> 1, body |-> FALSE]

\* An ImportModule call: the search it is in ("link" or "eval"), that search's
\* stack, the visits on the control stack, and the index the visits hand on.
Search(m, op) == [module |-> m, op |-> op, dfs |-> <<m>>, work |-> <<Visit(m)>>, index |-> 1]

Top == Last(imports)
Frame == Last(Top.work)
Me == Frame.module
Searching(op) == imports # <<>> /\ Top.op = op /\ Top.work # <<>>

Ahead == Frame.next <= Len(requests[Me])
Required == requests[Me][Frame.next]

\* Where m is on a search's stack; the modules popped when m completes its
\* component, and what stays.
Place(dfs, m) == CHOOSE i \in DOMAIN dfs : dfs[i] = m
Popped(dfs, m) == {dfs[i] : i \in Place(dfs, m) .. Len(dfs)}
RestAbove(dfs, m) == SubSeq(dfs, 1, Place(dfs, m))
Rest(dfs, m) == SubSeq(dfs, 1, Place(dfs, m) - 1)

IsRoot == dfsAncestor[Me] = dfsIndex[Me]

LowLink(r) == [dfsAncestor EXCEPT ![Me] =
                 IF dfsAncestor[r] < @ THEN dfsAncestor[r] ELSE @]

\* Go on to the next required module.
Stay == imports
Advance == [imports EXCEPT ![Len(imports)].work[Len(Top.work)].next = @ + 1]

\* Start the visit of m as part of the innermost search.
Enter(m, entered) ==
  /\ status' = [status EXCEPT ![m] = entered]
  /\ dfsIndex' = [dfsIndex EXCEPT ![m] = Top.index]
  /\ dfsAncestor' = [dfsAncestor EXCEPT ![m] = Top.index]
  /\ imports' = [imports EXCEPT ![Len(imports)] =
       [Top EXCEPT !.dfs = Append(@, m), !.work = Append(@, Visit(m)), !.index = @ + 1]]

\* Start a search of its own at m.
Begin(outer, m, op, entered) ==
  /\ status' = [status EXCEPT ![m] = entered]
  /\ dfsIndex' = [dfsIndex EXCEPT ![m] = 0]
  /\ dfsAncestor' = [dfsAncestor EXCEPT ![m] = 0]
  /\ imports' = Append(outer, Search(m, op))

\* The innermost ImportModule call ends; the body that made it goes on.
Return(ok) ==
  /\ imports' = Front(imports)
  /\ answer' = [module |-> Top.module, ok |-> ok]

\* An exception that no JavaScript code and no dynamic import catches ends all.
Unwind ==
  /\ imports' = <<>>
  /\ answer' = [module |-> imports[1].module, ok |-> FALSE]

-----------------------------------------------------------------------------
(* Linking *)

\* ImportModule by the host or, as import(), by the body that is running.
\* Only an unlinked module is linked and evaluated.
ImportModule(m) ==
  /\ imports = <<>> \/ (Searching("eval") /\ Frame.body)
  /\ calls < MaxCalls
  /\ calls' = calls + 1
  /\ \/ /\ status[m] = "Unlinked"
        /\ Begin(imports, m, "link", "Linking")
        /\ UNCHANGED answer
     \/ /\ status[m] # "Unlinked"
        /\ answer' = [module |-> m, ok |-> TRUE]
        /\ UNCHANGED <<status, imports, dfsVars>>
  /\ UNCHANGED <<requests, recordVars, initialized, contexts, body, fault>>

\* The catch block of Link: whatever its stack still holds is unlinked again.
ResetRootOnly(linked) == [linked EXCEPT ![Top.module] = "Unlinked"]
ResetAll(linked) == [m \in Modules |-> IF linked[m] = "Evaluated" THEN linked[m] ELSE "Unlinked"]
Reset(linked) == [m \in Modules |-> IF m \in ToSet(Top.dfs) THEN "Unlinked" ELSE linked[m]]

CleanUp ==
  /\ status' = Reset(status)
  /\ initialized' = initialized \ ToSet(Top.dfs)
  /\ dfsIndex' = [m \in Modules |-> IF m \in ToSet(Top.dfs) THEN -1 ELSE dfsIndex[m]]
  /\ dfsAncestor' = [m \in Modules |-> IF m \in ToSet(Top.dfs) THEN -1 ELSE dfsAncestor[m]]

\* A failed assertion while linking: Link cleans up and throws on.
LinkFault(kind) ==
  /\ CleanUp
  /\ Unwind
  /\ fault' = fault \cup {kind}
  /\ UNCHANGED recordVars

\* One turn of the loop of InnerModuleLinking.  When a visit of the required
\* module was made, the turn is finished after that visit has returned.
LinkRequired ==
  /\ Searching("link") /\ Ahead
  /\ \/ /\ status[Required] = "Unlinked"
        /\ Enter(Required, "Linking")
        /\ UNCHANGED <<initialized, answer, fault, recordVars>>
     \/ /\ status[Required] = "Evaluating"
        /\ LinkFault("link evaluating")
     \/ /\ status[Required] = "Linking"
        /\ Required \notin ToSet(Top.dfs)
        /\ LinkFault("link stack")
     \/ /\ status[Required] = "Linking"
        /\ Required \in ToSet(Top.dfs)
        /\ dfsAncestor' = LowLink(Required)
        /\ imports' = Advance
        /\ UNCHANGED <<status, dfsIndex, initialized, answer, fault, recordVars>>
     \/ /\ status[Required] \in {"Linked", "Evaluated"}
        /\ IF Required \in ToSet(Top.dfs) THEN LinkFault("link stack")
           ELSE /\ imports' = Advance
                /\ UNCHANGED <<status, dfsVars, initialized, answer, fault, recordVars>>
  /\ UNCHANGED <<requests, contexts, calls, body>>

\* What InnerModuleLinking asserts when all required modules are linked, and
\* InnerModuleEvaluation when the body has ended.
IndexBroken ==
  \/ \E i, j \in DOMAIN Top.dfs : i # j /\ Top.dfs[i] = Me /\ Top.dfs[j] = Me
  \/ dfsAncestor[Me] > dfsIndex[Me]

\* InitializeEnvironment and the end of InnerModuleLinking.
LinkFinish ==
  /\ Searching("link") /\ ~Ahead
  /\ IF IndexBroken
     THEN LinkFault("link index")
     ELSE LET done == IF IsRoot THEN Popped(Top.dfs, Me) ELSE {} IN
          /\ initialized' = initialized \cup {Me}
          /\ status' = [m \in Modules |-> IF m \in done THEN "Linked" ELSE status[m]]
          /\ imports' = [imports EXCEPT ![Len(imports)] =
               [Top EXCEPT !.dfs = IF IsRoot THEN Rest(@, Me) ELSE @, !.work = Front(@)]]
          /\ UNCHANGED <<dfsVars, answer, fault, recordVars>>
  /\ UNCHANGED <<requests, contexts, calls, body>>

\* The loader fails on a required module, or InitializeEnvironment on a name:
\* a JavaScript exception a dynamic import turns into a rejection, or another.
LinkThrows ==
  /\ Searching("link")
  /\ Ahead => status[Required] = "Unlinked"
  /\ CleanUp
  /\ Return(FALSE) \/ Unwind
  /\ UNCHANGED <<requests, recordVars, contexts, calls, body, fault>>

-----------------------------------------------------------------------------
(* Evaluation *)

\* The end of Link, then EvaluateModule and Evaluate up to the first visit.
EvaluateModule ==
  /\ imports # <<>> /\ Top.op = "link" /\ Top.work = <<>>
  /\ IF status[Top.module] = "Linked" /\ Top.dfs = <<>>
     THEN /\ Begin(Front(imports), Top.module, "eval", "Evaluating")
          /\ UNCHANGED <<answer, fault>>
     ELSE /\ Unwind
          /\ fault' = fault \cup {"not linked"}
          /\ UNCHANGED <<status, dfsVars>>
  /\ UNCHANGED <<requests, recordVars, initialized, contexts, calls, body>>

\* A throw completion reaches Evaluate through every visit of the search: the
\* modules its stack still holds become Evaluated with the error.
FailEverywhere(dfs) == {m \in Modules : status[m] = "Evaluating"}
Failing(dfs) == ToSet(dfs)

Fail(ended, dfs) ==
  /\ status' = [m \in Modules |-> IF m \in Failing(dfs) THEN "Evaluated" ELSE ended[m]]
  /\ evalError' = evalError \cup Failing(dfs)
  /\ Return(FALSE)

\* A failed assertion while evaluating: nothing cleans up.
EvalFault(kind) ==
  /\ Unwind
  /\ fault' = fault \cup {kind}
  /\ UNCHANGED <<status, dfsAncestor, recordVars>>

\* One turn of the loop of InnerModuleEvaluation; as with linking, the visit
\* of a required module comes back to the same turn.
EvalRequired ==
  /\ Searching("eval") /\ ~Frame.body /\ Ahead
  /\ \/ /\ status[Required] = "Linked"
        /\ Enter(Required, "Evaluating")
        /\ UNCHANGED <<recordVars, answer, fault>>
     \/ /\ status[Required] \in {"Unlinked", "Linking"}
        /\ EvalFault("eval unlinked")
        /\ UNCHANGED dfsIndex
     \/ /\ status[Required] = "Evaluating"
        /\ IF Required \in ToSet(Top.dfs)
           THEN /\ dfsAncestor' = LowLink(Required)
                /\ imports' = Advance
                /\ UNCHANGED <<status, recordVars, answer, fault>>
           ELSE EvalFault("eval other search")
        /\ UNCHANGED dfsIndex
     \/ /\ status[Required] = "Evaluated"
        /\ Required \in evalError
        /\ Fail(status, Top.dfs)
        /\ UNCHANGED <<cycleRoot, dfsVars, fault>>
     \/ /\ status[Required] = "Evaluated"
        /\ Required \notin evalError
        /\ LET root == cycleRoot[Required] IN
           IF root = NoModule \/ status[root] # "Evaluated" THEN EvalFault("eval root")
           ELSE IF root \in evalError
             THEN Fail(status, Top.dfs) /\ UNCHANGED <<cycleRoot, dfsAncestor, fault>>
             ELSE imports' = Advance /\ UNCHANGED <<status, recordVars, dfsAncestor, answer, fault>>
        /\ UNCHANGED dfsIndex
  /\ UNCHANGED <<requests, initialized, contexts, calls, body>>

\* ExecuteModule enters a context and runs the body, which may import.
AllButLastDone == Frame.next >= Len(requests[Me])
DependenciesDone == ~Ahead

StartBody ==
  /\ Searching("eval") /\ ~Frame.body
  /\ DependenciesDone
  /\ contexts' = Append(contexts, Me)
  /\ body' = [body EXCEPT ![Me] = "running"]
  /\ imports' = [imports EXCEPT ![Len(imports)].work[Len(Top.work)].body = TRUE]
  /\ UNCHANGED <<requests, status, dfsVars, recordVars, initialized, answer, calls, fault>>

\* ExecuteModule leaves the context of a body that ended, however it ended.
Leave == Front(contexts)

\* What the end of InnerModuleEvaluation does after the body, whether the body
\* returned or threw: a root completes its component.
Complete == IF IsRoot THEN Popped(Top.dfs, Me) ELSE {}
Remaining == IF IsRoot THEN Rest(Top.dfs, Me) ELSE Top.dfs
Completed == [m \in Modules |-> IF m \in Complete THEN "Evaluated" ELSE status[m]]

BodyEnds(how) ==
  /\ Searching("eval") /\ Frame.body
  /\ contexts' = Leave
  /\ body' = [body EXCEPT ![Me] = how]

CompletesCycle == cycleRoot' = [m \in Modules |-> IF m \in Complete THEN Me ELSE cycleRoot[m]]

\* TypeConverter.ToInt32 throws a TypeError on a symbol.
AlwaysConverts(v) == TRUE
Converts(v) == v # Unconvertible

\* The completion of a body that returned carries the body's value, and the
\* visit that waits for it takes ToInt32 of that value for its index.  (The code
\* that ToInt32 runs when the value is an object is not a step.)
BodyReturns(v) ==
  /\ BodyEnds("returned")
  /\ IF IndexBroken
     THEN EvalFault("eval index")
     ELSE /\ CompletesCycle
          /\ status' = Completed
          /\ \/ /\ Len(Top.work) = 1
                /\ IF status'[Top.module] = "Evaluated" /\ Top.module \notin evalError /\ Remaining = <<>>
                   THEN Return(TRUE) /\ UNCHANGED fault
                   ELSE Unwind /\ fault' = fault \cup {"not evaluated"}
             \/ /\ Len(Top.work) > 1 /\ Converts(v)
                /\ imports' = [imports EXCEPT ![Len(imports)] =
                     [Top EXCEPT !.dfs = Remaining, !.work = Front(@), !.index = v]]
                /\ UNCHANGED <<answer, fault>>
             \/ /\ Len(Top.work) > 1 /\ ~Converts(v)
                /\ Return(FALSE)
                /\ UNCHANGED fault
          /\ UNCHANGED <<dfsAncestor, evalError>>
  /\ UNCHANGED <<requests, dfsIndex, initialized, calls>>

\* The body throws: the component is completed all the same, then Evaluate
\* records the error on what is left of the stack.
BodyThrows ==
  /\ BodyEnds("threw")
  /\ IF IndexBroken
     THEN EvalFault("eval index")
     ELSE /\ CompletesCycle
          /\ Fail(Completed, Remaining)
          /\ UNCHANGED <<dfsAncestor, fault>>
  /\ UNCHANGED <<requests, dfsIndex, initialized, calls>>

\* A constraint or a host function raises an exception JavaScript cannot catch.
BodyAborts ==
  /\ Searching("eval") /\ Frame.body
  /\ Unwind
  /\ UNCHANGED <<requests, status, dfsVars, recordVars, initialized, contexts, calls, body, fault>>

-----------------------------------------------------------------------------
Init ==
  /\ requests \in Graphs
  /\ status = [m \in Modules |-> "Unlinked"]
  /\ dfsIndex = [m \in Modules |-> 0]
  /\ dfsAncestor = [m \in Modules |-> 0]
  /\ cycleRoot = [m \in Modules |-> NoModule]
  /\ evalError = {}
  /\ initialized = {}
  /\ imports = <<>>
  /\ contexts = <<>>
  /\ answer = [module |-> NoModule, ok |-> FALSE]
  /\ calls = 0
  /\ body = [m \in Modules |-> "not started"]
  /\ fault = {}

\* What the engine does once a call is in progress; bodies end sooner or later.
Step ==
  \/ LinkRequired \/ LinkFinish \/ LinkThrows
  \/ EvaluateModule \/ EvalRequired \/ StartBody
  \/ \E v \in Values \cup {Unconvertible} : BodyReturns(v)
  \/ BodyThrows \/ BodyAborts

Next == Step \/ \E m \in DOMAIN requests : ImportModule(m)

Spec == Init /\ [][Next]_vars /\ WF_vars(Step)
=============================================================================
