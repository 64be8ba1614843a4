---------------------------- MODULE EngineStacks ----------------------------
(***************************************************************************)
(* The stacks an Engine keeps beside the C# stack, and the execution       *)
(* constraints: JintCallStack with its recursion statistics, the execution *)
(* contexts, the strict-mode count, the active evaluation context and the  *)
(* statement limit.                                                        *)
(*                                                                         *)
(* The engine is single-threaded and re-entrant: a script calls a host     *)
(* function, the host function calls Execute, Invoke, Call or Construct on *)
(* the same engine, and any level can throw while any level below catches. *)
(* "frames" is the C# stack; every frame that is left, by a return or by   *)
(* an exception, runs its finally blocks.                                  *)
(***************************************************************************)
EXTENDS Integers, Sequences, FiniteSets

CONSTANTS
  ScriptFunctions,    \* functions with a JavaScript body
  StrictFunctions,    \* those whose code is strict
  HostFunctions,      \* delegates of the host
  NoFunction,         \* the function of a frame that runs none
  MaxRecursionDepth,  \* Options.Constraints.MaxRecursionDepth, -1 for none
  MaxStatements,      \* MaxStatementsConstraint.MaxStatements, 0 for none
  MaxOps              \* bound: calls, entries and throws of a run

Functions == ScriptFunctions \cup HostFunctions

ASSUME FunctionsAssumption ==
  /\ StrictFunctions \subseteq ScriptFunctions
  /\ ScriptFunctions \cap HostFunctions = {}
  /\ NoFunction \notin Functions
ASSUME LimitsAssumption == MaxRecursionDepth \in Nat \cup {-1} /\ MaxStatements \in Nat /\ MaxOps \in Nat

VARIABLES
  frames,      \* the C# stack, innermost first
  thrown,      \* the exception that is unwinding frames: "none", "js" or "clr"
  callStack,   \* JintCallStack._stack, innermost first
  statistics,  \* JintCallStack._statistics; -1 stands for an absent key
  contexts,    \* what the execution contexts above the global one belong to
  strictCount, \* StrictModeScope._refCount
  active,      \* _activeEvaluationContext is not null
  statements,  \* MaxStatementsConstraint._statementsCount
  ops          \* calls, entries and throws so far (see MaxOps)

vars == <<frames, thrown, callStack, statistics, contexts, strictCount, active, statements,
          ops>>

\* "script", "declare" and "jobs" are the parts of ScriptEvaluation; "enter" and
\* "entered" are Invoke, Call and Construct of the host before and after the
\* function is called; the others are a function, by how it was called.
Entries == {"declare", "script", "jobs", "enter", "entered"}
Calls == {"direct", "call", "construct"}
Frames == [kind : Entries \cup Calls, fn : Functions \cup {NoFunction}, how : Calls,
           strict : BOOLEAN, saved : Nat, owns : BOOLEAN]

Idle == frames = <<>>
Top == Head(frames)
RunsScript(frame) == frame.kind \in {"declare", "script", "jobs"} \/
  (frame.kind \in Calls /\ frame.fn \in ScriptFunctions)
InScript == ~Idle /\ thrown = "none" /\ (Top.kind = "script" \/
  (Top.kind \in Calls /\ Top.fn \in ScriptFunctions))
InHost == thrown = "none" /\ (~Idle => Top.kind \in Calls /\ Top.fn \in HostFunctions)
Count(strict) == IF strict THEN 1 ELSE 0

Op == ops < MaxOps /\ ops' = ops + 1

-----------------------------------------------------------------------------
(* JintCallStack *)

TracksRecursion == MaxRecursionDepth >= 0

\* What Push(f) returns.
Depth(f) == IF TracksRecursion THEN statistics[f] + 1 ELSE -1

Push(f) ==
  /\ callStack' = <<f>> \o callStack
  /\ statistics' = IF TracksRecursion THEN [statistics EXCEPT ![f] = @ + 1] ELSE statistics

\* An element that leaves the stack leaves the statistics.
UncountAlways(f) == [statistics EXCEPT ![f] = -1]
Uncount(f) == IF TracksRecursion THEN [statistics EXCEPT ![f] = @ - 1] ELSE statistics

\* CallStack.Pop() of a stack that is not empty.
Pop == callStack' = Tail(callStack) /\ statistics' = Uncount(Head(callStack))

\* ResetCallStack, JintCallStack.Clear.
ClearStackOnly == callStack' = <<>> /\ UNCHANGED statistics
Clear == callStack' = <<>> /\ statistics' = [f \in Functions |-> -1]

-----------------------------------------------------------------------------
(* Entering *)

\* The start of ExecuteWithConstraints.
BeginExecution == statements' = 0 /\ active' = TRUE

\* Engine.Execute(script) up to GlobalDeclarationInstantiation.
Execute(strict) ==
  /\ InHost /\ Op
  /\ BeginExecution
  /\ frames' = <<[kind |-> "declare", fn |-> NoFunction, how |-> "direct", strict |-> strict,
                  saved |-> 0, owns |-> ~active]>> \o frames
  /\ contexts' = <<NoFunction>> \o contexts
  /\ strictCount' = strictCount + Count(strict)
  /\ UNCHANGED <<thrown, callStack, statistics>>

\* Invoke (which calls the function directly), Call and Construct of the host. They
\* run as strict as Options.Strict says, which the host may set between them.
Enter(f, how, strict) ==
  /\ InHost /\ Op
  /\ BeginExecution
  /\ frames' = <<[kind |-> "enter", fn |-> f, how |-> how, strict |-> strict,
                  saved |-> 0, owns |-> ~active]>> \o frames
  /\ strictCount' = strictCount + Count(strict)
  /\ UNCHANGED <<thrown, callStack, statistics, contexts>>

\* A function is called on top of "below".  The recursion check pops the element
\* it refuses; script code runs in a context and a strictness of its own.
ForgetOverflow(f) == Push(f)
Overflow(f) == UNCHANGED <<callStack, statistics>>

CallFunction(f, how, below) ==
  IF how # "direct" /\ Depth(f) > MaxRecursionDepth
  THEN /\ Overflow(f)
       /\ thrown' = "clr"
       /\ frames' = below
       /\ UNCHANGED <<contexts, strictCount>>
  ELSE /\ IF how = "direct" THEN UNCHANGED <<callStack, statistics>> ELSE Push(f)
       /\ frames' = <<[kind |-> how, fn |-> f, how |-> how, strict |-> f \in StrictFunctions,
                       saved |-> strictCount, owns |-> FALSE]>> \o below
       /\ IF f \in ScriptFunctions
          THEN contexts' = <<f>> \o contexts /\ strictCount' = Count(f \in StrictFunctions)
          ELSE UNCHANGED <<contexts, strictCount>>
       /\ UNCHANGED thrown

\* Script code calls (JintCallExpression) or constructs (JintNewExpression); a
\* native such as Array.prototype.map, or a getter, calls back directly.
ScriptCalls(f, how) ==
  /\ InScript /\ Op
  /\ CallFunction(f, how, frames)
  /\ UNCHANGED <<active, statements>>

\* The host's entry calls its function; a job calls a promise handler.
EntryCalls ==
  /\ ~Idle /\ thrown = "none" /\ Top.kind = "enter"
  /\ CallFunction(Top.fn, Top.how, <<[Top EXCEPT !.kind = "entered"]>> \o Tail(frames))
  /\ UNCHANGED <<active, statements, ops>>

JobCalls(f) ==
  /\ ~Idle /\ thrown = "none" /\ Top.kind = "jobs" /\ Op
  /\ CallFunction(f, "direct", frames)
  /\ UNCHANGED <<active, statements>>

-----------------------------------------------------------------------------
(* Running *)

\* MaxStatementsConstraint.Check, then the statement.
OverLimit == MaxStatements > 0 /\ statements > MaxStatements

Statement ==
  /\ InScript
  /\ statements' = IF MaxStatements > 0 THEN statements + 1 ELSE statements
  /\ thrown' = IF OverLimit THEN "clr" ELSE thrown
  /\ UNCHANGED <<frames, callStack, statistics, contexts, strictCount, active, ops>>

\* From one part of ScriptEvaluation to the next.
NextPart ==
  /\ ~Idle /\ thrown = "none" /\ Top.kind \in {"declare", "script"}
  /\ frames' = <<[Top EXCEPT !.kind = IF @ = "declare" THEN "script" ELSE "jobs"]>> \o Tail(frames)
  /\ UNCHANGED <<thrown, callStack, statistics, contexts, strictCount, active, statements,
                 ops>>

\* Code throws: a declaration or JavaScript code a JavaScript exception, a
\* host function or a job that calls one an exception of any kind.
Throw(kind) ==
  /\ ~Idle /\ thrown = "none" /\ Op
  /\ Top.kind \notin {"enter", "entered"}
  /\ kind = "clr" => Top.kind = "jobs" \/ Top.fn \in HostFunctions
  /\ thrown' = kind
  /\ UNCHANGED <<frames, callStack, statistics, contexts, strictCount, active, statements>>

\* try-catch in JavaScript stops only JavaScript exceptions, in the host any.
Catch ==
  /\ ~Idle /\ thrown # "none"
  /\ \/ thrown = "js" /\ (Top.kind = "script" \/ Top.kind \in Calls)
     \/ Top.kind \in Calls /\ Top.fn \in HostFunctions
  /\ thrown' = "none"
  /\ UNCHANGED <<frames, callStack, statistics, contexts, strictCount, active, statements,
                 ops>>

-----------------------------------------------------------------------------
(* Leaving *)

\* The finally blocks of ScriptFunctionInstance.Call and of ScriptEvaluation.
LeaveOnReturn(failed) == IF failed \/ ~RunsScript(Top) THEN contexts ELSE Tail(contexts)
LeaveContext(failed) == IF RunsScript(Top) THEN Tail(contexts) ELSE contexts

\* StrictModeScope.Dispose.
UnforcedStrictness == strictCount - Count(Top.strict)
Strictness ==
  IF Top.kind \in Entries THEN strictCount - Count(Top.strict)
  ELSE IF Top.fn \in ScriptFunctions THEN Top.saved ELSE strictCount

\* What the finally block of a call does to the call stack, and what the catch
\* block of ScriptEvaluation does: only Call and JintCallExpression look whether
\* the stack was cleared in the meantime.
LeaveCallStack(failed) ==
  CASE Top.kind \in {"call", "construct"} /\ callStack # <<>> -> Pop
    [] Top.kind = "script" /\ failed -> Clear
    [] OTHER -> UNCHANGED <<callStack, statistics>>

\* CallStack.Pop() of an empty stack throws, which only Construct can meet.
PopsNothing == Top.kind = "construct" /\ callStack = <<>>

ActiveAfter == IF Top.owns THEN FALSE ELSE active

LeaveFrame(failed) ==
  /\ frames' = Tail(frames)
  /\ contexts' = LeaveContext(failed)
  /\ strictCount' = Strictness
  /\ LeaveCallStack(failed)
  /\ active' = ActiveAfter
  /\ statements' = IF Top.kind \in Entries THEN 0 ELSE statements

Return ==
  /\ ~Idle /\ thrown = "none" /\ Top.kind \in Calls \cup {"jobs", "entered"}
  /\ LeaveFrame(FALSE)
  /\ thrown' = IF PopsNothing THEN "clr" ELSE "none"
  /\ UNCHANGED ops

Unwind ==
  /\ ~Idle /\ thrown # "none"
  /\ LeaveFrame(TRUE)
  /\ thrown' = IF Len(frames) = 1 THEN "none" ELSE IF PopsNothing THEN "clr" ELSE thrown
  /\ UNCHANGED ops

-----------------------------------------------------------------------------
Init ==
  /\ frames = <<>>
  /\ thrown = "none"
  /\ callStack = <<>>
  /\ statistics = [f \in Functions |-> -1]
  /\ contexts = <<>>
  /\ strictCount = 0
  /\ active = FALSE
  /\ statements = 0
  /\ ops = 0

Host ==
  \E strict \in BOOLEAN :
    \/ Execute(strict)
    \/ \E f \in Functions, how \in Calls : Enter(f, how, strict)

Step ==
  \/ \E f \in Functions, how \in Calls : ScriptCalls(f, how)
  \/ \E f \in Functions : JobCalls(f)
  \/ EntryCalls \/ Statement \/ NextPart
  \/ (\E kind \in {"js", "clr"} : Throw(kind)) \/ Catch
  \/ Return \/ Unwind

Next == Host \/ Step

Spec == Init /\ [][Next]_vars
=============================================================================
