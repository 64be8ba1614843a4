------------------------ MODULE EngineStackProperties ------------------------
(* What should hold of the engine's stacks and limits; see EngineStacks. *)
EXTENDS EngineStacks

\* The positions of the frames that pushed an element on the call stack, and of
\* those whose body runs in an execution context of its own.
Pushing(fs) == {i \in DOMAIN fs : fs[i].kind \in {"call", "construct"}}
Running(fs) == {i \in DOMAIN fs : RunsScript(fs[i])}

\* The list has the functions of the frames at the positions S, innermost first,
\* as far as it goes: i is the Rank(S, i)-th of them.
Rank(S, i) == Cardinality({j \in S : j <= i})
Lists(list, fs, S) ==
  /\ Len(list) <= Cardinality(S)
  /\ \A i \in S : Rank(S, i) <= Len(list) => list[Rank(S, i)] = fs[i].fn

Occurrences(s, f) == Cardinality({i \in DOMAIN s : s[i] = f})

\* Every variable has its type.
TypeOK ==
  /\ frames \in Seq(Frames)
  /\ thrown \in {"none", "js", "clr"}
  /\ callStack \in Seq(Functions)
  /\ statistics \in [Functions -> Nat \cup {-1}]
  /\ contexts \in Seq(ScriptFunctions \cup {NoFunction})
  /\ strictCount \in Nat
  /\ active \in BOOLEAN
  /\ statements \in Nat
  /\ ops \in 0 .. MaxOps

CallStackMatches == Lists(callStack, frames, Pushing(frames))
StatisticsMatch == TracksRecursion =>
  \A f \in Functions : statistics[f] = Occurrences(callStack, f) - 1
ContextPerFrame ==
  /\ Lists(contexts, frames, Running(frames))
  /\ Len(contexts) = Cardinality(Running(frames))

\* The engine's stacks tell what is in progress, whatever returned, threw,
\* overflowed, was refused or was reset. The call stack lists the innermost
\* calls, in order: a nested script that failed may have cut calls off at its
\* bottom, but no pop takes away another frame's element (Engine.cs:1387-1394).
\* The recursion statistics count the elements of the call stack
\* (JintCallStack.cs:58-106). Every script and function with a body in progress
\* has exactly one execution context, and an exception leaves none behind.
StacksMatch == CallStackMatches /\ StatisticsMatch /\ ContextPerFrame

\* Functions and the outermost script run in their own strictness, whatever ran
\* in between, and nothing is left of it in the end (StrictModeScope).
StrictMode ==
  /\ Idle => strictCount = 0
  /\ InScript /\ (Top.kind \in Calls \/ Len(frames) = 1) => (strictCount > 0 <=> Top.strict)
=============================================================================
