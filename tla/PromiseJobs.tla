----------------------------- MODULE PromiseJobs -----------------------------
(***************************************************************************)
(* The engine's event loop and its promises: Engine.RunAvailableContinua-  *)
(* tions over a FIFO queue of jobs, PromiseInstance, the promise jobs of   *)
(* PromiseOperations, async functions, await, and the ways a host enters   *)
(* the engine.                                                             *)
(*                                                                         *)
(* One thread runs everything, but it re-enters itself: "await" drains the *)
(* queue in the middle of a job, a host function called from a script may  *)
(* call Execute or settle a manual promise, a thenable's "then" getter is  *)
(* user code that runs in the middle of resolve.  The control stack is     *)
(* therefore part of the state (top first).  User code is nondeterministic:*)
(* a user frame takes any operation the API gives it, then returns or      *)
(* throws.                                                                 *)
(***************************************************************************)
EXTENDS Integers, Sequences, FiniteSets

CONSTANTS
  NumPromises,     \* bound: promises the run may create
  Plain,           \* values that are not objects
  Objects,         \* objects with a user-defined "then" property
  SelfResolution,  \* the TypeError of "Cannot resolve Promise with itself"
  NoValue,         \* the Value of a promise that is not settled
  MaxOps           \* bound: calls user code and the host may make

NoPromise == 0
Promises == 1 .. NumPromises
Values == Plain \cup Objects \cup {SelfResolution} \cup Promises

ASSUME BoundsAssumption == NumPromises \in Nat \ {0} /\ MaxOps \in Nat
ASSUME ValuesAssumption ==
  /\ Plain \cap Objects = {}
  /\ SelfResolution \notin Plain \cup Objects
  /\ NoValue \notin Values
  /\ \A v \in Plain \cup Objects \cup {SelfResolution} : v \notin Nat

VARIABLES
  created,     \* promises 1..created exist, in the order of their creation
  state,       \* PromiseInstance.State
  value,       \* PromiseInstance.Value
  fulfillReactions,  \* PromiseFulfillReactions
  rejectReactions,   \* PromiseRejectReactions
  pairs,       \* number of CreateResolvingFunctions calls per promise
  live,        \* resolving functions whose alreadyResolved is still false
  exposed,     \* resolving functions user code holds
  manual,      \* resolving functions the host holds as a ManualPromise
  queue,       \* EventLoop.Events
  stack,       \* the control stack, top first
  ops,         \* calls made so far (see MaxOps)
  faulted,     \* history: "Promise should be in Pending state" was thrown
  origin,      \* history: the then() call that created a promise
  lost,        \* history: promises whose settling code an exception unwound
  unwound      \* history: an exception has unwound to the host

vars == <<created, state, value, fulfillReactions, rejectReactions, pairs, live,
          exposed, manual, queue, stack, ops, faulted, origin, lost, unwound>>
promiseVars == <<state, value, fulfillReactions, rejectReactions>>
history == <<origin, lost, unwound>>

-----------------------------------------------------------------------------
(* Handlers, reactions, jobs, frames *)

Pairs == Promises \X Nat

\* What a reaction calls: nothing, a user function, or a resolving function
\* that a thenable job handed to then().
Handlers == [kind : {"none", "user", "resolve", "reject"}, pair : Pairs]
Plainly(kind) == [kind |-> kind, pair |-> <<1, 0>>]

\* cap is the promise of the reaction's capability.  NoPromise stands for the
\* derived promise nobody holds that Promise.prototype.then makes for a
\* thenable job: no reaction can ever reach it.
Caps == Promises \cup {NoPromise}
Reactions == [cap : Caps, handler : Handlers]

\* "Fulfill" and "Reject" are NewPromiseReactionJob by reaction type;
\* "Thenable" is NewPromiseResolveThenableJob for the promise cap.
Jobs == [kind : {"Fulfill", "Reject"}, cap : Caps, handler : Handlers, arg : Values]
        \cup [kind : {"Thenable"}, cap : Promises, handler : Handlers,
              arg : Promises \cup Objects]
ReactionJob(kind, r, v) ==
  [kind |-> kind, cap |-> r.cap, handler |-> r.handler, arg |-> v]
ThenableJob(p, x) ==
  [kind |-> "Thenable", cap |-> p, handler |-> Plainly("none"), arg |-> x]

EntryKinds == {"script", "invoke", "drain"}  \* frames a host call made
UserKinds == {"script", "invoke", "handler", "thencall", "getthen", "async"}
LoopKinds == {"drain", "await", "import"}    \* RunAvailableContinuations
LossyKinds == {"handler", "getthen", "async"}
Frames == [kind : (EntryKinds \cup UserKinds \cup LoopKinds) \ {"getthen"},
           p : Caps, n : Nat, x : Values \cup {NoValue}]
          \cup [kind : {"getthen"}, p : Promises, n : Nat, x : Objects]
Frame(kind, p, n, x) == [kind |-> kind, p |-> p, n |-> n, x |-> x]
Entry(kind) == Frame(kind, NoPromise, 0, NoValue)
Push(f, s) == <<f>> \o s

Top == stack[1]
UserOnTop == stack # <<>> /\ Top.kind \in UserKinds
LoopOnTop == stack # <<>> /\ Top.kind \in LoopKinds
Exists(p) == p <= created

\* Promises a program can name: the promise of an async call only once the call
\* has returned.
InAsyncCall(q) == \E i \in 1 .. Len(stack) : stack[i].kind = "async" /\ stack[i].p = q
Handed == {q \in Promises : Exists(q) /\ ~InAsyncCall(q)}
UserValues == Plain \cup Objects \cup Handed

Spend == ops < MaxOps /\ ops' = ops + 1

Init ==
  /\ created = 0
  /\ state = [p \in Promises |-> "Pending"]
  /\ value = [p \in Promises |-> NoValue]
  /\ fulfillReactions = [p \in Promises |-> <<>>]
  /\ rejectReactions = [p \in Promises |-> <<>>]
  /\ pairs = [p \in Promises |-> 0]
  /\ live = {} /\ exposed = {} /\ manual = {}
  /\ queue = <<>> /\ stack = <<>>
  /\ ops = 0
  /\ faulted = FALSE
  /\ origin = [p \in Promises |-> [source |-> NoPromise, onF |-> FALSE, onR |-> FALSE]]
  /\ lost = {}
  /\ unwound = FALSE

-----------------------------------------------------------------------------
(* PromiseInstance.  Each operator takes the queue q it appends to, since   *)
(* the job that runs it has already been dequeued, and the stack s that is  *)
(* left when it is done.                                                    *)

\* Bug variant: the reactions are enqueued last first.
TriggerReversed(kind, reactions, v) ==
  [i \in 1 .. Len(reactions) |-> ReactionJob(kind, reactions[Len(reactions) + 1 - i], v)]

TriggerPromiseReactions(kind, reactions, v) ==
  [i \in 1 .. Len(reactions) |-> ReactionJob(kind, reactions[i], v)]

\* FulfillPromise and RejectPromise: settle, hand one list of reactions to the
\* queue, clear both.  Settling twice throws InvalidOperationException.
Settle(p, outcome, kind, reactions, v, q) ==
  IF state[p] # "Pending"
  THEN /\ faulted' = TRUE
       /\ queue' = q
       /\ UNCHANGED promiseVars
  ELSE /\ state' = [state EXCEPT ![p] = outcome]
       /\ value' = [value EXCEPT ![p] = v]
       /\ fulfillReactions' = [fulfillReactions EXCEPT ![p] = <<>>]
       /\ rejectReactions' = [rejectReactions EXCEPT ![p] = <<>>]
       /\ queue' = q \o TriggerPromiseReactions(kind, reactions, v)
       /\ UNCHANGED faulted

\* Bug variant: the value is not stored.
RejectWithoutValue(p, v, q) ==
  Settle(p, "Rejected", "Reject", rejectReactions[p], NoValue, q)

FulfillPromise(p, v, q) ==
  Settle(p, "Fulfilled", "Fulfill", fulfillReactions[p], v, q)
RejectPromise(p, v, q) ==
  Settle(p, "Rejected", "Reject", rejectReactions[p], v, q)

\* Bug variant: the job is forgotten.
ForgetThenableJob(p, x, q) == queue' = q /\ UNCHANGED <<promiseVars, faulted>>

EnqueueThenableJob(p, x, q) ==
  /\ queue' = Append(q, ThenableJob(p, x))
  /\ UNCHANGED <<promiseVars, faulted>>

\* Resolve after alreadyResolved: reading "then" of a user object runs user code
\* (frame "getthen"); a promise's "then" is the built-in method.
Resolve(p, x, q, s) ==
  \/ /\ x = p
     /\ RejectPromise(p, SelfResolution, q)
     /\ stack' = s
  \/ /\ x \in Plain \cup {SelfResolution}
     /\ FulfillPromise(p, x, q)
     /\ stack' = s
  \/ /\ x \in Promises \ {p}
     /\ EnqueueThenableJob(p, x, q)
     /\ stack' = s
  \/ /\ x \in Objects
     /\ stack' = Push(Frame("getthen", p, 0, x), s)
     /\ queue' = q
     /\ UNCHANGED <<promiseVars, faulted>>

AlreadyResolved(q, s) ==
  /\ queue' = q
  /\ stack' = s
  /\ UNCHANGED <<promiseVars, faulted, live>>

\* Bug variant: alreadyResolved is not read.
ResolveUnguarded(pair, x, q, s) ==
  live' = live \ {pair} /\ Resolve(pair[1], x, q, s)

\* The two closures of CreateResolvingFunctions, sharing alreadyResolved.
CallResolve(pair, x, q, s) ==
  IF pair \notin live
  THEN AlreadyResolved(q, s)
  ELSE /\ live' = live \ {pair}
       /\ Resolve(pair[1], x, q, s)

CallReject(pair, v, q, s) ==
  IF pair \notin live
  THEN AlreadyResolved(q, s)
  ELSE /\ live' = live \ {pair}
       /\ RejectPromise(pair[1], v, q)
       /\ stack' = s

\* NewPromiseCapability / new PromiseInstance: the next promise, its first pair.
NewPromise ==
  /\ created < NumPromises
  /\ created' = created + 1
  /\ pairs' = [pairs EXCEPT ![created + 1] = 1]
  /\ live' = live \cup {<<created + 1, 1>>}

\* Promise.prototype.then after NewPromiseCapability: the reaction pair is
\* registered on a pending promise, enqueued at once on a settled one.
PerformPromiseThen(p, onF, onR, cap, q) ==
  LET onFulfilled == [cap |-> cap, handler |-> onF]
      onRejected == [cap |-> cap, handler |-> onR]
  IN /\ \/ /\ state[p] = "Pending"
           /\ fulfillReactions' = [fulfillReactions EXCEPT ![p] = Append(@, onFulfilled)]
           /\ rejectReactions' = [rejectReactions EXCEPT ![p] = Append(@, onRejected)]
           /\ queue' = q
        \/ /\ state[p] = "Fulfilled"
           /\ queue' = Append(q, ReactionJob("Fulfill", onFulfilled, value[p]))
           /\ UNCHANGED <<fulfillReactions, rejectReactions>>
        \/ /\ state[p] = "Rejected"
           /\ queue' = Append(q, ReactionJob("Reject", onRejected, value[p]))
           /\ UNCHANGED <<fulfillReactions, rejectReactions>>
     /\ UNCHANGED <<state, value, faulted>>

-----------------------------------------------------------------------------
(* What the host does: when the engine is idle, or from a host function that *)
(* user code calls.                                                          *)

HostMayCall == stack = <<>> \/ UserOnTop

\* Engine.Execute: a script, then (if it completes) the drain of ScriptEvaluation.
Execute ==
  /\ HostMayCall
  /\ Spend
  /\ stack' = Push(Entry("script"), stack)
  /\ UNCHANGED <<created, promiseVars, pairs, live, exposed, manual, queue, faulted, history>>

\* Engine.Invoke: user code with no drain after it.
Invoke ==
  /\ HostMayCall
  /\ Spend
  /\ stack' = Push(Entry("invoke"), stack)
  /\ UNCHANGED <<created, promiseVars, pairs, live, exposed, manual, queue, faulted, history>>

RegisterPromise ==
  /\ HostMayCall
  /\ Spend
  /\ NewPromise
  /\ manual' = manual \cup {<<created + 1, 1>>}
  /\ UNCHANGED <<promiseVars, exposed, queue, stack, faulted, history>>

\* ManualPromise.Resolve and Reject: settle, then RunAvailableContinuations.
HostResolve(pair, x) ==
  /\ HostMayCall
  /\ Spend
  /\ pair \in manual
  /\ x \in UserValues
  /\ CallResolve(pair, x, queue, Push(Entry("drain"), stack))
  /\ UNCHANGED <<created, pairs, exposed, manual, history>>

HostReject(pair, v) ==
  /\ HostMayCall
  /\ Spend
  /\ pair \in manual
  /\ v \in Plain
  /\ CallReject(pair, v, queue, Push(Entry("drain"), stack))
  /\ UNCHANGED <<created, pairs, exposed, manual, history>>

-----------------------------------------------------------------------------
(* What user code does *)

\* new Promise(executor): the executor, run at once, is the code that follows;
\* from now on user code holds the pair.  Promise.resolve(x) of a value that is
\* not a promise is this followed by UserResolve.
Construct ==
  /\ UserOnTop
  /\ Spend
  /\ NewPromise
  /\ exposed' = exposed \cup {<<created + 1, 1>>}
  /\ UNCHANGED <<promiseVars, manual, queue, stack, faulted, history>>

\* q.then(onF, onR), q.catch(onR)
Then(q, onF, onR) ==
  /\ UserOnTop
  /\ Spend
  /\ q \in Handed
  /\ NewPromise
  /\ origin' = [origin EXCEPT ![created + 1] =
                  [source |-> q, onF |-> onF, onR |-> onR]]
  /\ PerformPromiseThen(q, Plainly(IF onF THEN "user" ELSE "none"),
                        Plainly(IF onR THEN "user" ELSE "none"), created + 1, queue)
  /\ UNCHANGED <<exposed, manual, stack, lost, unwound>>

UserResolve(pair, x) ==
  /\ UserOnTop
  /\ Spend
  /\ pair \in exposed
  /\ x \in UserValues
  /\ CallResolve(pair, x, queue, stack)
  /\ UNCHANGED <<created, pairs, exposed, manual, history>>

UserReject(pair, v) ==
  /\ UserOnTop
  /\ Spend
  /\ pair \in exposed
  /\ v \in Plain
  /\ CallReject(pair, v, queue, stack)
  /\ UNCHANGED <<created, pairs, exposed, manual, history>>

\* Calling an async function: AsyncFunctionStart runs the body on top of the
\* caller; the pair of its promise belongs to AsyncBlockStart.
CallAsync ==
  /\ UserOnTop
  /\ Spend
  /\ NewPromise
  /\ stack' = Push(Frame("async", created + 1, 1, NoValue), stack)
  /\ UNCHANGED <<promiseVars, exposed, manual, queue, faulted, history>>

\* JintAwaitExpression: the operand is evaluated, then the loop runs right here.
Await(x) ==
  /\ UserOnTop /\ Top.kind = "async"
  /\ Spend
  /\ x \in UserValues
  /\ stack' = Push(Frame("await", NoPromise, 0, x), stack)
  /\ UNCHANGED <<created, promiseVars, pairs, live, exposed, manual, queue, faulted, history>>

\* import() ends with a loop in the middle of any user code.  What it does first
\* (Host.ImportModuleDynamically) is RegisterPromise, HostResolve or HostReject,
\* and Then.
Import ==
  /\ UserOnTop
  /\ Spend
  /\ stack' = Push(Frame("import", NoPromise, 0, NoValue), stack)
  /\ UNCHANGED <<created, promiseVars, pairs, live, exposed, manual, queue, faulted, history>>

\* A script that completes drains the queue; an Invoke just returns.
ReturnToHost ==
  /\ UserOnTop
  /\ \/ /\ Top.kind = "script"
        /\ stack' = Push(Entry("drain"), Tail(stack))
     \/ /\ Top.kind = "invoke"
        /\ stack' = Tail(stack)
  /\ UNCHANGED <<created, promiseVars, pairs, live, exposed, manual, queue, ops, faulted, history>>

\* A script or Invoke that throws leaves the queue as it is.
ThrowToHost ==
  /\ UserOnTop
  /\ Top.kind \in {"script", "invoke"}
  /\ stack' = Tail(stack)
  /\ UNCHANGED <<created, promiseVars, pairs, live, exposed, manual, queue, ops, faulted, history>>

\* A handler's result resolves the derived promise; an async body's its promise.
ReturnToCapability(x) ==
  /\ UserOnTop
  /\ Top.kind \in {"handler", "async"}
  /\ x \in UserValues
  /\ CallResolve(<<Top.p, 1>>, x, queue, Tail(stack))
  /\ UNCHANGED <<created, pairs, exposed, manual, ops, history>>

ThrowToCapability(v) ==
  /\ UserOnTop
  /\ Top.kind \in {"handler", "async"}
  /\ v \in Plain
  /\ CallReject(<<Top.p, 1>>, v, queue, Tail(stack))
  /\ UNCHANGED <<created, pairs, exposed, manual, ops, history>>

\* A thenable's then() method returns, or throws: its pair is then rejected.
ReturnFromThen ==
  /\ UserOnTop
  /\ Top.kind = "thencall"
  /\ stack' = Tail(stack)
  /\ UNCHANGED <<created, promiseVars, pairs, live, exposed, manual, queue, ops, faulted, history>>

ThrowFromThen(v) ==
  /\ UserOnTop
  /\ Top.kind = "thencall"
  /\ v \in Plain
  /\ CallReject(<<Top.p, Top.n>>, v, queue, Tail(stack))
  /\ UNCHANGED <<created, pairs, exposed, manual, ops, history>>

\* The "then" getter that Resolve called: a callable result makes a thenable job,
\* any other result fulfills with the object, an exception rejects.
GotCallableThen ==
  /\ UserOnTop
  /\ Top.kind = "getthen"
  /\ stack' = Tail(stack)
  /\ EnqueueThenableJob(Top.p, Top.x, queue)
  /\ UNCHANGED <<created, pairs, live, exposed, manual, ops, history>>

GotOtherThen ==
  /\ UserOnTop
  /\ Top.kind = "getthen"
  /\ stack' = Tail(stack)
  /\ FulfillPromise(Top.p, Top.x, queue)
  /\ UNCHANGED <<created, pairs, live, exposed, manual, ops, history>>

ThrowFromGetThen(v) ==
  /\ UserOnTop
  /\ Top.kind = "getthen"
  /\ v \in Plain
  /\ stack' = Tail(stack)
  /\ RejectPromise(Top.p, v, queue)
  /\ UNCHANGED <<created, pairs, live, exposed, manual, ops, history>>

-----------------------------------------------------------------------------
(* RunAvailableContinuations: one action per shape of the dequeued job *)

NextJob == LoopOnTop /\ queue # <<>>

\* Bug variant: the job is read but not dequeued.
PeekHandler ==
  /\ NextJob
  /\ LET job == Head(queue)
     IN /\ job.kind # "Thenable"
        /\ job.handler.kind = "user"
        /\ stack' = Push(Frame("handler", job.cap, 1, job.arg), stack)
  /\ UNCHANGED <<queue, created, promiseVars, pairs, live, exposed, manual, ops, faulted, history>>

\* A reaction with a user handler.
RunHandler ==
  /\ NextJob
  /\ LET job == Head(queue)
     IN /\ job.kind # "Thenable"
        /\ job.handler.kind = "user"
        /\ queue' = Tail(queue)
        /\ stack' = Push(Frame("handler", job.cap, 1, job.arg), stack)
  /\ UNCHANGED <<created, promiseVars, pairs, live, exposed, manual, ops, faulted, history>>

\* A reaction whose handler is a resolving function of an adopting promise.
RunAdoption ==
  /\ NextJob
  /\ LET job == Head(queue)
     IN /\ job.kind # "Thenable"
        /\ \/ /\ job.handler.kind = "resolve"
              /\ CallResolve(job.handler.pair, job.arg, Tail(queue), stack)
           \/ /\ job.handler.kind = "reject"
              /\ CallReject(job.handler.pair, job.arg, Tail(queue), stack)
  /\ UNCHANGED <<created, pairs, exposed, manual, ops, history>>

\* Bug variant: a rejection without a handler becomes a fulfillment.
PassThroughSwallows ==
  /\ NextJob
  /\ Head(queue).kind # "Thenable" /\ Head(queue).handler.kind = "none"
  /\ CallResolve(<<Head(queue).cap, 1>>, Head(queue).arg, Tail(queue), stack)
  /\ UNCHANGED <<created, pairs, exposed, manual, ops, history>>

\* A reaction without a handler passes its argument on.
RunPassThrough ==
  /\ NextJob
  /\ LET job == Head(queue)
     IN /\ job.handler.kind = "none"
        /\ \/ /\ job.kind = "Fulfill"
              /\ CallResolve(<<job.cap, 1>>, job.arg, Tail(queue), stack)
           \/ /\ job.kind = "Reject"
              /\ CallReject(<<job.cap, 1>>, job.arg, Tail(queue), stack)
  /\ UNCHANGED <<created, pairs, exposed, manual, ops, history>>

\* NewPromiseResolveThenableJob makes a second pair for the promise and calls
\* then(resolve, reject): the built-in one of a promise ...
RunPromiseThenable ==
  /\ NextJob
  /\ LET job == Head(queue)
         pair == <<job.cap, pairs[job.cap] + 1>>
     IN /\ job.kind = "Thenable"
        /\ job.arg \in Promises
        /\ pairs' = [pairs EXCEPT ![job.cap] = @ + 1]
        /\ live' = live \cup {pair}
        /\ PerformPromiseThen(job.arg, [kind |-> "resolve", pair |-> pair],
                              [kind |-> "reject", pair |-> pair], NoPromise, Tail(queue))
  /\ UNCHANGED <<created, exposed, manual, stack, ops, history>>

\* ... or the user's.
RunUserThenable ==
  /\ NextJob
  /\ LET job == Head(queue)
         pair == <<job.cap, pairs[job.cap] + 1>>
     IN /\ job.kind = "Thenable"
        /\ job.arg \in Objects
        /\ pairs' = [pairs EXCEPT ![job.cap] = @ + 1]
        /\ live' = live \cup {pair}
        /\ exposed' = exposed \cup {pair}
        /\ queue' = Tail(queue)
        /\ stack' = Push(Frame("thencall", pair[1], pair[2], job.arg), stack)
  /\ UNCHANGED <<created, promiseVars, manual, ops, faulted, history>>

\* Bug variant: the loop stops although jobs are left.
DrainStopsEarly ==
  /\ LoopOnTop /\ Top.kind \in {"drain", "import"}
  /\ stack' = Tail(stack)
  /\ UNCHANGED <<created, promiseVars, pairs, live, exposed, manual, queue, ops, faulted, history>>

\* The loop of a script, a manual promise or an import ends with the queue empty.
DrainDone ==
  /\ LoopOnTop /\ Top.kind \in {"drain", "import"}
  /\ queue = <<>>
  /\ stack' = Tail(stack)
  /\ UNCHANGED <<created, promiseVars, pairs, live, exposed, manual, queue, ops, faulted, history>>

\* The loop of await ends: UnwrapIfPromise of a value or of a settled promise.  A
\* rejection becomes an exception of the async body, which it may catch.
AwaitResumes ==
  /\ LoopOnTop /\ Top.kind = "await"
  /\ queue = <<>>
  /\ Top.x \in Promises => state[Top.x] # "Pending"
  /\ stack' = Tail(stack)
  /\ UNCHANGED <<created, promiseVars, pairs, live, exposed, manual, queue, ops, faulted, history>>

-----------------------------------------------------------------------------
(* A .NET exception that no JavaScript code can catch unwinds to the call the *)
(* host made; the queue keeps the jobs that were not dequeued.                *)

EntryAt(k) == stack[k].kind \in EntryKinds
Nearest(k) == EntryAt(k) /\ \A j \in 1 .. k - 1 : ~EntryAt(j)

Unwind ==
  \E k \in 1 .. Len(stack) :
    /\ Nearest(k)
    /\ stack' = SubSeq(stack, k + 1, Len(stack))
    /\ lost' = lost \cup {stack[i].p : i \in {j \in 1 .. k : stack[j].kind \in LossyKinds}}
    /\ unwound' = TRUE
    /\ UNCHANGED <<created, promiseVars, pairs, live, exposed, manual, queue, ops, faulted, origin>>

\* A constraint (timeout, memory, cancellation, statements) fails in user code.
ConstraintFails == UserOnTop /\ Unwind

\* UnwrapIfPromise of a promise that nothing has settled: InvalidOperationException.
AwaitPending ==
  /\ LoopOnTop /\ Top.kind = "await"
  /\ queue = <<>>
  /\ Top.x \in Promises
  /\ state[Top.x] = "Pending"
  /\ Unwind

-----------------------------------------------------------------------------
HostCall ==
  \/ Execute \/ Invoke \/ RegisterPromise
  \/ \E pair \in manual : \/ \E x \in UserValues : HostResolve(pair, x)
                          \/ \E v \in Plain : HostReject(pair, v)

UserCall ==
  \/ Construct \/ CallAsync \/ Import
  \/ \E q \in Handed, onF, onR \in BOOLEAN : Then(q, onF, onR)
  \/ \E pair \in exposed : \/ \E x \in UserValues : UserResolve(pair, x)
                           \/ \E v \in Plain : UserReject(pair, v)
  \/ \E x \in UserValues : Await(x)

UserDone ==
  \/ ReturnToHost \/ ThrowToHost \/ ReturnFromThen
  \/ GotCallableThen \/ GotOtherThen
  \/ \E x \in UserValues : ReturnToCapability(x)
  \/ \E v \in Plain : ThrowToCapability(v) \/ ThrowFromThen(v) \/ ThrowFromGetThen(v)

Loop ==
  \/ RunHandler \/ RunAdoption \/ RunPassThrough
  \/ RunPromiseThenable \/ RunUserThenable
  \/ DrainDone \/ AwaitResumes \/ AwaitPending

Next == HostCall \/ UserCall \/ UserDone \/ Loop \/ ConstraintFails

\* User code terminates and the loop is a while loop; nothing obliges the host
\* to call, user code to call, or a constraint to fail.
Fairness == WF_vars(UserDone \/ Loop)

Spec == Init /\ [][Next]_vars /\ Fairness
=============================================================================
