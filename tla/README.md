# A verification development for Jint

Jint (`src/Jint`, namespace `Ultimate.Language.Jint`) is a JavaScript interpreter for .NET:
an `Engine` evaluates the syntax tree that Esprima parses, over JavaScript objects
(`Native/`), environments and a call stack (`Runtime/`), with a bridge to .NET objects
(`Runtime/Interop`). This directory holds TLA+ models of the parts of the engine whose
correctness depends on the order of events, with TLC configurations that check them on small
instances and TLAPS proofs of what matters most.

## 1. Inventory: the parts of the system

Everything runs on the thread that calls the engine; nothing is locked. What makes the engine
hard is not parallelism but re-entrancy: a script calls a host function that calls `Execute`,
a property read runs a getter, `await` and `import()` run other jobs in the middle of a
function, a proxy's trap revokes the proxy, and an exception may unwind through all of it.

| Part | State it keeps | Operations | Hard behaviour | What makes it correct |
| --- | --- | --- | --- | --- |
| Event loop (`Runtime/EventLoop.cs`, `Engine.cs`) | `Events`, a FIFO queue of actions | `AddToEventLoop`, `RunAvailableContinuations` | drained at the end of a script, of an import, of settling a manual promise, and inside `await` and `import()` | jobs run once and in order; a drain ends |
| Promises (`Native/Promise`) | state, value, two reaction lists, `alreadyResolved` per pair of resolving functions | resolving functions, `then`, reaction jobs, thenable jobs | two pairs for one promise, user code inside `resolve`, exceptions between dequeuing a job and settling | no promise settles twice; a pending one has somebody who can settle it |
| Promise combinators (`PromiseConstructor.cs`) | `results`, `doneIterating`, `alreadyCalled` | `all`, `allSettled`, `any`, `race` | elements settle while the iterator still runs; iterator errors | the result settles when the last element does, with every value in its place |
| Async functions (`JintFunctionDefinition.cs`, `JintAwaitExpression.cs`) | the .NET stack itself | `AsyncFunctionStart`, `await` | `await` does not suspend: it drains the queue in place | `await` continues only with a settled promise |
| Modules (`Runtime/Modules`, `Engine.Modules.cs`, `Host.cs`) | status, depth-first indices, cycle root, evaluation error, environment | `ImportModule`, `Link`, `Evaluate`, `import()` | cycles, failing links and bodies, an import in the middle of a body | bodies run once, after what they import; errors reach those who wait |
| Module bindings (`SourceTextModuleRecord`, `ModuleNamespace`, `ModuleEnvironmentRecord`) | import and export entries, indirect bindings | `ResolveExport`, `GetExportedNames`, `InitializeEnvironment` | star exports in cycles, ambiguous names | a name resolves as the graph says, and the search ends |
| Stacks (`ExecutionContextStack`, `JintCallStack`, `StrictModeScope`, `Engine.cs`) | contexts, call stack with recursion statistics, strict count, active evaluation context | script entry and exit, `Call`, `Construct`, `ResetCallStack` | every exit by an exception; nested scripts that fail and reset the outer stack | the stacks match the calls in progress |
| Constraints (`Constraints`) | statement count, clock, memory mark, token | `ResetConstraints`, `Check` | nested entries reset the outer limits | a limit ends what exceeds it |
| Environments (`Runtime/Environments`) | bindings with their dead zone, outer links, global object and declarations | create, initialise, set, get, delete; declaration instantiation | closures over loop variables, eval, `with`, global lexical names against properties | reads see the last write and nothing before initialisation |
| Statements and completions (`Interpreter/Statements`, `Completion`) | the completion and its target | try, loops, labels, switch | finally overrides, iterator closing | the completion ECMAScript gives; iterators closed once |
| Expressions, references, functions, classes (`Interpreter/Expressions`, `Native/Function`) | pooled references and argument arrays | evaluation of the tree | pools handing out what a closure still holds | order of evaluation |
| Arrays (`Native/Array`) | dense array or dictionary, length, change flags | element and length operations, methods | two storages, fast access that goes stale while user code runs | the same array ECMAScript describes |
| Objects and descriptors (`Native/Object`, `Runtime/Descriptors`) | properties, extensibility, prototype | define, get, set, delete, prevent extensions, seal, freeze | definitions that must not undo what is permanent | what was made constant stays so |
| Proxies (`Native/Proxy`) | target, handler | the eleven traps for properties, prototype and extensibility; revocation | traps change the target, lie, or revoke the proxy | answers agree with what the target can no longer change |
| Maps and sets (`Native/Map`, `Native/Set`, `Ordered*`) | hash table and ordered list | set, add, delete, clear, iterate | changes while iterating; NaN | tables in step; iteration misses and repeats nothing it may not |
| Internal dictionaries and pools (`Collections`, `Pooling`) | buckets, free lists, slots | add, find, remove; rent, return | reuse of what is still held | a dictionary is a finite map; one holder per pooled object |
| Binary data (`ArrayBuffer`, `TypedArray`, `DataView`) | bytes, offset, length | reads and writes at widths, moves | overlap, user code between check and access | bytes are those written |
| Numbers, dates, strings, JSON, RegExp | none, but `lastIndex` and the JSON stack | conversions, calendars, matching | boundaries and widths | inverse functions, specified values |
| Debugger (`Runtime/Debugger`) | step mode, depth, break points | step over, into, out; evaluate | evaluation in the middle of a step | a step stops at the right depth |
| .NET interop (`Runtime/Interop`) | caches of accessors | wrap, convert, choose an overload | overload ranking | the best match is chosen |

The parts interact through the engine object: every part that runs user code (getters, traps,
compare functions, iterators, `then` methods) may find the stacks deeper, the queue shorter,
and its own object changed when the user code returns. PROJECT.json lists every part with its
sources and says what is modelled; its `hazards` list the places where a test would hardly
look, each with the property that watches it or the reason why none does yet.

## 2. Modules and how they correspond to the code

Each family has a module for the machine, one for what should hold of it
(`...Properties`), often an abstract specification that the machine implements, and an `MC`
module with its configurations. The control stack of .NET is a sequence of frames in the
models where user code re-enters the engine, the top first. User code and the host are
nondeterministic: a frame of theirs takes any operation the API offers, then returns or throws.

**Promises**: `PromiseJobs` has the queue, the promises, their pairs of resolving
functions and the frames. One action per entry of the host, operation of a script, job and
return. The abstract specification `ReactionLifecycle` knows reactions only: they wait while
their source has not settled and no longer (no wake-up is lost), become ready together in the
order of registration when it settles, which it does once, start once in that order, and end.
`PromiseJobsProofs` holds the proofs.

**Promise combinators**: `PromiseCombinators` runs one call of `all`, `allSettled`, `any` or
`race`: the loop over the iterator (`pc`), the list of results with the index each closure has
captured, `doneIterating`, and the elements, whose `then` may answer at once, later or twice.
The abstract specification `CombinedOutcome` knows only the first answers and the event that
decides: the last fulfilment, the first rejection, or the other way round for `any`.
`CombinatorProofs` holds the proofs, among them that the one implements the other.

**Modules**: `CyclicModules` advances the searches of `InnerModuleLinking` and
`InnerModuleEvaluation` by one required module per step, so that a dynamic import can start in
the middle of another call. `fault` records the assertions of the code that fail. The abstract
specification `EvaluationOrder` is the order of bodies, given the graph: a body starts at most
once, when the body of every module it imports has ended, except for those that import it in
turn. `CyclicModuleProofs` holds the proofs, among them that the one implements the other.

**Stacks**: `EngineStacks` keeps the .NET frames beside the four stacks of the engine, which is
the point: whatever leaves a frame runs its finally blocks and nothing else.
`EngineStackProofs` holds the proofs.

**Statements**: `StatementCompletions` has a frame per statement in progress, the innermost on
top, and a register for what passes between frames: leave to run, a completion, or an exception
of .NET on its way to the list that turns it into a completion. The program is not fixed; any
statement may come wherever ECMAScript allows it. A jump carries the height of the statement it
means (`home`), which the code does not have: the code compares labels, and `home` is 0 when the
label was lost. Every step that evaluates something may find any label in the engine
afterwards (`RunsCode`): a function that was called executes in the same context, and nothing
puts the label back. An environment an exception leaves behind is marked in `scope`.
`CompletionProofs` holds the proofs.

**Arguments objects and pools**: `ArgumentsObjects` has the calls in progress, arrow functions
that outlive them, the objects with the fields of `ArgumentsInstance`, and both pools.
A call is its number, which stands for its arguments. `ArgumentsProofs` holds the proofs.

**Arrays**: `ArrayStorage` has the methods of `ArrayInstance` as functions of the array,
`ArrayMethods` those of `ArrayPrototype` and the machine of scripts that call them;
`EcmaArray` is the reference: arrays as ECMAScript defines them, without storages or short
cuts. Methods that call user code are split where they call it (`call`).

**Objects and proxies**: `PropertyDescriptors` has validation and application of definitions,
`ProxyOperations` requests that walk along prototypes and through proxies, with user code at
every trap; `EcmaObjects` is the reference for both. `ProxyProofs` holds the proofs.

**Maps and sets**: `OrderedCollections` has both tables, the six iterators and the loops of
forEach. Every addition carries a number, which tells an entry that was deleted and added
again from the old one. The abstract specification `LiveIteration` knows numbered entries and
what an iterator may miss. `CollectionProofs` holds the proofs.

## 3. The runs

| Run | What it shows | Bounds | Why they are enough |
| --- | --- | --- | --- |
| `promise_jobs` | no promise is settled twice or orphaned, rejections reach the end of their chain, drains end, reactions live as `ReactionLifecycle` says | 3 promises, 1 value, 1 object with a `then`, 4 calls | a chain needs a promise, its thenable and a derived one; 4 calls are create, resolve, react and settle again |
| `combinators` | the event that decides settles the combined promise, with each answer in its place; the iterator is left once | 3 elements, 2 values, which are thrown, too | a list that is full before the iterator ends, an answer in the middle and a repeated one |
| `modules_graphs` | searches keep apart, errors reach those who import, bodies run in the order of `EvaluationOrder`, imports end | 160 graphs of 3 modules and 4 of 4, 3 imports, values -2, 1 and one that does not convert | all shapes of cycles, diamonds and self-imports of 3 modules; the fourth is needed for a nested search that meets a linked module above one being evaluated |
| `stacks` | the stacks and statistics match the calls in progress; everything runs in its own strictness | 2 script functions, 1 host function, recursion limit 1, statement limit 1, 5 calls; scripts and entries of the host strict or not | script, function, host, nested script and a failure in it are 5; `Options.Strict` may change between entries |
| `completions` | jumps end what they name, finalizers run, iterators are closed, environments are put back | 2 labels, 5 frames, 2 environments left behind | a jump over a finalizer to a labelled loop needs list, loop, try and list; a fifth is a statement in the finalizer; any label may be the engine's after code has run |
| `arguments` | calls share no object and no array; scripts keep their arguments | 2 objects, 2 arrays, a pool of 1, 4 calls | an object returned, lent again, and a pool that is full; the proofs cover all sizes |
| `arrays` | storages, lengths and methods do what ECMAScript says; what is frozen stays so | values 1 and 2, lengths to 5, dense to 5, gap 2, 3 operations | each operation is checked in every state that 2 operations reach, which cover both storages, holes, frozen elements, locked lengths and changed prototypes |
| `proxies` | what scripts were told for good stays true; answers and definitions are judged as ECMAScript does | 2 objects, 1 proxy, 1 key, 3 requests, 2 deep | define, trap and re-request from within the trap |
| `collections` | the tables stay in step; iteration implements `LiveIteration` | 3 keys with NaN, 2 iterators, 5 changes | an iterator that has passed one of two entries, a deletion, a re-addition, and a second iterator on the way |
| `await_pending`, `modules_cycle_root`, `any_decides` | violations | smaller | each finds one disagreement between the code and what its comments say; see the findings |

The real limits that are scaled down: `MaxDense` is 10 000 000 in the code and `Gap` 50;
both only decide when the storage changes. Where a property leaves out a case because the code
is known to fail there, the case is a named part of the property (`Known`, `Unguarded`,
`StaleAccess`, `CountsDown`, `CrashesKnown`, `KnownFaults`, `skipped`, `late`, `Mark`) and section 5 says what it is.

`CHECK_DEADLOCK FALSE` is set everywhere: scripts and hosts may stop calling at any time, and a
run that has used its calls stops.

Fairness appears where liveness is claimed. `DrainCompletes` (promises) assumes that user code
returns and that the loop goes on: the loop is a `while` on the only thread
(`Engine.cs:386-399`), and a function that never returns blocks everything, which is not what
the property is about. `ImportsEnd` (modules) assumes the same of searches and bodies. Nothing
is assumed fair about hosts: whether they call again is theirs.

## 4. What is proved

TLC checks the instances above; TLAPS proves these for all values of the constants under the
assumptions named in the modules (bounds are naturals, sentinels are not values).

* `PromiseJobsProofs!TypeCorrect`, `OneSettlerHolds` and `NeverSettledTwice`: `TypeOK`,
  `OneSettler` and `NoDoubleSettle` of every behaviour. That a promise is not settled twice is
  not inductive. The strengthening is `OneSettler` with the types: a pending promise has at most
  one holder of the right to settle it (a live pair of resolving functions, a thenable job in
  the queue, or a frame that is reading a `then`), and a settled promise has none; each
  operation hands the right on (a thenable job makes a new pair only after the old one was used
  up) or consumes it by settling.
* `PromiseJobsProofs!RejectionsPropagate` and `PendingIsOwned`: `RejectionPropagates` and
  `PendingHasOwner`. Both rest on the invariant `Facts`, which adds to the types three facts.
  `Shape` says which jobs, frames and registered reactions there can be: a job settles a
  derived promise that is excused (its source was fulfilled, or rejected with a handler) or
  passes the rejection on, the two reactions of one `then` stand at the same place of both
  lists, and user code holds only first pairs of promises that are not derived or are excused.
  `Mirror`: a promise derived without a handler from one that was rejected either has its
  first pair still live or is rejected with the same value. `Owned`: something that can still
  run, or user code, has the right to settle each pending promise. The queue and the frames are
  taken as sets here, since their order does not matter.
* `CollectionProofs!TablesInStep`, `CollectionTypes` and `IterationInOrder`: `InStep` and
  `TypeOK`, and that no step takes an iterator back. The inductive invariant `Inv` adds four
  facts: entry numbers lie between 1 and the number given out last (`Numbered`), the tables of
  a map have one size (`SizesAgree`, without which an iterator that looks at `Count` could read
  beyond the list), everything beyond an iterator's position was added after its last answer
  (`Ahead`, which survives deletions because they only move later entries down), and the
  forEach calls in progress are open and distinct. `IterationInOrder` is the half of
  `LiveIteration` that needs no counting; the other half is `LiveIterationImplemented`, below.

* `CombinatorProofs!NothingForgottenHolds`, `IteratorLeftHolds` and `OutcomeImplemented`. The
  invariant `Inv` says that the list of results is the history of first answers (`Aligned`:
  each closure writes the entry of its own element, and its flag says whether it has), where
  the loop stands (`LoopShape`: a closure is created for the entry just added), and what the
  iterator has to do with it (`IteratorShape`). The refinement follows from it step by step:
  a list is full in the code exactly when every element has answered and the iterator is done.
  For `any` it holds until an entry is lost (`skipped`). `CombinatorTypes` is `TypeOK`.
* `ArgumentsProofs!CallsStayApart`, `ArgumentsStayOwn` and `TypesHold`. That scripts keep their
  arguments depends on what is in objects nobody has read: the invariant adds that the object of
  a call in progress knows that call's array (`Lent`), that an object which may go back to the
  pool or is there has not been read (`Fresh`), and that one that has been read has its call's
  arguments (`Filled`). Each holds but for objects read too late, which is the exception the
  property names.
* `CompletionProofs!JumpsAlwaysArrive`, `FinalizersAlwaysRun`, `IteratorsAlwaysClosed` and
  `CompletionTypes`. That jumps arrive is the interesting one: the code compares labels and knows
  no destination. It is claimed while the label of a jump is the engine's: a jump whose label
  was changed while it was delayed has lost its destination (`home` is 0), and a statement that
  does not understand a jump (`Understands`) hands it on; nothing else goes astray. The invariant counts frames from the outermost one, so that a step at the top
  leaves the others alone, and says that a jump, passing or held by a finalizer or a loop that
  closes its iterator, means the innermost frame below it that could take it (`Aimed`), that the
  label of the engine is still that of the jump that passes (`Labelled`), and that only the
  innermost frame can be in a phase of its own (`WellFormed`, and `reg = Run` there).
* `EngineStackProofs!StacksTell`, `StrictnessOwn` and `StackTypes`: `StacksMatch`, `StrictMode`
  and `TypeOK`. The four stacks of the engine are functions of the frames of .NET
  (`CallPart`, `ContextPart`, `LevelPart`): each frame has its part, so that a step at the top
  adds or takes the head of each, and nothing has to be known of the rest.
* `CyclicModuleProofs!SearchesKeepApart`, `BlameHolds`, `ImportDoneHolds`, `OrderImplemented`
  and `ModuleTypes`: `SearchesSound`, `BlameReaches`, `ImportDone`, `ImplementsOrder` and `TypeOK`,
  for every graph. There are two layers. One is about a single search: every module on its
  stack has a visited module at or below it, to which it leads and whose index is at most its
  ancestor index (`Core`; this survives whatever value a body completes with, which the code
  takes for an index), the indices of a link search rise along its stack and its edges have
  been dealt with (`Linkage`), and the bodies of an evaluation have run (`Bodies`). The other is
  about the engine: no two searches share a module (`Searches`), and a module is linked or
  evaluated only with all it imports (`Records`). It follows that the assertions about the
  indices of both searches, the link stack and unlinked modules never fail.

* `CompletionProofs!ScopeAlwaysRestored`: `ScopeRestored`, said frame by frame: the environments
  that a frame has saved are those of the frame below it and what that frame has added, up to
  the marks of environments that an exception has left behind; the running environments are
  those of the top frame and what it has added.
* `ProxyProofs!ProxyTypes`, `ObservationsStayTrue`, `AnswersStayConsistent` and
  `DecisionsAlwaysConform`: all four properties of the proxies, for any objects, descriptors,
  traps and depth. A step of a request replies, moves on, or becomes an assignment (`Shape`),
  and a reply is true of the object it is about when it is given (`Truthful`) and has done what
  it says (`Effective`); that is what the checks after the traps are for. Objects only evolve one
  way, whoever changes them (`Evolves`: what is locked keeps what a script can tell of it, what
  is closed gets nothing new), so that an answer, once true, binds every later one. The
  invariant `IInv` adds what each request in progress is for (`Stage`) and what an integrity
  function has made sure of so far (`Progress`: the object is closed, and every property but
  those that are left is locked). `DecisionsAlwaysConform` compares the checks of the code with
  those of `EcmaObjects` for every property an object may store and every descriptor.

* `PromiseJobsProofs!LifecycleImplemented`: `PromiseJobs` implements `ReactionLifecycle`, where
  a reaction goes by the promise it derives. `Placed`, on top of the facts behind the other
  proofs (`Facts`), says that each reaction is in one place: the lists of a source rise, the
  queue and the stack name no reaction twice, and what waits, what is ready and what runs are
  apart. Turns are those of the jobs in the queue, as pairs, so that taking the head of the queue
  and adding jobs at its end are facts about positions (`Dequeued`, `TriggeredCaps`). Settling
  a promise moves its list to the queue (`SettleWakes`), and each action of `PromiseJobs` is then
  one step of the abstraction or none (`StepLives`). That then() lets a reaction wait exactly
  when its source is pending is `ThenPlaces`. Jobs nest, so that running reactions are a
  set in the abstraction and not a single one.
* `CollectionProofs!LiveIterationImplemented`: `OrderedCollections` implements `LiveIteration`.
  Deletions move later entries down under the position of an iterator, which may therefore miss
  some: at most by how far its position exceeds the number of entries up to its last answer
  (`Spare`). A deletion among those entries raises this by one, and an answer, the entry at
  the position, uses up what it has skipped. Additions come last, with a number above all
  answers (`Ahead`, `LastGiven`); `Life` says which states an iterator of each kind can be in.

Only model-checked: liveness (`DrainCompletes`, `ImportsEnd`; fairness and ENABLED are beyond
the prover), and the properties of the arrays: the methods of `ArrayMethods` are folds over
indices, and what a fold computes is an induction over data.

## 5. Where the code and its description differ

Each finding in PROJECT.json has a run that shows it. Others were met while modelling; runs of
earlier versions showed those of the first list.

* A dynamic import in the body of a module, of a module that statically imports it, meets the
  status Evaluating and throws the InvalidOperationException of `CyclicModuleRecord.cs:182`,
  which unwinds the evaluation instead of rejecting the promise.
* A module whose own body throws ends Evaluated without an `_evalError`
  (`CyclicModuleRecord.cs:360`), which line 517 asserts it has.
* `Construct` pops the call stack although a nested script may have cleared it
  (`Engine.cs:1422`), against "ensure logic is in sync" at line 1405: the constructor fails
  with "stack is empty".
* `indexOf` returns -1 for an element of an array that has lost fast access and has a named
  property (`ObjectInstance.cs:1410`, called from `ArrayOperations.cs:156`).

* A host that imports a module finds it linked but not executed when another import had linked
  it (README.md:401 "this will execute the import chain"; `Engine.Modules.cs:108`), and a
  second import of a module that failed succeeds (`ModuleTests.cs:133`).
* `MaxStatements` allows one statement more than it says (`MaxStatementsConstraint.cs:21`), and
  limits one nesting level instead of the program: every nested entry resets the constraints
  (`Engine.cs:664`), as it clears the kept objects of weak references (`Engine.cs:683`).
* A nested script that fails clears the recursion statistics of the outer calls
  (`Engine.cs:323`), so the limit of `Options.Extensions.cs:75` no longer counts them.
* A sloppy script, or a sloppy entry of the host (`Invoke`, `Call`, `Construct`), under strict code
  runs strict (`Engine.cs:671`).
* A module body that ends with an exception of .NET leaves its modules Evaluating
  (`SourceTextModuleRecord.cs:344`).

Promise combinators: `any` goes on after an exception of the iterator's `next` and stores the
next rejections one entry too low (the finding); when the failing result has no boolean `done`,
`AsBoolean` throws an exception of .NET that nobody turns into a rejection
(`PromiseConstructor.cs:480`); and when the getter of `return` throws, or `return` cannot be
called, `Close` throws out of the catch block and the promise stays pending
(`PromiseConstructor.cs:302`, `IteratorInstance.cs:96`).

Statements: the label of a jump is kept once (`EvaluationContext.Target`), for all the functions
that run in a script. A finalizer or an iterator's `return` changes it while a jump is delayed,
in two directions: one that executes a statement resets it, and the nearest loop takes a jump
that named an outer one; one that calls a function with a label of its own leaves that label, and
the loop does not take an unlabelled jump that is meant for it (`function f() { M: { break M } }
for (;;) { try { break } finally { f() } }` leaves whatever is around the loop,
`JintForStatement.cs:144`). A labelled `while` does not take a `continue` without a label
(`JintWhileStatement.cs:50`), a labelled `switch` no such `break`
(`JintSwitchStatement.cs:28`); a destructuring catch parameter that throws skips the finalizer
and leaves its environment (`JintTryStatement.cs:85`); so do the head of a for-of and the
selector of a switch with declarations (`let x = 1; try { for (let x of thrower()) {} } catch
(e) { x }` fails with a ReferenceError); for-of closes an iterator that has come to its end or
has thrown itself, so a `return` that throws fails a finished loop
(`JintForInForOfStatement.cs:172`).

Arguments: an arrow function that mentions `arguments` first when its call has ended finds the
arguments of another call, and the next call that is lent the object finds it initialised and
empty, since `Prepare` resets neither flag; the comment at `JintIdentifierExpression.cs:67`
("make sure arguments access freezes state") does not hold then.

Arrays: shrinking the length of a sparse array walks up or in the order of the dictionary and
stops at another element than ECMAScript does (`ArrayInstance.cs:190-247`), and throws in sloppy
code; fast access ignores `Extensible`, so `Object.freeze([]).push(1)` stores the element before
it throws; a fast access that user code has made stale overwrites frozen elements (sort, fill,
splice) or leaves elements beyond a shorter length; direct copies turn holes into undefined and
other copies start too late (`ArrayInstance.cs:1331, 1347`); `unshift` on sparse arrays leaves
copies behind; " 1", "+1" and "-0" count as indexes; `GetOwnProperties` stores a descriptor in
an array that may be a `JsValue[]` (`ArrayInstance.cs:406`).

Proxies and objects: revoking a proxy in one of its traps ends in a NullReferenceException in
all traps but `get`; a `getPrototypeOf` trap that answers null ends in an InvalidCastException
(`ProxyInstance.cs:530`); a property named "revoke" bypasses the get trap
(`ProxyInstance.cs:129`); definitions compare values with `==`, which takes 0 and -0 for one;
a lookup in a prototype cycle through a proxy recurses until the stack ends
(`ObjectInstance.cs:331`).

Maps and sets: deleting an entry that an iterator has passed makes it skip one, which the
project knows (`Jint.Tests.Test262/Test262Harness.settings.json:101`); `keys()` and `values()`
of a map fail with an exception of .NET after any change; entry iterators resume after their
end; a deleted NaN stays in a set's list (`OrderedSet.cs:48`).

## 6. What is left out of the models

Promises: subclasses of Promise with capabilities of their own, `finally`. Statements: two
labels on one statement, blocks, loops and switches without lexical declarations (they make no
environment), `with`, `if`, the empty head of for-in, the environment per iteration of `for`,
and the stops of the debugger; the set of labels comes from the parser, and the labels of called
functions are taken from the same set. Environments that exceptions leave behind pile up without
a limit in the code; the model has at most `MaxLeft` of them on the chain at a time (any number in
the proofs). Arguments: functions
that do not mention `arguments`, how elements follow parameters, the length of arrays (there is
a pool for each length up to three); a call with literal arguments only passes the array of its
place in the program, which all calls made there share and no pool sees
(`JintCallExpression.cs:284-287`), and is modelled with one that is rented and not returned: it
holds the same values. Modules: names and
bindings; the user code that `ToInt32` runs (`valueOf`) when the value of a body is an object
(`CyclicModuleRecord.cs:292`), which could import, too; top-level await is dead code here (`_hasTLA` is assigned nowhere). Stacks: time,
memory and cancellation, which end a script for reasons outside it. Arrays: the methods that
call a function for each element, `join`, `flat`, `includes`; `MaxArraySize`. Objects: the call
and construct traps, proxies of proxies, more than one key in the instance. Maps: values, and
filling a new collection from an iterable. Whole parts that have no model yet, with the reason,
are in PROJECT.json; those outside TLC's reach are floating point, formatting and parsing of
text, regular expression matching (done by .NET), reflection over .NET types, and file access.

## 7. Plan

1. Environments: dead zone, per-iteration bindings, elements of arguments objects that follow
   parameters, declaration instantiation of functions and of the global object.
2. Iterator protocol: destructuring and the collection constructors, whose `skipClose` differs
   from for-of's rule; abstract specification: an iterator is open, then finished or closed once.
3. Export resolution as a function over all small graphs; binary data and the integer
   conversions at small widths; internal dictionaries (chained hashing with a free list,
   refinement to a finite map); dates; the JSON stack; `lastIndex`; stepping of the debugger;
   the ranking of overloads.
4. Proofs: the properties of the arrays, first `TypeOK` and `StorageConforms` of the operations
   that are not folds.
