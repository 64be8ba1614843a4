--------------------------- MODULE ArgumentsObjects ---------------------------
(***************************************************************************)
(* The arguments objects of functions and the two pools they depend on:    *)
(* ArgumentsInstancePool hands an object to each call that mentions        *)
(* arguments and takes it back when the call ends, unless a script has     *)
(* touched it; JsValueArrayPool lends the array a call's arguments are     *)
(* passed in, which the object reads on first use.                         *)
(*                                                                         *)
(* A call is its number, and stands for the arguments it was given.  An    *)
(* arrow function may outlive the call whose arguments it mentions.        *)
(* Functions that do not mention arguments have no object and are left     *)
(* out; so is the map between parameters and elements, and the length of   *)
(* arrays (there is a pool for each length up to three).                   *)
(*                                                                         *)
(* The array of a call whose arguments are all literals belongs to the     *)
(* place of the call, is passed to every call made there and is never      *)
(* pooled.  It is modelled as an array that is rented and not returned:    *)
(* it holds the same literals for each of those calls.                     *)
(***************************************************************************)
EXTENDS Naturals, Sequences, FiniteSets

CONSTANTS
  Objects,   \* bound: arguments objects the engine creates
  Arrays,    \* bound: arrays it creates
  PoolSize,  \* ArgumentsInstancePool.PoolSize
  MaxCalls   \* bound: calls

ASSUME SizesAssumption == PoolSize \in Nat \ {0} /\ MaxCalls \in Nat

VARIABLES
  calls,     \* calls so far
  active,    \* the calls in progress, innermost first
  arrows,    \* the calls that have ended but left an arrow function behind
  objects,   \* each object's fields
  pool,      \* objects in the pool
  holds,     \* the call whose arguments an array holds, 0 before it is made
  lent,      \* arrays that are not in their pool
  given,     \* history: the objects scripts have been given, and by which call
  late       \* history: objects first read for a call after its end

vars == <<calls, active, arrows, objects, pool, holds, lent, given, late>>

Call(n, o, a) == [call |-> n, object |-> o, array |-> a]
Known == {[call |-> f.call, object |-> f.object] : f \in {active[i] : i \in DOMAIN active}} \cup arrows

\* contents: the call whose arguments are the elements of the object, 0 for none.
Blank == [call |-> 0, array |-> 0, canReturn |-> FALSE, initialized |-> FALSE,
          materialized |-> FALSE, contents |-> 0]

Init ==
  /\ calls = 0
  /\ active = <<>>
  /\ arrows = {}
  /\ objects = [o \in Objects |-> Blank]
  /\ pool = <<>>
  /\ holds = [a \in Arrays |-> 0]
  /\ lent = {}
  /\ given = {} /\ late = {}

-----------------------------------------------------------------------------
(* Pools *)

InPool == {pool[i] : i \in DOMAIN pool}
Without(i) == [j \in 1 .. Len(pool) - 1 |-> pool[IF j < i THEN j ELSE j + 1]]

\* Bug variant: an object that is handed out stays in its slot.
AllocateKeeping(o) ==
  /\ IF pool = <<>> THEN objects[o] = Blank ELSE o \in InPool
  /\ UNCHANGED pool

\* A pooled object, or a new one if there is none.
Allocate(o) ==
  \/ \E i \in DOMAIN pool : pool[i] = o /\ pool' = Without(i)
  \/ pool = <<>> /\ objects[o] = Blank /\ UNCHANGED pool

\* A full pool lets the object go.
Free(o) == pool' = IF Len(pool) < PoolSize THEN Append(pool, o) ELSE pool

RentArray(a) ==
  /\ a \notin lent
  /\ holds[a] # 0 \/ \A b \in Arrays : holds[b] # 0 => b \in lent

-----------------------------------------------------------------------------
(* Calls *)

\* The properties go, but an object that has been initialised stays so.
Prepare(o, n, a) ==
  objects' = [objects EXCEPT ![o].call = n, ![o].array = a, ![o].canReturn = TRUE,
                             ![o].contents = 0]

Enter(o, a) ==
  /\ calls < MaxCalls
  /\ RentArray(a)
  /\ Allocate(o)
  /\ calls' = calls + 1
  /\ holds' = [holds EXCEPT ![a] = calls']
  /\ lent' = lent \cup {a}
  /\ Prepare(o, calls', a)
  /\ active' = <<Call(calls', o, a)>> \o active
  /\ UNCHANGED <<arrows, given, late>>

\* Bug variant: the object may be returned once more.
FunctionWasCalledAgain(o) ==
  /\ IF objects[o].canReturn THEN Free(o) ELSE UNCHANGED pool
  /\ UNCHANGED objects

FunctionWasCalled(o) ==
  IF objects[o].canReturn
  THEN /\ Free(o)
       /\ objects' = [objects EXCEPT ![o].canReturn = FALSE]
  ELSE UNCHANGED <<pool, objects>>

\* The innermost call ends.  An exception of a parameter's initialiser, one of the
\* host, and the body of an async function do not reach FunctionWasCalled; any
\* exception, arguments that are literals and spread ones leave the array where
\* it is.
Leave(returnsObject, returnsArray, keepsArrow) ==
  /\ active # <<>>
  /\ LET f == active[1]
     IN /\ IF returnsObject THEN FunctionWasCalled(f.object) ELSE UNCHANGED <<pool, objects>>
        /\ lent' = IF returnsArray THEN lent \ {f.array} ELSE lent
        /\ arrows' = arrows \cup (IF keepsArrow THEN {[call |-> f.call, object |-> f.object]} ELSE {})
  /\ active' = Tail(active)
  /\ UNCHANGED <<calls, holds, given, late>>

-----------------------------------------------------------------------------
(* Reading arguments *)

\* Bug variant: reading an element does not keep the object from its pool.
InitializePooled(x) ==
  IF x.initialized THEN x
  ELSE [x EXCEPT !.initialized = TRUE, !.contents = holds[x.array]]

\* The first use copies the array into properties.
EnsureInitialized(x) ==
  IF x.initialized THEN x
  ELSE [x EXCEPT !.initialized = TRUE, !.canReturn = FALSE, !.contents = holds[x.array]]

\* arguments as an operand: an object that has been materialised once is left as
\* it is, whatever call it has been prepared for since.
Materialize(x) ==
  IF x.materialized THEN x
  ELSE [EnsureInitialized(x) EXCEPT !.materialized = TRUE, !.canReturn = FALSE]

\* Code of a call, or an arrow function of one that has ended, mentions arguments:
\* as an operand or as the object of a member expression.
Read(k, asOperand) ==
  /\ k \in Known
  /\ LET x == objects[k.object]
     IN objects' = [objects EXCEPT ![k.object] =
                      IF asOperand THEN Materialize(x) ELSE EnsureInitialized(x)]
  /\ given' = given \cup {k}
  /\ late' = IF k \in arrows \ given THEN late \cup {k.object} ELSE late
  /\ UNCHANGED <<calls, active, arrows, pool, holds, lent>>

-----------------------------------------------------------------------------
Next ==
  \/ \E o \in Objects, a \in Arrays : Enter(o, a)
  \/ \E returnsObject, returnsArray, keepsArrow \in BOOLEAN :
       Leave(returnsObject, returnsArray, keepsArrow)
  \/ \E k \in Known, asOperand \in BOOLEAN : Read(k, asOperand)

Spec == Init /\ [][Next]_vars
=============================================================================
