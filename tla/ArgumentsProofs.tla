---------------------------- MODULE ArgumentsProofs ----------------------------
(***************************************************************************)
(* Proofs about ArgumentsObjects, for any objects, arrays and pool size    *)
(* and any number of calls: calls share nothing they have been lent, and   *)
(* scripts keep the arguments of their call.                               *)
(***************************************************************************)
EXTENDS ArgumentsProperties, SequenceTheorems, TLAPS

(* That scripts keep their arguments is not inductive.  It depends on what is    *)
(* in the objects nobody has read yet.                                           *)

\* A call in progress has been numbered, and its object knows its array.
Lent ==
  \A i \in DOMAIN active :
    /\ active[i].call # 0
    /\ objects[active[i].object].array = active[i].array

\* An object that may go back to the pool, or is there, has not been read,
\* unless an arrow function did so too late.
Fresh ==
  \A o \in Objects : o \notin late =>
    /\ objects[o].canReturn => ~objects[o].initialized
    /\ o \in InPool => ~objects[o].initialized
    /\ objects[o].materialized => objects[o].initialized

\* The object of a call in progress, once read, has that call's arguments.
Filled ==
  \A i \in DOMAIN active :
    active[i].object \notin late /\ objects[active[i].object].initialized =>
      objects[active[i].object].contents = active[i].call

\* What has been given to a script is read and kept.
GivenKept ==
  \A g \in given : g.object \notin late =>
    /\ objects[g.object].initialized
    /\ objects[g.object].contents = g.call
    /\ g.object \notin InPool

\* Objects that arrow functions can reach have had an array.
Prepared == \A k \in arrows : objects[k.object].array \in Arrays

Inv == TypeOK /\ CallsApart /\ Lent /\ Prepared /\ Fresh /\ Filled /\ GivenKept

Frames == [call : Numbers, object : Objects, array : Arrays]
Fields == [call : Numbers, array : Arrays \cup {0}, canReturn : BOOLEAN,
           initialized : BOOLEAN, materialized : BOOLEAN, contents : Numbers]

-----------------------------------------------------------------------------
(* The pool. *)

LEMMA PoolFacts ==
  ASSUME TypeOK
  PROVE  /\ Len(pool) \in Nat /\ DOMAIN pool = 1 .. Len(pool)
         /\ \A i \in 1 .. Len(pool) : pool[i] \in Objects /\ pool[i] \in InPool
         /\ InPool \subseteq Objects
BY LenProperties, ElementOfSeq DEF TypeOK, InPool

(* An object that is handed out is not in the pool any more, and was there only *)
(* if it had been returned.                                                     *)
LEMMA AllocateFacts ==
  ASSUME TypeOK, CallsApart, NEW o \in Objects, Allocate(o)
  PROVE  /\ pool' \in Seq(Objects) /\ Len(pool') <= PoolSize
         /\ \A i, j \in DOMAIN pool' : pool'[i] = pool'[j] => i = j
         /\ InPool' \subseteq InPool /\ o \notin InPool'
         /\ o \in InPool \/ objects[o] = Blank
<1>1. CASE \E p \in DOMAIN pool : pool[p] = o /\ pool' = Without(p)
  <2>1. PICK p \in DOMAIN pool : pool[p] = o /\ pool' = Without(p)
    BY <1>1
  <2>. DEFINE n == Len(pool) - 1
              from(j) == IF j < p THEN j ELSE j + 1
  <2>2. Len(pool) \in Nat /\ p \in 1 .. Len(pool) /\ n \in Nat
    BY <2>1, PoolFacts
  <2>3. \A j \in 1 .. n : from(j) \in 1 .. Len(pool) /\ from(j) # p
    BY <2>2
  <2>4. \A i, j \in 1 .. n : from(i) = from(j) => i = j
    BY <2>2
  <2>5. pool' = [j \in 1 .. n |-> pool[from(j)]]
    BY <2>1 DEF Without
  <2>6. DOMAIN pool' = 1 .. n /\ \A j \in 1 .. n : pool'[j] = pool[from(j)]
    BY <2>5
  <2>. HIDE DEF n, from
  <2>7. pool' \in [1 .. n -> Objects]
    BY <2>3, <2>5, PoolFacts
  <2>8. pool' \in Seq(Objects) /\ Len(pool') = n
    BY <2>2, <2>7, SeqDef, LenProperties, <2>6
  <2>9. \A i, j \in DOMAIN pool' : pool'[i] = pool'[j] => i = j
    BY <2>3, <2>4, <2>6, PoolFacts DEF CallsApart
  <2>10. InPool' \subseteq InPool
    BY <2>3, <2>6, PoolFacts DEF InPool
  <2>11. o \notin InPool'
    BY <2>1, <2>2, <2>3, <2>6, PoolFacts DEF InPool, CallsApart
  <2>12. Len(pool') <= PoolSize
    BY <2>2, <2>8, SizesAssumption DEF n, TypeOK
  <2>. QED
    BY <2>1, <2>2, <2>8, <2>9, <2>10, <2>11, <2>12, PoolFacts
<1>2. CASE pool = <<>> /\ objects[o] = Blank /\ UNCHANGED pool
  BY <1>2 DEF InPool, TypeOK
<1>. QED
  BY <1>1, <1>2 DEF Allocate

(* Returning an object that is not in the pool puts at most it there. *)
LEMMA FreeFacts ==
  ASSUME TypeOK, CallsApart, NEW o \in Objects, o \notin InPool, Free(o)
  PROVE  /\ pool' \in Seq(Objects) /\ Len(pool') <= PoolSize
         /\ \A i, j \in DOMAIN pool' : pool'[i] = pool'[j] => i = j
         /\ InPool' \subseteq InPool \cup {o}
<1>1. CASE pool' = pool
  BY <1>1 DEF TypeOK, CallsApart, InPool
<1>2. CASE Len(pool) < PoolSize /\ pool' = Append(pool, o)
  <2>1. /\ pool' \in Seq(Objects) /\ Len(pool') = Len(pool) + 1
        /\ \A i \in 1 .. Len(pool) : pool'[i] = pool[i]
        /\ pool'[Len(pool) + 1] = o
    BY <1>2, AppendProperties DEF TypeOK
  <2>2. DOMAIN pool' = 1 .. Len(pool) + 1
    BY <2>1, LenProperties
  <2>3. \A i \in DOMAIN pool' : i \in 1 .. Len(pool) \/ i = Len(pool) + 1
    BY <2>2, PoolFacts
  <2>4. \A i, j \in DOMAIN pool' : pool'[i] = pool'[j] => i = j
    BY <2>1, <2>3, PoolFacts DEF CallsApart
  <2>5. InPool' \subseteq InPool \cup {o}
    BY <2>1, <2>3, PoolFacts DEF InPool
  <2>6. Len(pool') <= PoolSize
    BY <1>2, <2>1, PoolFacts, SizesAssumption
  <2>. QED
    BY <2>1, <2>4, <2>5, <2>6
<1>. QED
  BY <1>1, <1>2 DEF Free

-----------------------------------------------------------------------------
(* The calls in progress. *)

LEMMA ActiveFacts ==
  ASSUME TypeOK
  PROVE  /\ Len(active) \in Nat /\ DOMAIN active = 1 .. Len(active)
         /\ \A i \in 1 .. Len(active) :
              /\ active[i].call \in Numbers
              /\ active[i].object \in Objects
              /\ active[i].array \in Arrays
<1>1. active \in Seq(Frames)
  BY DEF TypeOK, Frames
<1>2. \A i \in 1 .. Len(active) : active[i] \in Frames
  BY <1>1, ElementOfSeq
<1>. QED
  BY <1>1, <1>2, LenProperties DEF Frames

(* A new call is in front of the others. *)
LEMMA Entered ==
  ASSUME TypeOK, NEW f \in Frames, active' = <<f>> \o active
  PROVE  /\ active' \in Seq(Frames)
         /\ \A i \in DOMAIN active' :
              \/ i = 1 /\ active'[i] = f
              \/ i - 1 \in DOMAIN active /\ active'[i] = active[i - 1]
<1>1. <<f>> \in Seq(Frames) /\ active \in Seq(Frames) /\ Len(<<f>>) = 1 /\ <<f>>[1] = f
  BY DEF TypeOK, Frames
<1>2. /\ active' \in Seq(Frames) /\ Len(active') = 1 + Len(active)
      /\ \A i \in 1 .. 1 + Len(active) :
           active'[i] = IF i <= 1 THEN <<f>>[i] ELSE active[i - 1]
  BY <1>1, ConcatProperties
<1>3. DOMAIN active' = 1 .. 1 + Len(active)
  BY <1>2, LenProperties
<1>. QED
  BY <1>1, <1>2, <1>3, ActiveFacts

(* The innermost call has gone, the others are as they were. *)
LEMMA Left ==
  ASSUME TypeOK, active # <<>>, active' = Tail(active)
  PROVE  /\ active' \in Seq(Frames)
         /\ 1 \in DOMAIN active
         /\ \A i \in DOMAIN active' :
              i + 1 \in DOMAIN active /\ i + 1 # 1 /\ active'[i] = active[i + 1]
<1>1. active \in Seq(Frames)
  BY DEF TypeOK, Frames
<1>2. /\ active' \in Seq(Frames) /\ Len(active') = Len(active) - 1
      /\ \A i \in 1 .. Len(active') : active'[i] = active[i + 1]
  BY <1>1, HeadTailProperties
<1>3. Len(active) >= 1
  BY <1>1, EmptySeq, ActiveFacts
<1>4. DOMAIN active' = 1 .. Len(active) - 1
  BY <1>2, LenProperties
<1>. QED
  BY <1>2, <1>3, <1>4, ActiveFacts

-----------------------------------------------------------------------------
(* Each action keeps the invariant. *)

(* Prepare touches one object, which keeps whether it has been read. *)
LEMMA PrepareFacts ==
  ASSUME TypeOK, NEW o \in Objects, NEW n \in Numbers, NEW a \in Arrays, Prepare(o, n, a)
  PROVE  /\ objects' \in [Objects -> Fields]
         /\ \A p \in Objects : p # o => objects'[p] = objects[p]
         /\ objects'[o].call = n /\ objects'[o].array = a /\ objects'[o].canReturn
         /\ objects'[o].initialized = objects[o].initialized
         /\ objects'[o].materialized = objects[o].materialized
<1>1. objects \in [Objects -> Fields] /\ 0 \in Numbers
  BY SizesAssumption DEF TypeOK, Fields, Numbers
<1>. DEFINE x == [objects[o] EXCEPT !.call = n, !.array = a, !.canReturn = TRUE, !.contents = 0]
<1>2. objects[o] \in Fields
  BY <1>1
<1>3. /\ x \in Fields /\ x.call = n /\ x.array = a /\ x.canReturn
      /\ x.initialized = objects[o].initialized /\ x.materialized = objects[o].materialized
  BY <1>1, <1>2 DEF Fields
<1>4. objects' = [objects EXCEPT ![o] = x]
  BY <1>1, <1>2 DEF Prepare, Fields
<1>. HIDE DEF x
<1>. QED
  BY <1>1, <1>3, <1>4

LEMMA EnterKeeps ==
  ASSUME Inv, NEW o \in Objects, NEW a \in Arrays, Enter(o, a)
  PROVE  Inv'
<1>. DEFINE f == Call(calls', o, a)
<1>1. /\ calls \in Numbers /\ calls' = calls + 1 /\ calls' \in Numbers /\ calls' # 0
  BY SizesAssumption DEF Inv, TypeOK, Enter, Numbers
<1>2. /\ f \in Frames /\ f.call = calls' /\ f.object = o /\ f.array = a
  BY <1>1 DEF Call, Frames
<1>3. /\ active' \in Seq(Frames)
      /\ \A i \in DOMAIN active' :
           \/ i = 1 /\ active'[i] = f
           \/ i - 1 \in DOMAIN active /\ active'[i] = active[i - 1]
  <2>1. TypeOK /\ active' = <<f>> \o active
    BY DEF Inv, Enter
  <2>. HIDE DEF f
  <2>. QED
    BY <1>2, <2>1, Entered
<1>4. /\ pool' \in Seq(Objects) /\ Len(pool') <= PoolSize
      /\ \A i, j \in DOMAIN pool' : pool'[i] = pool'[j] => i = j
      /\ InPool' \subseteq InPool /\ o \notin InPool'
      /\ o \in InPool \/ objects[o] = Blank
  BY AllocateFacts DEF Inv, Enter
<1>5. /\ objects' \in [Objects -> Fields]
      /\ \A p \in Objects : p # o => objects'[p] = objects[p]
      /\ objects'[o].call = calls' /\ objects'[o].array = a /\ objects'[o].canReturn
      /\ objects'[o].initialized = objects[o].initialized
      /\ objects'[o].materialized = objects[o].materialized
  BY <1>1, PrepareFacts DEF Inv, Enter
<1>6. /\ holds' = [holds EXCEPT ![a] = calls'] /\ lent' = lent \cup {a} /\ a \notin lent
      /\ arrows' = arrows /\ given' = given /\ late' = late
  BY DEF Enter, RentArray
<1>7. holds' \in [Arrays -> Numbers] /\ holds'[a] = calls' /\ \A b \in Arrays : b # a => holds'[b] = holds[b]
  BY <1>1, <1>6 DEF Inv, TypeOK
<1>. HIDE DEF f
<1>8. \A i \in DOMAIN active :
        /\ active[i].object \in Objects /\ active[i].object # o
        /\ active[i].array \in Arrays /\ active[i].array # a
  <2>1. \A i \in DOMAIN active : active[i].object \in Objects /\ active[i].array \in Arrays
    BY ActiveFacts DEF Inv
  <2>2. Blank.call = 0
    BY DEF Blank
  <2>. QED
    BY <1>4, <1>6, <2>1, <2>2 DEF Inv, CallsApart, Lent
<1>9. TypeOK'
  <2>1. \A p \in InPool' : objects'[p].call # 0 /\ ~objects'[p].canReturn
    BY <1>4, <1>5, PoolFacts DEF Inv, TypeOK
  <2>2. lent' \subseteq {b \in Arrays : holds'[b] # 0}
    BY <1>1, <1>6, <1>7 DEF Inv, TypeOK
  <2>. QED
    BY <1>1, <1>3, <1>4, <1>5, <1>6, <1>7, <2>1, <2>2 DEF Inv, TypeOK, Frames, Fields
<1>10. CallsApart'
  <2>1. ASSUME NEW i \in DOMAIN active'
        PROVE  /\ active'[i].object \notin InPool'
               /\ objects'[active'[i].object].call = active'[i].call
               /\ active'[i].array \in lent' /\ holds'[active'[i].array] = active'[i].call
    <3>1. CASE active'[i] = f
      BY <1>2, <1>4, <1>5, <1>6, <1>7, <3>1
    <3>2. CASE i - 1 \in DOMAIN active /\ active'[i] = active[i - 1]
      <4>. DEFINE g == active[i - 1]
      <4>1. /\ g.object \notin InPool /\ objects[g.object].call = g.call
            /\ g.array \in lent /\ holds[g.array] = g.call
        BY <3>2 DEF Inv, CallsApart
      <4>2. g.object \in Objects /\ g.object # o /\ g.array \in Arrays /\ g.array # a
        BY <1>8, <3>2
      <4>. HIDE DEF g
      <4>3. active'[i] = g
        BY <3>2 DEF g
      <4>. QED
        BY <1>4, <1>5, <1>6, <1>7, <4>1, <4>2, <4>3
    <3>. QED
      BY <1>3, <3>1, <3>2
  <2>2. ASSUME NEW i \in DOMAIN active', NEW j \in DOMAIN active', i # j
        PROVE  active'[i].object # active'[j].object /\ active'[i].array # active'[j].array
    BY <1>2, <1>3, <1>8, <2>2, ActiveFacts DEF Inv, CallsApart
  <2>. QED
    BY <1>4, <2>1, <2>2 DEF CallsApart
<1>11. Lent'
  BY <1>1, <1>2, <1>3, <1>5, <1>8 DEF Inv, Lent
<1>12. Fresh' /\ (o \notin late => ~objects[o].initialized)
  <2>1. o \notin late => ~objects[o].initialized
    BY <1>4 DEF Inv, Fresh, Blank
  <2>. QED
    BY <1>4, <1>5, <1>6, <2>1 DEF Inv, Fresh
<1>13. Filled'
  <2>. SUFFICES ASSUME NEW i \in DOMAIN active',
                       active'[i].object \notin late', objects'[active'[i].object].initialized
                PROVE  objects'[active'[i].object].contents = active'[i].call
    BY DEF Filled
  <2>1. CASE active'[i] = f
    BY <1>2, <1>5, <1>6, <1>12, <2>1
  <2>2. CASE i - 1 \in DOMAIN active /\ active'[i] = active[i - 1]
    <3>. DEFINE g == active[i - 1]
    <3>1. g.object \in Objects /\ g.object # o /\ active'[i] = g
      BY <1>8, <2>2
    <3>2. g.object \notin late /\ objects[g.object].initialized => objects[g.object].contents = g.call
      BY <2>2 DEF Inv, Filled
    <3>. HIDE DEF g
    <3>. QED
      BY <1>5, <1>6, <3>1, <3>2
  <2>. QED
    BY <1>3, <2>1, <2>2
<1>14. GivenKept'
  <2>1. \A g \in given : g.object \in Objects
    BY DEF Inv, TypeOK
  <2>2. \A g \in given : g.object \notin late => g.object # o
    BY <1>12 DEF Inv, GivenKept
  <2>. QED
    BY <1>4, <1>5, <1>6, <2>1, <2>2 DEF Inv, GivenKept
<1>15. Prepared'
  BY <1>5, <1>6 DEF Inv, TypeOK, Prepared
<1>. QED
  BY <1>9, <1>10, <1>11, <1>12, <1>13, <1>14, <1>15 DEF Inv

(* An object that goes back to the pool cannot do so again, and keeps its other *)
(* fields.                                                                      *)
LEMMA FunctionWasCalledFacts ==
  ASSUME TypeOK, CallsApart, NEW o \in Objects, o \notin InPool, objects[o].call # 0,
         FunctionWasCalled(o) \/ UNCHANGED <<pool, objects>>
  PROVE  /\ pool' \in Seq(Objects) /\ Len(pool') <= PoolSize
         /\ \A i, j \in DOMAIN pool' : pool'[i] = pool'[j] => i = j
         /\ InPool' \subseteq InPool \cup {o}
         /\ objects' \in [Objects -> Fields]
         /\ \A p \in Objects :
              /\ objects'[p].call = objects[p].call /\ objects'[p].array = objects[p].array
              /\ objects'[p].initialized = objects[p].initialized
              /\ objects'[p].materialized = objects[p].materialized
              /\ objects'[p].contents = objects[p].contents
              /\ objects'[p].canReturn => objects[p].canReturn
         /\ o \in InPool' => objects[o].canReturn /\ ~objects'[o].canReturn
<1>1. objects \in [Objects -> Fields]
  BY DEF TypeOK, Fields
<1>2. CASE UNCHANGED <<pool, objects>>
  BY <1>1, <1>2 DEF TypeOK, CallsApart, InPool
<1>3. CASE objects[o].canReturn /\ Free(o) /\ objects' = [objects EXCEPT ![o].canReturn = FALSE]
  <2>1. /\ pool' \in Seq(Objects) /\ Len(pool') <= PoolSize
        /\ \A i, j \in DOMAIN pool' : pool'[i] = pool'[j] => i = j
        /\ InPool' \subseteq InPool \cup {o}
    BY <1>3, FreeFacts
  <2>. DEFINE x == [objects[o] EXCEPT !.canReturn = FALSE]
  <2>2. objects[o] \in Fields
    BY <1>1
  <2>3. /\ x \in Fields /\ x.call = objects[o].call /\ x.array = objects[o].array /\ ~x.canReturn
        /\ x.initialized = objects[o].initialized /\ x.materialized = objects[o].materialized
        /\ x.contents = objects[o].contents
    BY <2>2 DEF Fields
  <2>4. objects' = [objects EXCEPT ![o] = x]
    BY <1>1, <1>3 DEF Fields
  <2>. HIDE DEF x
  <2>5. objects' \in [Objects -> Fields] /\ objects'[o] = x /\ \A p \in Objects : p # o => objects'[p] = objects[p]
    BY <1>1, <2>3, <2>4
  <2>. QED
    BY <1>3, <2>1, <2>3, <2>5
<1>. QED
  BY <1>2, <1>3 DEF FunctionWasCalled

LEMMA LeaveKeeps ==
  ASSUME Inv, NEW rObject \in BOOLEAN, NEW rArray \in BOOLEAN, NEW keeps \in BOOLEAN,
         Leave(rObject, rArray, keeps)
  PROVE  Inv'
<1>. DEFINE f == active[1]
            k == [call |-> f.call, object |-> f.object]
<1>1. /\ active' \in Seq(Frames) /\ 1 \in DOMAIN active
      /\ \A i \in DOMAIN active' :
           i + 1 \in DOMAIN active /\ i + 1 # 1 /\ active'[i] = active[i + 1]
  BY Left DEF Inv, Leave
<1>2. /\ f.call \in Numbers /\ f.object \in Objects /\ f.array \in Arrays
      /\ f.call # 0 /\ f.object \notin InPool
      /\ objects[f.object].call = f.call /\ objects[f.object].array = f.array
  BY <1>1, ActiveFacts DEF Inv, CallsApart, Lent
<1>3. /\ FunctionWasCalled(f.object) \/ UNCHANGED <<pool, objects>>
      /\ lent' \subseteq lent /\ lent \ {f.array} \subseteq lent'
      /\ arrows' \subseteq arrows \cup {k}
      /\ calls' = calls /\ holds' = holds /\ given' = given /\ late' = late
  BY DEF Leave
<1>4. \A i \in DOMAIN active' :
        /\ active'[i].call \in Numbers /\ active'[i].object \in Objects /\ active'[i].array \in Arrays
        /\ active'[i].object # f.object /\ active'[i].array # f.array
        /\ active'[i].object \notin InPool
        /\ objects[active'[i].object].call = active'[i].call
        /\ objects[active'[i].object].array = active'[i].array
        /\ active'[i].array \in lent /\ holds[active'[i].array] = active'[i].call
        /\ active'[i].call # 0
  BY <1>1, ActiveFacts DEF Inv, CallsApart, Lent
<1>5. k \in [call : Numbers, object : Objects] /\ k.object = f.object
  BY <1>2
<1>. HIDE DEF f, k
<1>6. /\ pool' \in Seq(Objects) /\ Len(pool') <= PoolSize
      /\ \A i, j \in DOMAIN pool' : pool'[i] = pool'[j] => i = j
      /\ InPool' \subseteq InPool \cup {f.object}
      /\ objects' \in [Objects -> Fields]
      /\ \A p \in Objects :
           /\ objects'[p].call = objects[p].call /\ objects'[p].array = objects[p].array
           /\ objects'[p].initialized = objects[p].initialized
           /\ objects'[p].materialized = objects[p].materialized
           /\ objects'[p].contents = objects[p].contents
           /\ objects'[p].canReturn => objects[p].canReturn
      /\ f.object \in InPool' => objects[f.object].canReturn /\ ~objects'[f.object].canReturn
  <2>1. TypeOK /\ CallsApart
    BY DEF Inv
  <2>. QED
    BY <1>2, <1>3, <2>1, FunctionWasCalledFacts
<1>7. TypeOK'
  <2>1. \A p \in InPool' : objects'[p].call # 0 /\ ~objects'[p].canReturn
    BY <1>2, <1>6, PoolFacts DEF Inv, TypeOK
  <2>2. lent' \subseteq {b \in Arrays : holds'[b] # 0}
    BY <1>3 DEF Inv, TypeOK
  <2>3. arrows' \subseteq [call : Numbers, object : Objects]
    BY <1>3, <1>5 DEF Inv, TypeOK
  <2>. QED
    BY <1>1, <1>3, <1>6, <2>1, <2>2, <2>3 DEF Inv, TypeOK, Frames, Fields
<1>8. CallsApart'
  <2>1. ASSUME NEW i \in DOMAIN active'
        PROVE  /\ active'[i].object \notin InPool'
               /\ objects'[active'[i].object].call = active'[i].call
               /\ active'[i].array \in lent' /\ holds'[active'[i].array] = active'[i].call
    BY <1>3, <1>4, <1>6
  <2>2. ASSUME NEW i \in DOMAIN active', NEW j \in DOMAIN active', i # j
        PROVE  active'[i].object # active'[j].object /\ active'[i].array # active'[j].array
    <3>1. i \in Int /\ j \in Int
      BY <1>1, LenProperties
    <3>. QED
      BY <1>1, <2>2, <3>1 DEF Inv, CallsApart
  <2>. QED
    BY <1>6, <2>1, <2>2 DEF CallsApart
<1>9. Lent'
  BY <1>4, <1>6 DEF Lent
<1>10. Prepared'
  BY <1>2, <1>3, <1>5, <1>6 DEF Inv, TypeOK, Prepared
<1>11. Fresh'
  BY <1>3, <1>6 DEF Inv, Fresh
<1>12. Filled'
  <2>. SUFFICES ASSUME NEW i \in DOMAIN active',
                       active'[i].object \notin late', objects'[active'[i].object].initialized
                PROVE  objects'[active'[i].object].contents = active'[i].call
    BY DEF Filled
  <2>1. /\ active'[i].object \in Objects
        /\ active'[i].object \notin late /\ objects[active'[i].object].initialized
    BY <1>3, <1>4, <1>6
  <2>2. objects[active'[i].object].contents = active'[i].call
    BY <1>1, <2>1 DEF Inv, Filled
  <2>. QED
    BY <1>6, <2>1, <2>2
<1>13. GivenKept'
  <2>1. \A g \in given : g.object \in Objects
    BY DEF Inv, TypeOK
  <2>2. \A g \in given : g.object \notin late => g.object \notin InPool'
    BY <1>2, <1>6, <2>1 DEF Inv, Fresh, GivenKept
  <2>. QED
    BY <1>3, <1>6, <2>1, <2>2 DEF Inv, GivenKept
<1>. QED
  BY <1>7, <1>8, <1>9, <1>10, <1>11, <1>12, <1>13 DEF Inv

(* A read object that is not late has the arguments of the call that reads it. *)
LEMMA ReadFacts ==
  ASSUME Inv, NEW k, NEW asOperand \in BOOLEAN, Read(k, asOperand)
  PROVE  /\ k \in [call : Numbers, object : Objects]
         /\ objects' \in [Objects -> Fields]
         /\ \A p \in Objects : p # k.object => objects'[p] = objects[p]
         /\ objects'[k.object].call = objects[k.object].call
         /\ objects'[k.object].array = objects[k.object].array
         /\ objects'[k.object].canReturn => objects[k.object].canReturn
         /\ objects[k.object].initialized =>
              objects'[k.object].contents = objects[k.object].contents
         /\ k.object \notin late' =>
              /\ objects'[k.object].initialized /\ ~objects'[k.object].canReturn
              /\ objects'[k.object].contents = k.call
              /\ k.object \notin InPool
<1>. DEFINE x == objects[k.object]
            y == IF asOperand THEN Materialize(x) ELSE EnsureInitialized(x)
<1>1. \/ k \in arrows
      \/ \E i \in DOMAIN active : k = [call |-> active[i].call, object |-> active[i].object]
  BY DEF Read, Known
<1>2. k \in [call : Numbers, object : Objects]
  BY <1>1, ActiveFacts DEF Inv, TypeOK
<1>3. objects \in [Objects -> Fields] /\ k.object \in Objects /\ x \in Fields
  BY <1>2 DEF Inv, TypeOK, Fields
<1>4. x.array \in Arrays /\ holds[x.array] \in Numbers
  <2>1. x.array \in Arrays
    BY <1>1, ActiveFacts DEF Inv, Lent, Prepared
  <2>. QED
    BY <2>1 DEF Inv, TypeOK
<1>5. /\ EnsureInitialized(x) \in Fields
      /\ EnsureInitialized(x).call = x.call /\ EnsureInitialized(x).array = x.array
      /\ EnsureInitialized(x).initialized
      /\ EnsureInitialized(x).canReturn => x.canReturn
      /\ x.initialized => EnsureInitialized(x) = x
      /\ ~x.initialized => /\ ~EnsureInitialized(x).canReturn
                           /\ EnsureInitialized(x).contents = holds[x.array]
  BY <1>3, <1>4 DEF EnsureInitialized, Fields
<1>. DEFINE z == [EnsureInitialized(x) EXCEPT !.materialized = TRUE, !.canReturn = FALSE]
<1>6. /\ z \in Fields /\ z.call = x.call /\ z.array = x.array /\ z.initialized /\ ~z.canReturn
      /\ z.contents = EnsureInitialized(x).contents
  BY <1>5 DEF Fields
<1>7. Materialize(x) = IF x.materialized THEN x ELSE z
  BY DEF Materialize
<1>8. /\ objects' = [objects EXCEPT ![k.object] = y]
      /\ late' = IF k \in arrows \ given THEN late \cup {k.object} ELSE late
  BY DEF Read
<1>9. y = x \/ y = EnsureInitialized(x) \/ y = z
  BY <1>7
<1>. HIDE DEF x, y, z
<1>10. objects' \in [Objects -> Fields] /\ objects'[k.object] = y /\ \A p \in Objects : p # k.object => objects'[p] = objects[p]
  BY <1>3, <1>5, <1>6, <1>8, <1>9
<1>11. /\ y.call = x.call /\ y.array = x.array /\ (y.canReturn => x.canReturn)
       /\ x.initialized => y.contents = x.contents
  BY <1>5, <1>6, <1>9
<1>12. ASSUME k.object \notin late'
       PROVE  /\ y.initialized /\ ~y.canReturn /\ y.contents = k.call
              /\ k.object \notin InPool
  <2>1. k.object \notin late /\ (k \in given \/ k \notin arrows)
    BY <1>8, <1>12
  <2>2. /\ x.canReturn => ~x.initialized
        /\ x.materialized => x.initialized
    BY <1>3, <2>1 DEF Inv, Fresh, x
  <2>3. CASE x.initialized
    <3>1. x.contents = k.call /\ k.object \notin InPool
      <4>1. CASE k \in given
        BY <2>1, <4>1 DEF Inv, GivenKept, x
      <4>2. CASE k \notin arrows
        <5>1. PICK i \in DOMAIN active : k = [call |-> active[i].call, object |-> active[i].object]
          BY <1>1, <4>2
        <5>2. k.call = active[i].call /\ k.object = active[i].object
          BY <5>1
        <5>. QED
          BY <2>1, <2>3, <5>2 DEF Inv, Filled, CallsApart, x
      <4>. QED
        BY <2>1, <4>1, <4>2
    <3>2. ~x.canReturn
      BY <2>2, <2>3
    <3>. QED
      BY <1>5, <1>6, <1>9, <1>11, <2>3, <3>1, <3>2
  <2>4. CASE ~x.initialized
    <3>1. k \notin given
      BY <2>1, <2>4 DEF Inv, GivenKept, x
    <3>2. PICK i \in DOMAIN active : k = [call |-> active[i].call, object |-> active[i].object]
      BY <1>1, <2>1, <3>1
    <3>3. k.call = active[i].call /\ k.object = active[i].object
      BY <3>2
    <3>4. x.array = active[i].array /\ holds[active[i].array] = k.call /\ k.object \notin InPool
      BY <3>3 DEF Inv, Lent, CallsApart, x
    <3>5. y = EnsureInitialized(x) \/ y = z
      BY <1>7, <2>2, <2>4 DEF y
    <3>. QED
      BY <1>5, <1>6, <2>4, <3>4, <3>5
  <2>. QED
    BY <2>3, <2>4
<1>. QED
  BY <1>2, <1>10, <1>11, <1>12 DEF x

LEMMA ReadKeeps ==
  ASSUME Inv, NEW k, NEW asOperand \in BOOLEAN, Read(k, asOperand)
  PROVE  Inv'
<1>. DEFINE o == k.object
<1>1. /\ k \in [call : Numbers, object : Objects] /\ o \in Objects
      /\ objects' \in [Objects -> Fields]
      /\ \A p \in Objects : p # o => objects'[p] = objects[p]
      /\ objects'[o].call = objects[o].call /\ objects'[o].array = objects[o].array
      /\ objects'[o].canReturn => objects[o].canReturn
      /\ objects[o].initialized => objects'[o].contents = objects[o].contents
      /\ o \notin late' =>
           /\ objects'[o].initialized /\ ~objects'[o].canReturn
           /\ objects'[o].contents = k.call
           /\ o \notin InPool
  BY ReadFacts
<1>2. /\ given' = given \cup {k} /\ late \subseteq late' /\ late' \subseteq late \cup {o}
      /\ calls' = calls /\ active' = active /\ arrows' = arrows /\ pool' = pool
      /\ holds' = holds /\ lent' = lent
  BY DEF Read
<1>3. InPool' = InPool
  BY <1>2 DEF InPool
<1>4. \A i \in DOMAIN active : active[i].object \in Objects
  BY ActiveFacts DEF Inv
<1>. HIDE DEF o
<1>5. TypeOK'
  <2>1. \A p \in InPool : objects'[p].call # 0 /\ ~objects'[p].canReturn
    BY <1>1, PoolFacts DEF Inv, TypeOK
  <2>2. given' \subseteq [call : Numbers, object : Objects] /\ late' \subseteq Objects
    BY <1>1, <1>2 DEF Inv, TypeOK
  <2>. QED
    BY <1>1, <1>2, <1>3, <2>1, <2>2 DEF Inv, TypeOK, Fields
<1>6. CallsApart'
  <2>1. \A i \in DOMAIN active : objects'[active[i].object].call = active[i].call
    BY <1>1, <1>4 DEF Inv, CallsApart
  <2>. QED
    BY <1>2, <1>3, <2>1 DEF Inv, CallsApart
<1>7. Lent'
  BY <1>1, <1>2, <1>4 DEF Inv, Lent
<1>8. Prepared'
  BY <1>1, <1>2 DEF Inv, TypeOK, Prepared
<1>9. Fresh'
  <2>. SUFFICES ASSUME NEW p \in Objects, p \notin late'
                PROVE  /\ objects'[p].canReturn => ~objects'[p].initialized
                       /\ p \in InPool' => ~objects'[p].initialized
                       /\ objects'[p].materialized => objects'[p].initialized
    BY DEF Fresh
  <2>1. CASE p = o
    BY <1>1, <1>3, <2>1
  <2>2. CASE p # o
    BY <1>1, <1>2, <1>3, <2>2 DEF Inv, Fresh
  <2>. QED
    BY <2>1, <2>2
<1>10. Filled'
  <2>. SUFFICES ASSUME NEW i \in DOMAIN active,
                       active[i].object \notin late', objects'[active[i].object].initialized
                PROVE  objects'[active[i].object].contents = active[i].call
    BY <1>2 DEF Filled
  <2>1. active[i].object \notin late
    BY <1>2
  <2>2. CASE active[i].object # o
    BY <1>1, <1>4, <2>1, <2>2 DEF Inv, Filled
  <2>3. CASE active[i].object = o /\ objects[o].initialized
    BY <1>1, <2>1, <2>3 DEF Inv, Filled
  <2>4. CASE active[i].object = o /\ ~objects[o].initialized
    <3>1. k \notin given
      BY <2>1, <2>4 DEF Inv, GivenKept, o
    <3>2. k \notin arrows
      BY <2>4, <3>1 DEF Read, o
    <3>3. PICK j \in DOMAIN active : k = [call |-> active[j].call, object |-> active[j].object]
      BY <3>2 DEF Read, Known
    <3>4. k.call = active[j].call /\ o = active[j].object
      BY <3>3 DEF o
    <3>5. active[i].call = k.call
      BY <2>4, <3>4 DEF Inv, CallsApart
    <3>. QED
      BY <1>1, <2>4, <3>5
  <2>. QED
    BY <2>2, <2>3, <2>4
<1>11. GivenKept'
  <2>. SUFFICES ASSUME NEW g \in given', g.object \notin late'
                PROVE  /\ objects'[g.object].initialized
                       /\ objects'[g.object].contents = g.call
                       /\ g.object \notin InPool
    BY <1>3 DEF GivenKept
  <2>1. CASE g = k
    BY <1>1, <2>1 DEF o
  <2>2. CASE g \in given
    <3>1. /\ g.object \in Objects /\ objects[g.object].initialized
          /\ objects[g.object].contents = g.call /\ g.object \notin InPool
      BY <1>2, <2>2 DEF Inv, TypeOK, GivenKept
    <3>. QED
      BY <1>1, <3>1
  <2>. QED
    BY <1>2, <2>1, <2>2
<1>. QED
  BY <1>5, <1>6, <1>7, <1>8, <1>9, <1>10, <1>11 DEF Inv

-----------------------------------------------------------------------------
(* The theorems. *)

LEMMA InitEstablishes == Init => Inv
<1>. SUFFICES ASSUME Init PROVE Inv
  OBVIOUS
<1>1. DOMAIN active = {} /\ InPool = {} /\ DOMAIN pool = {} /\ Len(pool) = 0
  BY DEF Init, InPool
<1>2. Blank \in Fields /\ ~Blank.canReturn /\ ~Blank.initialized /\ ~Blank.materialized
  BY SizesAssumption DEF Blank, Fields, Numbers
<1>3. TypeOK
  <2>1. active \in Seq(Frames) /\ pool \in Seq(Objects) /\ calls \in Numbers
    BY SizesAssumption, EmptySeq DEF Init, Numbers
  <2>2. objects \in [Objects -> Fields] /\ holds \in [Arrays -> Numbers]
    BY <1>2, SizesAssumption DEF Init, Numbers
  <2>3. Len(pool) <= PoolSize
    BY <1>1, SizesAssumption
  <2>. QED
    BY <1>1, <2>1, <2>2, <2>3 DEF Init, TypeOK, Frames, Fields
<1>4. Fresh
  BY <1>1, <1>2 DEF Init, Fresh
<1>. QED
  BY <1>1, <1>3, <1>4 DEF Init, Inv, CallsApart, Lent, Prepared, Filled, GivenKept

LEMMA StutterKeeps == Inv /\ UNCHANGED vars => Inv'
BY DEF Inv, TypeOK, CallsApart, Lent, Prepared, Fresh, Filled, GivenKept, InPool, vars

LEMMA Invariance == Spec => []Inv
<1>1. Inv /\ [Next]_vars => Inv'
  BY EnterKeeps, LeaveKeeps, ReadKeeps, StutterKeeps DEF Next
<1>. QED
  BY <1>1, InitEstablishes, PTL DEF Spec

(* Every variable keeps its type, and what is in the pool has been used and      *)
(* cannot be returned again.                                                     *)
THEOREM TypesHold == Spec => []TypeOK
<1>1. Inv => TypeOK
  BY DEF Inv
<1>. QED
  BY <1>1, Invariance, PTL

(* Calls in progress, and the pool, share neither objects nor arrays, however    *)
(* calls nest and end (ObjectPool.Allocate, Free; JsValueArrayPool).             *)
THEOREM CallsStayApart == Spec => []CallsApart
<1>1. Inv => CallsApart
  BY DEF Inv
<1>. QED
  BY <1>1, Invariance, PTL

(* A script's arguments object keeps the arguments of its call, unless an arrow  *)
(* function mentioned it first when the call had ended (EnsureInitialized,       *)
(* Materialize and FunctionWasCalled of ArgumentsInstance).                      *)
THEOREM ArgumentsStayOwn == Spec => []OwnArguments
<1>1. Inv => OwnArguments
  BY DEF Inv, GivenKept, OwnArguments
<1>. QED
  BY <1>1, Invariance, PTL
=============================================================================
