-------------------------- MODULE PromiseJobsProofs --------------------------
(***************************************************************************)
(* Proofs about PromiseJobs, for every number of promises, every set of    *)
(* values and every bound on the calls: the types, that no promise is ever *)
(* settled twice, that rejections reach the end of their chain, that no    *)
(* pending promise is orphaned, and that the reactions of then() live as   *)
(* ReactionLifecycle says.                                                 *)
(***************************************************************************)
EXTENDS PromiseProperties, SequenceTheorems, TLAPS

-----------------------------------------------------------------------------
(* Sequences: what pushing, popping and appending does to each position. *)

(* Push is a sequence with the new element first. *)
LEMMA PushProperties ==
  ASSUME NEW S, NEW f \in S, NEW s \in Seq(S)
  PROVE  /\ Push(f, s) \in Seq(S)
         /\ Len(Push(f, s)) = Len(s) + 1
         /\ \A i \in 1 .. Len(Push(f, s)) : Push(f, s)[i] = IF i = 1 THEN f ELSE s[i - 1]
BY DEF Push

(* Tail drops the first position. *)
LEMMA TailProperties ==
  ASSUME NEW S, NEW s \in Seq(S), s # <<>>
  PROVE  /\ Tail(s) \in Seq(S)
         /\ Len(Tail(s)) = Len(s) - 1
         /\ Len(s) \in Nat /\ Len(s) >= 1
         /\ Head(s) = s[1]
         /\ s[1] \in S
         /\ \A i \in 1 .. Len(Tail(s)) : Tail(s)[i] = s[i + 1]
BY HeadTailProperties, EmptySeq, ElementOfSeq

(* A suffix is a sequence over the same set. *)
LEMMA SuffixProperties ==
  ASSUME NEW S, NEW s \in Seq(S), NEW k \in 1 .. Len(s)
  PROVE  /\ SubSeq(s, k + 1, Len(s)) \in Seq(S)
         /\ Len(SubSeq(s, k + 1, Len(s))) = Len(s) - k
         /\ \A i \in 1 .. Len(s) - k : SubSeq(s, k + 1, Len(s))[i] = s[k + i]
<1>1. Len(s) \in Nat /\ \A i \in 1 .. Len(s) : s[i] \in S
  BY LenProperties, ElementOfSeq
<1>2. \A i \in k + 1 .. Len(s) : s[i] \in S
  BY <1>1
<1>. QED
  BY <1>1, <1>2, SubSeqProperties

-----------------------------------------------------------------------------
(* Types.  The operators that build the next state are typed first.        *)

(* The kinds, records and functions of the model. *)
LEMMA RecordTypes ==
  /\ \A k \in {"none", "user"} : Plainly(k) \in Handlers
  /\ \A k \in {"Fulfill", "Reject"}, r \in Reactions, v \in Values :
       ReactionJob(k, r, v) \in Jobs
  /\ \A p \in Promises, x \in Promises \cup Objects : ThenableJob(p, x) \in Jobs
  /\ \A k \in {"script", "invoke", "drain"} : Entry(k) \in Frames
  /\ \A k \in {"handler", "thencall", "async", "await", "import"}, p \in Caps, n \in Nat,
        x \in Values \cup {NoValue} : Frame(k, p, n, x) \in Frames
  /\ \A p \in Promises, x \in Objects : Frame("getthen", p, 0, x) \in Frames
  /\ \A c \in Caps, h \in Handlers : [cap |-> c, handler |-> h] \in Reactions
<1>1. 1 \in Promises /\ Promises \subseteq Nat /\ Promises \subseteq Values
  BY BoundsAssumption DEF Promises, Values
<1>2. \A k \in {"none", "user"} : Plainly(k) \in Handlers
  BY <1>1 DEF Plainly, Handlers, Pairs
<1>3. \A k \in {"Fulfill", "Reject"}, r \in Reactions, v \in Values :
        ReactionJob(k, r, v) \in Jobs
  BY DEF ReactionJob, Reactions, Jobs
<1>4. \A p \in Promises, x \in Promises \cup Objects : ThenableJob(p, x) \in Jobs
  BY <1>2 DEF ThenableJob, Jobs
<1>5. \A k \in {"handler", "thencall", "async", "await", "import"}, p \in Caps, n \in Nat,
        x \in Values \cup {NoValue} : Frame(k, p, n, x) \in Frames
  BY DEF Frame, Frames, EntryKinds, UserKinds, LoopKinds
<1>6. \A k \in {"script", "invoke", "drain"} : Entry(k) \in Frames
  BY DEF Entry, Frame, Frames, EntryKinds, UserKinds, LoopKinds, Caps
<1>7. \A p \in Promises, x \in Objects : Frame("getthen", p, 0, x) \in Frames
  BY DEF Frame, Frames
<1>8. \A c \in Caps, h \in Handlers : [cap |-> c, handler |-> h] \in Reactions
  BY DEF Reactions
<1>. QED
  BY <1>2, <1>3, <1>4, <1>5, <1>6, <1>7, <1>8

(* The part of TypeOK that settling and registering can disturb. *)
PromiseTypes ==
  /\ state \in [Promises -> {"Pending", "Fulfilled", "Rejected"}]
  /\ value \in [Promises -> Values \cup {NoValue}]
  /\ fulfillReactions \in [Promises -> Seq(Reactions)]
  /\ rejectReactions \in [Promises -> Seq(Reactions)]
  /\ \A p \in Promises : state[p] # "Pending" => value[p] \in Values
LoopTypes ==
  /\ queue \in Seq(Jobs)
  /\ stack \in Seq(Frames)
  /\ live \subseteq Pairs
  /\ faulted \in BOOLEAN

(* Settling keeps the types: it stores a value and enqueues reaction jobs. *)
LEMMA SettleTypes ==
  ASSUME TypeOK, NEW p \in Promises, NEW outcome \in {"Fulfilled", "Rejected"},
         NEW kind \in {"Fulfill", "Reject"}, NEW reactions \in Seq(Reactions),
         NEW v \in Values, NEW q \in Seq(Jobs), Settle(p, outcome, kind, reactions, v, q)
  PROVE  PromiseTypes' /\ queue' \in Seq(Jobs) /\ faulted' \in BOOLEAN
<1>1. CASE state[p] # "Pending"
  BY <1>1 DEF TypeOK, Settle, PromiseTypes, promiseVars
<1>2. CASE state[p] = "Pending"
  <2>1. TriggerPromiseReactions(kind, reactions, v) \in Seq(Jobs)
    <3>1. \A i \in 1 .. Len(reactions) : ReactionJob(kind, reactions[i], v) \in Jobs
      BY ElementOfSeq, RecordTypes
    <3>. QED
      BY <3>1, LenProperties DEF TriggerPromiseReactions
  <2>2. queue' \in Seq(Jobs)
    <3>1. q \o TriggerPromiseReactions(kind, reactions, v) \in Seq(Jobs)
      BY <2>1, ConcatProperties
    <3>2. queue' = q \o TriggerPromiseReactions(kind, reactions, v)
      BY <1>2 DEF Settle
    <3>. QED
      BY <3>1, <3>2
  <2>3. <<>> \in Seq(Reactions)
    OBVIOUS
  <2>4. \A q2 \in Promises : state'[q2] # "Pending" => value'[q2] \in Values
    BY <1>2 DEF TypeOK, Settle
  <2>5. /\ state' \in [Promises -> {"Pending", "Fulfilled", "Rejected"}]
        /\ value' \in [Promises -> Values \cup {NoValue}]
    BY <1>2 DEF TypeOK, Settle
  <2>6. /\ fulfillReactions' \in [Promises -> Seq(Reactions)]
        /\ rejectReactions' \in [Promises -> Seq(Reactions)]
    BY <1>2, <2>3 DEF TypeOK, Settle
  <2>. QED
    BY <1>2, <2>2, <2>4, <2>5, <2>6 DEF TypeOK, Settle, PromiseTypes
<1>. QED
  BY <1>1, <1>2

(* Resolving keeps the types. *)
LEMMA ResolveTypes ==
  ASSUME TypeOK, NEW p \in Promises, NEW x \in Values,
         NEW q \in Seq(Jobs), NEW s \in Seq(Frames), Resolve(p, x, q, s)
  PROVE  PromiseTypes' /\ queue' \in Seq(Jobs) /\ stack' \in Seq(Frames)
         /\ faulted' \in BOOLEAN
<1>0. /\ SelfResolution \in Values
      /\ fulfillReactions[p] \in Seq(Reactions)
      /\ rejectReactions[p] \in Seq(Reactions)
  BY DEF Values, TypeOK
<1>1. CASE x = p /\ RejectPromise(p, SelfResolution, q) /\ stack' = s
  BY <1>0, <1>1, SettleTypes DEF RejectPromise
<1>2. CASE x \in Plain \cup {SelfResolution} /\ FulfillPromise(p, x, q) /\ stack' = s
  BY <1>0, <1>2, SettleTypes DEF FulfillPromise
<1>3. CASE x \in Promises \ {p} /\ EnqueueThenableJob(p, x, q) /\ stack' = s
  <2>1. Append(q, ThenableJob(p, x)) \in Seq(Jobs)
    BY <1>3, RecordTypes, AppendProperties
  <2>. QED
    BY <1>3, <2>1 DEF EnqueueThenableJob, TypeOK, PromiseTypes, promiseVars
<1>4. CASE /\ x \in Objects
           /\ stack' = Push(Frame("getthen", p, 0, x), s)
           /\ queue' = q
           /\ UNCHANGED <<promiseVars, faulted>>
  <2>1. stack' \in Seq(Frames)
    BY <1>4, RecordTypes, PushProperties
  <2>. QED
    BY <1>4, <2>1 DEF TypeOK, PromiseTypes, promiseVars
<1>. QED
  BY <1>1, <1>2, <1>3, <1>4 DEF Resolve

(* So does calling a resolving function, live or not. *)
LEMMA CallResolveTypes ==
  ASSUME TypeOK, NEW pair, NEW x \in Values,
         NEW q \in Seq(Jobs), NEW s \in Seq(Frames), CallResolve(pair, x, q, s)
  PROVE  PromiseTypes' /\ LoopTypes'
<1>1. CASE pair \notin live
  BY <1>1 DEF CallResolve, AlreadyResolved, TypeOK, PromiseTypes, LoopTypes, promiseVars
<1>2. CASE pair \in live
  <2>1. pair[1] \in Promises
    BY <1>2 DEF TypeOK, Pairs
  <2>2. Resolve(pair[1], x, q, s) /\ live' = live \ {pair}
    BY <1>2 DEF CallResolve
  <2>3. live' \subseteq Pairs
    BY <2>2 DEF TypeOK
  <2>. QED
    BY <2>1, <2>2, <2>3, ResolveTypes DEF LoopTypes
<1>. QED
  BY <1>1, <1>2

LEMMA CallRejectTypes ==
  ASSUME TypeOK, NEW pair, NEW v \in Values,
         NEW q \in Seq(Jobs), NEW s \in Seq(Frames), CallReject(pair, v, q, s)
  PROVE  PromiseTypes' /\ LoopTypes'
<1>1. CASE pair \notin live
  BY <1>1 DEF CallReject, AlreadyResolved, TypeOK, PromiseTypes, LoopTypes, promiseVars
<1>2. CASE pair \in live
  <2>1. pair[1] \in Promises /\ rejectReactions[pair[1]] \in Seq(Reactions)
    BY <1>2 DEF TypeOK, Pairs
  <2>2. RejectPromise(pair[1], v, q) /\ live' = live \ {pair} /\ stack' = s
    BY <1>2 DEF CallReject
  <2>3. live' \subseteq Pairs
    BY <2>2 DEF TypeOK
  <2>. QED
    BY <2>1, <2>2, <2>3, SettleTypes DEF RejectPromise, LoopTypes
<1>. QED
  BY <1>1, <1>2

(* Registering a reaction keeps the types. *)
LEMMA ThenTypes ==
  ASSUME TypeOK, NEW p \in Promises, NEW onF \in Handlers, NEW onR \in Handlers,
         NEW cap \in Caps, NEW q \in Seq(Jobs), PerformPromiseThen(p, onF, onR, cap, q)
  PROVE  PromiseTypes' /\ queue' \in Seq(Jobs) /\ faulted' = faulted
<1> DEFINE f == [cap |-> cap, handler |-> onF]
           r == [cap |-> cap, handler |-> onR]
<1>0. f \in Reactions /\ r \in Reactions
  BY RecordTypes
<1>1. CASE /\ state[p] = "Pending"
           /\ fulfillReactions' = [fulfillReactions EXCEPT ![p] = Append(@, f)]
           /\ rejectReactions' = [rejectReactions EXCEPT ![p] = Append(@, r)]
           /\ queue' = q
  <2>1. /\ Append(fulfillReactions[p], f) \in Seq(Reactions)
        /\ Append(rejectReactions[p], r) \in Seq(Reactions)
    BY <1>0, AppendProperties DEF TypeOK
  <2>2. /\ fulfillReactions' \in [Promises -> Seq(Reactions)]
        /\ rejectReactions' \in [Promises -> Seq(Reactions)]
    BY <1>1, <2>1 DEF TypeOK
  <2>. QED
    BY <1>1, <2>2 DEF PerformPromiseThen, TypeOK, PromiseTypes
<1>2. CASE /\ state[p] = "Fulfilled"
           /\ queue' = Append(q, ReactionJob("Fulfill", f, value[p]))
           /\ UNCHANGED <<fulfillReactions, rejectReactions>>
  <2>1. ReactionJob("Fulfill", f, value[p]) \in Jobs
    BY <1>0, <1>2, RecordTypes DEF TypeOK
  <2>. QED
    BY <1>2, <2>1, AppendProperties DEF PerformPromiseThen, TypeOK, PromiseTypes
<1>3. CASE /\ state[p] = "Rejected"
           /\ queue' = Append(q, ReactionJob("Reject", r, value[p]))
           /\ UNCHANGED <<fulfillReactions, rejectReactions>>
  <2>1. ReactionJob("Reject", r, value[p]) \in Jobs
    BY <1>0, <1>3, RecordTypes DEF TypeOK
  <2>. QED
    BY <1>3, <2>1, AppendProperties DEF PerformPromiseThen, TypeOK, PromiseTypes
<1>. QED
  BY <1>1, <1>2, <1>3 DEF PerformPromiseThen

(* Creating a promise keeps the types. *)
LEMMA NewPromiseTypes ==
  ASSUME TypeOK, NewPromise
  PROVE  /\ created' \in 0 .. NumPromises
         /\ created + 1 \in Promises
         /\ created + 1 \in Caps
         /\ <<created + 1, 1>> \in Pairs
         /\ pairs' \in [Promises -> Nat]
         /\ live' \subseteq Pairs
<1>1. /\ created' \in 0 .. NumPromises
      /\ created + 1 \in Promises
  BY BoundsAssumption DEF TypeOK, NewPromise, Promises
<1>2. <<created + 1, 1>> \in Pairs
  BY <1>1 DEF Pairs
<1>3. pairs' \in [Promises -> Nat]
  BY <1>1 DEF TypeOK, NewPromise
<1>4. live' \subseteq Pairs
  BY <1>2 DEF TypeOK, NewPromise
<1>. QED
  BY <1>1, <1>2, <1>3, <1>4 DEF Caps

(* The types of what user code can name, and of the frame on top. *)
LEMMA InputTypes ==
  ASSUME TypeOK
  PROVE  /\ Handed \subseteq Promises
         /\ UserValues \subseteq Values
         /\ Plain \subseteq Values
         /\ Spend => ops' \in 0 .. MaxOps
         /\ stack # <<>> => Top \in Frames /\ Tail(stack) \in Seq(Frames)
         /\ queue # <<>> => Head(queue) \in Jobs /\ Tail(queue) \in Seq(Jobs)
<1>1. Handed \subseteq Promises /\ UserValues \subseteq Values /\ Plain \subseteq Values
  BY DEF Handed, UserValues, Values
<1>2. Spend => ops' \in 0 .. MaxOps
  BY BoundsAssumption DEF TypeOK, Spend
<1>3. stack # <<>> => Top \in Frames /\ Tail(stack) \in Seq(Frames)
  BY TailProperties DEF Top, TypeOK
<1>4. queue # <<>> => Head(queue) \in Jobs /\ Tail(queue) \in Seq(Jobs)
  BY TailProperties DEF TypeOK
<1>. QED
  BY <1>1, <1>2, <1>3, <1>4

(* Unwinding keeps the types: a suffix of the stack remains. *)
LEMMA UnwindTypes ==
  ASSUME TypeOK, Unwind
  PROVE  TypeOK'
<1>1. PICK k \in 1 .. Len(stack) :
        /\ stack' = SubSeq(stack, k + 1, Len(stack))
        /\ lost' = lost \cup {stack[i].p : i \in {j \in 1 .. k : stack[j].kind \in LossyKinds}}
        /\ unwound' = TRUE
        /\ UNCHANGED <<created, promiseVars, pairs, live, exposed, manual, queue, ops,
                       faulted, origin>>
  BY DEF Unwind
<1>2. stack' \in Seq(Frames)
  BY <1>1, SuffixProperties DEF TypeOK
<1>3. \A j \in 1 .. k : stack[j].p \in Caps
  <2>1. \A f \in Frames : f.p \in Caps
    BY DEF Frames, Caps
  <2>2. Len(stack) \in Nat
    BY LenProperties DEF TypeOK
  <2>. QED
    BY <2>1, <2>2, ElementOfSeq DEF TypeOK
<1>4. lost' \subseteq Caps
  BY <1>1, <1>3 DEF TypeOK
<1>. QED
  BY <1>1, <1>2, <1>4 DEF TypeOK, promiseVars

-----------------------------------------------------------------------------
(* Type correctness, one step per group of actions of Next. *)

LEMMA TypeOKInit == Init => TypeOK
<1> SUFFICES ASSUME Init PROVE TypeOK
  OBVIOUS
<1>1. <<>> \in Seq(Reactions) /\ <<>> \in Seq(Jobs) /\ <<>> \in Seq(Frames)
  OBVIOUS
<1>2. created \in 0 .. NumPromises /\ ops \in 0 .. MaxOps
  BY BoundsAssumption DEF Init
<1>3. /\ state \in [Promises -> {"Pending", "Fulfilled", "Rejected"}]
      /\ value \in [Promises -> Values \cup {NoValue}]
      /\ pairs \in [Promises -> Nat]
      /\ \A p \in Promises : state[p] = "Pending"
  BY DEF Init
<1>4. /\ fulfillReactions \in [Promises -> Seq(Reactions)]
      /\ rejectReactions \in [Promises -> Seq(Reactions)]
  BY <1>1 DEF Init
<1>5. origin \in [Promises -> [source : Caps, onF : BOOLEAN, onR : BOOLEAN]]
  <2>1. [source |-> NoPromise, onF |-> FALSE, onR |-> FALSE]
          \in [source : Caps, onF : BOOLEAN, onR : BOOLEAN]
    BY DEF Caps
  <2>. QED
    BY <2>1, Zenon DEF Init
<1>6. faulted \in BOOLEAN /\ unwound \in BOOLEAN
  BY Zenon DEF Init
<1>7. live \subseteq Pairs /\ exposed \subseteq Pairs /\ manual \subseteq Pairs
      /\ lost \subseteq Caps /\ queue = <<>> /\ stack = <<>>
  BY DEF Init
<1>. QED
  BY <1>1, <1>2, <1>3, <1>4, <1>5, <1>6, <1>7 DEF TypeOK

LEMMA TypeOKHostCall == TypeOK /\ HostCall => TypeOK'
<1> SUFFICES ASSUME TypeOK, HostCall PROVE TypeOK'
  OBVIOUS
<1>1. stack \in Seq(Frames) /\ queue \in Seq(Jobs)
  BY DEF TypeOK
<1>2. \A k \in {"script", "invoke", "drain"} : Push(Entry(k), stack) \in Seq(Frames)
  BY <1>1, RecordTypes, PushProperties
<1>3. CASE Execute
  BY <1>2, <1>3, InputTypes DEF Execute, TypeOK, promiseVars, history
<1>4. CASE Invoke
  BY <1>2, <1>4, InputTypes DEF Invoke, TypeOK, promiseVars, history
<1>5. CASE RegisterPromise
  BY <1>5, InputTypes, NewPromiseTypes DEF RegisterPromise, TypeOK, promiseVars, history
<1>6. ASSUME NEW pair \in manual, NEW x \in UserValues, HostResolve(pair, x)
      PROVE TypeOK'
  <2>1. CallResolve(pair, x, queue, Push(Entry("drain"), stack)) /\ x \in Values
    BY <1>6, InputTypes DEF HostResolve
  <2>2. PromiseTypes' /\ LoopTypes'
    BY <1>1, <1>2, <2>1, CallResolveTypes
  <2>. QED
    BY <1>6, <2>2, InputTypes DEF HostResolve, PromiseTypes, LoopTypes, TypeOK, history
<1>7. ASSUME NEW pair \in manual, NEW v \in Plain, HostReject(pair, v)
      PROVE TypeOK'
  <2>1. CallReject(pair, v, queue, Push(Entry("drain"), stack)) /\ v \in Values
    BY <1>7, InputTypes DEF HostReject
  <2>2. PromiseTypes' /\ LoopTypes'
    BY <1>1, <1>2, <2>1, CallRejectTypes
  <2>. QED
    BY <1>7, <2>2, InputTypes DEF HostReject, PromiseTypes, LoopTypes, TypeOK, history
<1>. QED
  BY <1>3, <1>4, <1>5, <1>6, <1>7 DEF HostCall

LEMMA TypeOKUserCall == TypeOK /\ UserCall => TypeOK'
<1> SUFFICES ASSUME TypeOK, UserCall PROVE TypeOK'
  OBVIOUS
<1>1. stack \in Seq(Frames) /\ queue \in Seq(Jobs)
  BY DEF TypeOK
<1>2. CASE Construct
  BY <1>2, InputTypes, NewPromiseTypes DEF Construct, TypeOK, promiseVars, history
<1>3. CASE CallAsync
  <2>1. Frame("async", created + 1, 1, NoValue) \in Frames
    BY <1>3, NewPromiseTypes, RecordTypes DEF CallAsync
  <2>2. Push(Frame("async", created + 1, 1, NoValue), stack) \in Seq(Frames)
    BY <1>1, <2>1, PushProperties
  <2>. QED
    BY <1>3, <2>2, InputTypes, NewPromiseTypes DEF CallAsync, TypeOK, promiseVars, history
<1>4. CASE Import
  <2>1. Push(Frame("import", NoPromise, 0, NoValue), stack) \in Seq(Frames)
    BY <1>1, RecordTypes, PushProperties DEF Caps
  <2>. QED
    BY <1>4, <2>1, InputTypes DEF Import, TypeOK, promiseVars, history
<1>5. ASSUME NEW q \in Handed, NEW onF \in BOOLEAN, NEW onR \in BOOLEAN, Then(q, onF, onR)
      PROVE  TypeOK'
  <2> DEFINE hF == Plainly(IF onF THEN "user" ELSE "none")
             hR == Plainly(IF onR THEN "user" ELSE "none")
             r == [source |-> q, onF |-> onF, onR |-> onR]
  <2>1. hF \in Handlers /\ hR \in Handlers
    BY RecordTypes
  <2>2. created + 1 \in Caps /\ q \in Promises /\ q \in Caps
    BY <1>5, NewPromiseTypes, InputTypes DEF Then, Caps
  <2>3. PerformPromiseThen(q, hF, hR, created + 1, queue)
    BY <1>5 DEF Then
  <2>4. PromiseTypes' /\ queue' \in Seq(Jobs) /\ faulted' = faulted
    <3> HIDE DEF hF, hR
    <3>. QED
      BY <1>1, <2>1, <2>2, <2>3, ThenTypes
  <2>5. origin' \in [Promises -> [source : Caps, onF : BOOLEAN, onR : BOOLEAN]]
    <3>1. r \in [source : Caps, onF : BOOLEAN, onR : BOOLEAN]
      BY <2>2, Zenon
    <3>2. origin' = [origin EXCEPT ![created + 1] = r]
      BY <1>5 DEF Then
    <3>3. origin \in [Promises -> [source : Caps, onF : BOOLEAN, onR : BOOLEAN]]
      BY DEF TypeOK
    <3> HIDE DEF r
    <3>. QED
      BY <3>1, <3>2, <3>3
  <2>6. /\ created' \in 0 .. NumPromises
        /\ pairs' \in [Promises -> Nat]
        /\ live' \subseteq Pairs
        /\ ops' \in 0 .. MaxOps
    BY <1>5, NewPromiseTypes, InputTypes DEF Then
  <2>. QED
    BY <1>5, <2>4, <2>5, <2>6 DEF Then, PromiseTypes, TypeOK
<1>6. ASSUME NEW pair \in exposed, NEW x \in UserValues, UserResolve(pair, x)
      PROVE TypeOK'
  <2>1. CallResolve(pair, x, queue, stack) /\ x \in Values
    BY <1>6, InputTypes DEF UserResolve
  <2>2. PromiseTypes' /\ LoopTypes'
    BY <1>1, <2>1, CallResolveTypes
  <2>. QED
    BY <1>6, <2>2, InputTypes DEF UserResolve, PromiseTypes, LoopTypes, TypeOK, history
<1>7. ASSUME NEW pair \in exposed, NEW v \in Plain, UserReject(pair, v)
      PROVE TypeOK'
  <2>1. CallReject(pair, v, queue, stack) /\ v \in Values
    BY <1>7, InputTypes DEF UserReject
  <2>2. PromiseTypes' /\ LoopTypes'
    BY <1>1, <2>1, CallRejectTypes
  <2>. QED
    BY <1>7, <2>2, InputTypes DEF UserReject, PromiseTypes, LoopTypes, TypeOK, history
<1>8. ASSUME NEW x \in UserValues, Await(x)
      PROVE  TypeOK'
  <2>1. Push(Frame("await", NoPromise, 0, x), stack) \in Seq(Frames)
    BY <1>1, InputTypes, RecordTypes, PushProperties DEF Caps
  <2>. QED
    BY <1>8, <2>1, InputTypes DEF Await, TypeOK, promiseVars, history
<1>. QED
  BY <1>2, <1>3, <1>4, <1>5, <1>6, <1>7, <1>8 DEF UserCall

(* What the frame on top is when user code finishes. *)
LEMMA TopTypes ==
  ASSUME TypeOK, UserOnTop
  PROVE  /\ Top \in Frames
         /\ Tail(stack) \in Seq(Frames)
         /\ Top.kind = "getthen" => Top.p \in Promises /\ Top.x \in Objects
BY InputTypes DEF UserOnTop, Frames

LEMMA TypeOKUserDone == TypeOK /\ UserDone => TypeOK'
<1> SUFFICES ASSUME TypeOK, UserDone PROVE TypeOK'
  OBVIOUS
<1>1. stack \in Seq(Frames) /\ queue \in Seq(Jobs)
  BY DEF TypeOK
<1>2. CASE ReturnToHost
  <2>1. Push(Entry("drain"), Tail(stack)) \in Seq(Frames)
    BY <1>2, TopTypes, RecordTypes, PushProperties DEF ReturnToHost
  <2>2. stack' \in Seq(Frames)
    BY <1>2, <2>1, TopTypes DEF ReturnToHost
  <2>. QED
    BY <1>2, <2>2 DEF ReturnToHost, TypeOK, promiseVars, history
<1>3. CASE ThrowToHost
  BY <1>3, TopTypes DEF ThrowToHost, TypeOK, promiseVars, history
<1>4. CASE ReturnFromThen
  BY <1>4, TopTypes DEF ReturnFromThen, TypeOK, promiseVars, history
<1>5. CASE GotCallableThen
  <2>1. ThenableJob(Top.p, Top.x) \in Jobs
    BY <1>5, TopTypes, RecordTypes DEF GotCallableThen
  <2>2. queue' \in Seq(Jobs)
    BY <1>1, <1>5, <2>1, AppendProperties DEF GotCallableThen, EnqueueThenableJob
  <2>. QED
    BY <1>5, <2>2, TopTypes DEF GotCallableThen, EnqueueThenableJob, TypeOK, promiseVars, history
<1>6. CASE GotOtherThen
  <2>1. /\ Top.p \in Promises /\ Top.x \in Values
        /\ fulfillReactions[Top.p] \in Seq(Reactions)
    BY <1>6, TopTypes DEF GotOtherThen, TypeOK, Values
  <2>2. PromiseTypes' /\ queue' \in Seq(Jobs) /\ faulted' \in BOOLEAN
    BY <1>1, <1>6, <2>1, SettleTypes DEF GotOtherThen, FulfillPromise
  <2>. QED
    BY <1>6, <2>2, TopTypes DEF GotOtherThen, PromiseTypes, TypeOK, history
<1>7. ASSUME NEW x \in UserValues, ReturnToCapability(x)
      PROVE  TypeOK'
  <2>1. x \in Values /\ CallResolve(<<Top.p, 1>>, x, queue, Tail(stack))
    BY <1>7, InputTypes DEF ReturnToCapability
  <2>2. PromiseTypes' /\ LoopTypes'
    BY <1>1, <1>7, <2>1, TopTypes, CallResolveTypes DEF ReturnToCapability
  <2>. QED
    BY <1>7, <2>2 DEF ReturnToCapability, PromiseTypes, LoopTypes, TypeOK, history
<1>8. ASSUME NEW v \in Plain, ThrowToCapability(v)
      PROVE  TypeOK'
  <2>1. v \in Values /\ CallReject(<<Top.p, 1>>, v, queue, Tail(stack))
    BY <1>8, InputTypes DEF ThrowToCapability
  <2>2. PromiseTypes' /\ LoopTypes'
    BY <1>1, <1>8, <2>1, TopTypes, CallRejectTypes DEF ThrowToCapability
  <2>. QED
    BY <1>8, <2>2 DEF ThrowToCapability, PromiseTypes, LoopTypes, TypeOK, history
<1>9. ASSUME NEW v \in Plain, ThrowFromThen(v)
      PROVE  TypeOK'
  <2>1. v \in Values /\ CallReject(<<Top.p, Top.n>>, v, queue, Tail(stack))
    BY <1>9, InputTypes DEF ThrowFromThen
  <2>2. PromiseTypes' /\ LoopTypes'
    BY <1>1, <1>9, <2>1, TopTypes, CallRejectTypes DEF ThrowFromThen
  <2>. QED
    BY <1>9, <2>2 DEF ThrowFromThen, PromiseTypes, LoopTypes, TypeOK, history
<1>10. ASSUME NEW v \in Plain, ThrowFromGetThen(v)
       PROVE  TypeOK'
  <2>1. /\ Top.p \in Promises /\ v \in Values
        /\ rejectReactions[Top.p] \in Seq(Reactions)
    BY <1>10, TopTypes DEF ThrowFromGetThen, TypeOK, Values
  <2>2. PromiseTypes' /\ queue' \in Seq(Jobs) /\ faulted' \in BOOLEAN
    BY <1>1, <1>10, <2>1, SettleTypes DEF ThrowFromGetThen, RejectPromise
  <2>. QED
    BY <1>10, <2>2, TopTypes DEF ThrowFromGetThen, PromiseTypes, TypeOK, history
<1>. QED
  BY <1>2, <1>3, <1>4, <1>5, <1>6, <1>7, <1>8, <1>9, <1>10 DEF UserDone

(* The job at the head of the queue. *)
LEMMA HeadTypes ==
  ASSUME TypeOK, NextJob
  PROVE  /\ Head(queue) \in Jobs
         /\ Tail(queue) \in Seq(Jobs)
         /\ Head(queue).handler \in Handlers
         /\ Head(queue).cap \in Caps
         /\ Head(queue).arg \in Values
         /\ Head(queue).kind = "Thenable" =>
              Head(queue).cap \in Promises /\ Head(queue).arg \in Promises \cup Objects
<1>1. Head(queue) \in Jobs /\ Tail(queue) \in Seq(Jobs)
  BY InputTypes DEF NextJob
<1>2. Promises \subseteq Values /\ Objects \subseteq Values /\ Promises \subseteq Caps
  BY DEF Values, Caps
<1>. QED
  BY <1>1, <1>2 DEF Jobs

LEMMA TypeOKLoop == TypeOK /\ Loop => TypeOK'
<1> SUFFICES ASSUME TypeOK, Loop PROVE TypeOK'
  OBVIOUS
<1> DEFINE job == Head(queue)
           rest == Tail(queue)
           pair == <<job.cap, pairs[job.cap] + 1>>
<1>1. stack \in Seq(Frames) /\ queue \in Seq(Jobs)
  BY DEF TypeOK
<1>2. CASE RunHandler
  <2>1. Frame("handler", job.cap, 1, job.arg) \in Frames
    BY <1>2, HeadTypes, RecordTypes DEF RunHandler
  <2>2. stack' \in Seq(Frames)
    BY <1>1, <1>2, <2>1, PushProperties DEF RunHandler
  <2>. QED
    BY <1>2, <2>2, HeadTypes DEF RunHandler, TypeOK, promiseVars, history
<1>3. CASE RunAdoption
  <2>1. \/ CallResolve(job.handler.pair, job.arg, rest, stack)
        \/ CallReject(job.handler.pair, job.arg, rest, stack)
    BY <1>3 DEF RunAdoption
  <2>2. PromiseTypes' /\ LoopTypes'
    BY <1>1, <1>3, <2>1, HeadTypes, CallResolveTypes, CallRejectTypes DEF RunAdoption
  <2>. QED
    BY <1>3, <2>2 DEF RunAdoption, PromiseTypes, LoopTypes, TypeOK, history
<1>4. CASE RunPassThrough
  <2>1. \/ CallResolve(<<job.cap, 1>>, job.arg, rest, stack)
        \/ CallReject(<<job.cap, 1>>, job.arg, rest, stack)
    BY <1>4 DEF RunPassThrough
  <2>2. PromiseTypes' /\ LoopTypes'
    BY <1>1, <1>4, <2>1, HeadTypes, CallResolveTypes, CallRejectTypes DEF RunPassThrough
  <2>. QED
    BY <1>4, <2>2 DEF RunPassThrough, PromiseTypes, LoopTypes, TypeOK, history
<1>5. ASSUME NextJob, job.kind = "Thenable"
      PROVE  /\ pair \in Pairs
             /\ [pairs EXCEPT ![job.cap] = @ + 1] \in [Promises -> Nat]
             /\ live \cup {pair} \subseteq Pairs
  <2>1. job.cap \in Promises
    BY <1>5, HeadTypes
  <2>2. pairs \in [Promises -> Nat] /\ live \subseteq Pairs
    BY DEF TypeOK
  <2> HIDE DEF job
  <2>3. pairs[job.cap] + 1 \in Nat
    BY <2>1, <2>2
  <2>. QED
    BY <2>1, <2>2, <2>3 DEF Pairs
<1>6. CASE RunPromiseThenable
  <2> DEFINE hF == [kind |-> "resolve", pair |-> pair]
             hR == [kind |-> "reject", pair |-> pair]
  <2>1. NextJob /\ job.kind = "Thenable" /\ job.arg \in Promises
    BY <1>6 DEF RunPromiseThenable
  <2>2. hF \in Handlers /\ hR \in Handlers /\ NoPromise \in Caps
    BY <1>5, <2>1 DEF Handlers, Caps
  <2>3. PerformPromiseThen(job.arg, hF, hR, NoPromise, rest)
    BY <1>6 DEF RunPromiseThenable
  <2>4. PromiseTypes' /\ queue' \in Seq(Jobs) /\ faulted' = faulted
    <3> HIDE DEF hF, hR
    <3>. QED
      BY <2>1, <2>2, <2>3, HeadTypes, ThenTypes
  <2>. QED
    BY <1>5, <1>6, <2>1, <2>4 DEF RunPromiseThenable, PromiseTypes, TypeOK, history
<1>7. CASE RunUserThenable
  <2>1. NextJob /\ job.kind = "Thenable" /\ job.arg \in Objects
    BY <1>7 DEF RunUserThenable
  <2>2. Frame("thencall", pair[1], pair[2], job.arg) \in Frames
    BY <1>5, <2>1, HeadTypes, RecordTypes DEF Pairs
  <2>3. stack' \in Seq(Frames)
    BY <1>1, <1>7, <2>2, PushProperties DEF RunUserThenable
  <2>4. queue' \in Seq(Jobs)
    BY <1>7, <2>1, HeadTypes DEF RunUserThenable
  <2>. QED
    BY <1>5, <1>7, <2>1, <2>3, <2>4 DEF RunUserThenable, TypeOK, promiseVars, history
<1>8. CASE DrainDone
  BY <1>8, InputTypes DEF DrainDone, LoopOnTop, TypeOK, promiseVars, history
<1>9. CASE AwaitResumes
  BY <1>9, InputTypes DEF AwaitResumes, LoopOnTop, TypeOK, promiseVars, history
<1>10. CASE AwaitPending
  BY <1>10, UnwindTypes DEF AwaitPending
<1>. QED
  BY <1>2, <1>3, <1>4, <1>6, <1>7, <1>8, <1>9, <1>10 DEF Loop

LEMMA TypeOKStep == TypeOK /\ [Next]_vars => TypeOK'
<1> SUFFICES ASSUME TypeOK, [Next]_vars PROVE TypeOK'
  OBVIOUS
<1>1. CASE Next
  BY <1>1, TypeOKHostCall, TypeOKUserCall, TypeOKUserDone, TypeOKLoop, UnwindTypes
     DEF Next, ConstraintFails
<1>2. CASE UNCHANGED vars
  <2>1. PromiseTypes
    BY DEF TypeOK, PromiseTypes
  <2>2. PromiseTypes'
    BY <1>2, <2>1 DEF PromiseTypes, vars
  <2>. QED
    BY <1>2, <2>2 DEF TypeOK, PromiseTypes, vars
<1>. QED
  BY <1>1, <1>2

(* Every variable has its type in every state of the engine, whatever user   *)
(* code and the host do.                                                     *)
THEOREM TypeCorrect == Spec => []TypeOK
BY TypeOKInit, TypeOKStep, PTL DEF Spec

-----------------------------------------------------------------------------
(* No promise is settled twice.  The inductive invariant is OneSettler; the   *)
(* lemmas below say how each elementary change of the queue, the stack, the   *)
(* live pairs and the states preserves SettleRights.                          *)

Settlers(cr, lv, q, s, st) ==
  /\ cr \in Nat /\ lv \subseteq Pairs /\ q \in Seq(Jobs) /\ s \in Seq(Frames)
  /\ st \in [Promises -> {"Pending", "Fulfilled", "Rejected"}]
  /\ SettleRights(cr, lv, q, s, st)

MayTake(cr, lv, q, s, st, p) ==
  p \in Promises /\ p <= cr /\ st[p] = "Pending" /\ Nobody(lv, q, s, p)

(* Dequeuing keeps the rights, and takes that of a thenable job. *)
LEMMA Dequeue ==
  ASSUME NEW cr, NEW lv, NEW q, NEW s, NEW st, Settlers(cr, lv, q, s, st), q # <<>>
  PROVE  /\ Settlers(cr, lv, Tail(q), s, st)
         /\ Head(q).kind = "Thenable" => MayTake(cr, lv, Tail(q), s, st, Head(q).cap)
<1>1. /\ Tail(q) \in Seq(Jobs)
      /\ Len(Tail(q)) = Len(q) - 1
      /\ Len(q) \in Nat /\ Len(q) >= 1
      /\ Head(q) = q[1] /\ q[1] \in Jobs
      /\ \A i \in 1 .. Len(Tail(q)) : Tail(q)[i] = q[i + 1]
  BY TailProperties DEF Settlers
<1>2. \A i \in 1 .. Len(Tail(q)) : i + 1 \in 1 .. Len(q) /\ Tail(q)[i] = q[i + 1]
  BY <1>1
<1>3. \A p : HasThenable(Tail(q), p) => HasThenable(q, p)
  BY <1>2 DEF HasThenable
<1>4. SettleRights(cr, lv, Tail(q), s, st)
  <2>1. \A i, j \in 1 .. Len(Tail(q)) :
          Tail(q)[i].kind = "Thenable" /\ Tail(q)[j].kind = "Thenable"
          /\ Tail(q)[i].cap = Tail(q)[j].cap => i = j
    <3> SUFFICES ASSUME NEW i \in 1 .. Len(Tail(q)), NEW j \in 1 .. Len(Tail(q)),
                        Tail(q)[i].kind = "Thenable", Tail(q)[j].kind = "Thenable",
                        Tail(q)[i].cap = Tail(q)[j].cap
                 PROVE  i = j
      OBVIOUS
    <3>1. i + 1 = j + 1
      BY <1>2 DEF Settlers, SettleRights
    <3>. QED
      BY <3>1, <1>1
  <2>2. \A i \in 1 .. Len(Tail(q)) : Tail(q)[i].kind = "Thenable" =>
          ~HasGetter(s, Tail(q)[i].cap) /\ Tail(q)[i].cap <= cr /\ st[Tail(q)[i].cap] = "Pending"
    BY <1>2 DEF Settlers, SettleRights
  <2>. QED
    BY <1>3, <2>1, <2>2 DEF Settlers, SettleRights
<1>5. ASSUME Head(q).kind = "Thenable"
      PROVE  MayTake(cr, lv, Tail(q), s, st, Head(q).cap)
  <2>1. 1 \in 1 .. Len(q) /\ q[1].kind = "Thenable"
    BY <1>1, <1>5
  <2>2. q[1].cap \in Promises
    BY <1>1, <2>1 DEF Jobs
  <2>3. q[1].cap <= cr /\ st[q[1].cap] = "Pending" /\ ~HasGetter(s, q[1].cap)
    BY <2>1 DEF Settlers, SettleRights
  <2>4. ~HasThenable(Tail(q), q[1].cap)
    <3> SUFFICES ASSUME NEW i \in 1 .. Len(Tail(q)),
                        Tail(q)[i].kind = "Thenable", Tail(q)[i].cap = q[1].cap
                 PROVE  FALSE
      BY DEF HasThenable
    <3>1. i + 1 = 1
      BY <1>2, <2>1 DEF Settlers, SettleRights
    <3>. QED
      BY <3>1, <1>1
  <2>5. \A a \in lv : a[1] # q[1].cap
    BY <2>1 DEF Settlers, SettleRights, HasThenable
  <2>. QED
    BY <1>1, <2>2, <2>3, <2>4, <2>5 DEF MayTake, Nobody
<1>. QED
  BY <1>1, <1>4, <1>5 DEF Settlers

(* Leaving a frame keeps the rights, and takes that of a getter. *)
LEMMA Pop ==
  ASSUME NEW cr, NEW lv, NEW q, NEW s, NEW st, Settlers(cr, lv, q, s, st), s # <<>>
  PROVE  /\ Settlers(cr, lv, q, Tail(s), st)
         /\ s[1].kind = "getthen" => MayTake(cr, lv, q, Tail(s), st, s[1].p)
<1>1. /\ Tail(s) \in Seq(Frames)
      /\ Len(Tail(s)) = Len(s) - 1
      /\ Len(s) \in Nat /\ Len(s) >= 1
      /\ s[1] \in Frames
      /\ \A i \in 1 .. Len(Tail(s)) : Tail(s)[i] = s[i + 1]
  BY TailProperties DEF Settlers
<1>2. \A i \in 1 .. Len(Tail(s)) : i + 1 \in 1 .. Len(s) /\ Tail(s)[i] = s[i + 1]
  BY <1>1
<1>3. \A p : HasGetter(Tail(s), p) => HasGetter(s, p)
  BY <1>2 DEF HasGetter
<1>4. SettleRights(cr, lv, q, Tail(s), st)
  <2>1. \A i, j \in 1 .. Len(Tail(s)) :
          Tail(s)[i].kind = "getthen" /\ Tail(s)[j].kind = "getthen"
          /\ Tail(s)[i].p = Tail(s)[j].p => i = j
    <3> SUFFICES ASSUME NEW i \in 1 .. Len(Tail(s)), NEW j \in 1 .. Len(Tail(s)),
                        Tail(s)[i].kind = "getthen", Tail(s)[j].kind = "getthen",
                        Tail(s)[i].p = Tail(s)[j].p
                 PROVE  i = j
      OBVIOUS
    <3>1. i + 1 = j + 1
      BY <1>2 DEF Settlers, SettleRights
    <3>. QED
      BY <3>1, <1>1
  <2>2. \A i \in 1 .. Len(Tail(s)) : Tail(s)[i].kind = "getthen" =>
          Tail(s)[i].p <= cr /\ st[Tail(s)[i].p] = "Pending"
    BY <1>2 DEF Settlers, SettleRights
  <2>. QED
    BY <1>3, <2>1, <2>2 DEF Settlers, SettleRights
<1>5. ASSUME s[1].kind = "getthen"
      PROVE  MayTake(cr, lv, q, Tail(s), st, s[1].p)
  <2>1. 1 \in 1 .. Len(s)
    BY <1>1
  <2>2. s[1].p \in Promises
    BY <1>1, <1>5 DEF Frames
  <2>3. s[1].p <= cr /\ st[s[1].p] = "Pending"
    BY <1>5, <2>1 DEF Settlers, SettleRights
  <2>4. ~HasGetter(Tail(s), s[1].p)
    <3> SUFFICES ASSUME NEW i \in 1 .. Len(Tail(s)),
                        Tail(s)[i].kind = "getthen", Tail(s)[i].p = s[1].p
                 PROVE  FALSE
      BY DEF HasGetter
    <3>1. i + 1 = 1
      BY <1>2, <1>5, <2>1 DEF Settlers, SettleRights
    <3>. QED
      BY <3>1, <1>1
  <2>5. HasGetter(s, s[1].p)
    BY <1>5, <2>1 DEF HasGetter
  <2>6. (\A a \in lv : a[1] # s[1].p) /\ ~HasThenable(q, s[1].p)
    BY <2>5 DEF Settlers, SettleRights, HasThenable
  <2>. QED
    BY <2>2, <2>3, <2>4, <2>6 DEF MayTake, Nobody
<1>. QED
  BY <1>1, <1>4, <1>5 DEF Settlers

(* Unwinding keeps the rights of the frames that stay. *)
LEMMA UnwindRights ==
  ASSUME NEW cr, NEW lv, NEW q, NEW s, NEW st, Settlers(cr, lv, q, s, st),
         NEW k \in 1 .. Len(s)
  PROVE  Settlers(cr, lv, q, SubSeq(s, k + 1, Len(s)), st)
<1> DEFINE t == SubSeq(s, k + 1, Len(s))
<1>1. t \in Seq(Frames) /\ Len(t) = Len(s) - k /\ Len(s) \in Nat
      /\ \A i \in 1 .. Len(t) : t[i] = s[k + i] /\ k + i \in 1 .. Len(s)
  <2>1. s \in Seq(Frames) /\ Len(s) \in Nat
    BY LenProperties DEF Settlers
  <2>2. /\ t \in Seq(Frames) /\ Len(t) = Len(s) - k
        /\ \A i \in 1 .. Len(s) - k : t[i] = s[k + i]
    BY <2>1, SuffixProperties
  <2> HIDE DEF t
  <2>3. \A i \in 1 .. Len(s) - k : k + i \in 1 .. Len(s)
    BY <2>1
  <2>. QED
    BY <2>1, <2>2, <2>3
<1> HIDE DEF t
<1>2. \A p : HasGetter(t, p) => HasGetter(s, p)
  BY <1>1 DEF HasGetter
<1>3. \A i, j \in 1 .. Len(t) :
        t[i].kind = "getthen" /\ t[j].kind = "getthen" /\ t[i].p = t[j].p => i = j
  <2> SUFFICES ASSUME NEW i \in 1 .. Len(t), NEW j \in 1 .. Len(t),
                      t[i].kind = "getthen", t[j].kind = "getthen", t[i].p = t[j].p
               PROVE  i = j
    OBVIOUS
  <2>1. \A a, b \in 1 .. Len(s) :
          s[a].kind = "getthen" /\ s[b].kind = "getthen" /\ s[a].p = s[b].p => a = b
    BY DEF Settlers, SettleRights
  <2>2. /\ k + i \in 1 .. Len(s) /\ t[i] = s[k + i]
        /\ k + j \in 1 .. Len(s) /\ t[j] = s[k + j]
    BY <1>1
  <2>3. k + i = k + j
    BY <2>1, <2>2
  <2>. QED
    BY <2>3, <1>1
<1>4. \A i \in 1 .. Len(t) : t[i].kind = "getthen" => t[i].p <= cr /\ st[t[i].p] = "Pending"
  <2>1. \A j \in 1 .. Len(s) : s[j].kind = "getthen" => s[j].p <= cr /\ st[s[j].p] = "Pending"
    BY DEF Settlers, SettleRights
  <2> SUFFICES ASSUME NEW i \in 1 .. Len(t), t[i].kind = "getthen"
               PROVE  t[i].p <= cr /\ st[t[i].p] = "Pending"
    OBVIOUS
  <2>2. t[i] = s[k + i] /\ k + i \in 1 .. Len(s)
    BY <1>1
  <2>. QED
    BY <2>1, <2>2
<1>5. Settlers(cr, lv, q, t, st)
  BY <1>1, <1>2, <1>3, <1>4 DEF Settlers, SettleRights
<1>. QED
  BY <1>5 DEF t

(* Entering a frame keeps the rights; a getter's frame gets one. *)
LEMMA Enter ==
  ASSUME NEW cr, NEW lv, NEW q, NEW s, NEW st, Settlers(cr, lv, q, s, st), NEW f \in Frames,
         f.kind = "getthen" => MayTake(cr, lv, q, s, st, f.p)
  PROVE  Settlers(cr, lv, q, Push(f, s), st)
<1> DEFINE t == Push(f, s)
<1>1. /\ t \in Seq(Frames)
      /\ Len(s) \in Nat /\ Len(t) = Len(s) + 1
      /\ \A i \in 1 .. Len(t) : t[i] = IF i = 1 THEN f ELSE s[i - 1]
  <2>1. s \in Seq(Frames) /\ Len(s) \in Nat
    BY LenProperties DEF Settlers
  <2>. QED
    BY <2>1, PushProperties
<1> HIDE DEF t
<1>2. \A i \in 1 .. Len(t) : \/ i = 1 /\ t[i] = f
                             \/ i # 1 /\ i - 1 \in 1 .. Len(s) /\ t[i] = s[i - 1]
  BY <1>1
<1>3. \A p : HasGetter(t, p) => HasGetter(s, p) \/ (f.kind = "getthen" /\ f.p = p)
  BY <1>2 DEF HasGetter
<1>4. \A i, j \in 1 .. Len(t) :
        t[i].kind = "getthen" /\ t[j].kind = "getthen" /\ t[i].p = t[j].p => i = j
  <2> SUFFICES ASSUME NEW i \in 1 .. Len(t), NEW j \in 1 .. Len(t),
                      t[i].kind = "getthen", t[j].kind = "getthen", t[i].p = t[j].p
               PROVE  i = j
    OBVIOUS
  <2>1. CASE i # 1 /\ j # 1
    <3>1. /\ i - 1 \in 1 .. Len(s) /\ t[i] = s[i - 1]
          /\ j - 1 \in 1 .. Len(s) /\ t[j] = s[j - 1]
      BY <1>2, <2>1
    <3>2. i - 1 = j - 1
      BY <3>1 DEF Settlers, SettleRights
    <3>. QED
      BY <3>2, <1>1
  <2>2. CASE i = 1 \/ j = 1
    BY <1>2, <2>2 DEF MayTake, Nobody, HasGetter
  <2>. QED
    BY <2>1, <2>2
<1>5. \A i \in 1 .. Len(t) : t[i].kind = "getthen" => t[i].p <= cr /\ st[t[i].p] = "Pending"
  BY <1>2 DEF Settlers, SettleRights, MayTake
<1>6. \A a \in lv : ~HasGetter(t, a[1])
  BY <1>3 DEF Settlers, SettleRights, MayTake, Nobody
<1>7. \A i \in 1 .. Len(q) : q[i].kind = "Thenable" => ~HasGetter(t, q[i].cap)
  BY <1>3 DEF Settlers, SettleRights, MayTake, Nobody, HasThenable
<1>8. Settlers(cr, lv, q, t, st)
  BY <1>1, <1>4, <1>5, <1>6, <1>7 DEF Settlers, SettleRights
<1>. QED
  BY <1>8 DEF t

(* Enqueuing a job keeps the rights; a thenable job gets one. *)
LEMMA Enqueue ==
  ASSUME NEW cr, NEW lv, NEW q, NEW s, NEW st, Settlers(cr, lv, q, s, st), NEW job \in Jobs,
         job.kind = "Thenable" => MayTake(cr, lv, q, s, st, job.cap)
  PROVE  Settlers(cr, lv, Append(q, job), s, st)
<1> DEFINE r == Append(q, job)
<1>1. /\ r \in Seq(Jobs)
      /\ Len(q) \in Nat /\ Len(r) = Len(q) + 1
      /\ \A i \in 1 .. Len(q) : r[i] = q[i]
      /\ r[Len(q) + 1] = job
  <2>1. q \in Seq(Jobs) /\ Len(q) \in Nat
    BY LenProperties DEF Settlers
  <2>. QED
    BY <2>1, AppendProperties
<1> HIDE DEF r
<1>2. \A i \in 1 .. Len(r) : \/ i = Len(q) + 1 /\ r[i] = job
                             \/ i \in 1 .. Len(q) /\ r[i] = q[i]
  BY <1>1
<1>3. \A p : HasThenable(r, p) => HasThenable(q, p) \/ (job.kind = "Thenable" /\ job.cap = p)
  BY <1>2 DEF HasThenable
<1>4. \A i, j \in 1 .. Len(r) :
        r[i].kind = "Thenable" /\ r[j].kind = "Thenable" /\ r[i].cap = r[j].cap => i = j
  <2> SUFFICES ASSUME NEW i \in 1 .. Len(r), NEW j \in 1 .. Len(r),
                      r[i].kind = "Thenable", r[j].kind = "Thenable", r[i].cap = r[j].cap
               PROVE  i = j
    OBVIOUS
  <2>1. CASE i \in 1 .. Len(q) /\ j \in 1 .. Len(q)
    BY <1>1, <2>1 DEF Settlers, SettleRights
  <2>2. CASE i = Len(q) + 1 \/ j = Len(q) + 1
    BY <1>2, <2>2 DEF MayTake, Nobody, HasThenable
  <2>. QED
    BY <1>2, <2>1, <2>2
<1>5. \A i \in 1 .. Len(r) : r[i].kind = "Thenable" =>
        ~HasGetter(s, r[i].cap) /\ r[i].cap <= cr /\ st[r[i].cap] = "Pending"
  BY <1>2 DEF Settlers, SettleRights, MayTake, Nobody
<1>6. \A a \in lv : ~HasThenable(r, a[1])
  BY <1>3 DEF Settlers, SettleRights, MayTake, Nobody
<1>7. Settlers(cr, lv, r, s, st)
  BY <1>1, <1>4, <1>5, <1>6 DEF Settlers, SettleRights
<1>. QED
  BY <1>7 DEF r

(* Enqueuing reaction jobs keeps the rights. *)
LEMMA EnqueueReactions ==
  ASSUME NEW cr, NEW lv, NEW q, NEW s, NEW st, Settlers(cr, lv, q, s, st),
         NEW jobs \in Seq(Jobs), \A i \in 1 .. Len(jobs) : jobs[i].kind # "Thenable"
  PROVE  Settlers(cr, lv, q \o jobs, s, st)
<1> DEFINE r == q \o jobs
<1>1. /\ r \in Seq(Jobs)
      /\ Len(q) \in Nat /\ Len(jobs) \in Nat /\ Len(r) = Len(q) + Len(jobs)
      /\ \A i \in 1 .. Len(r) : r[i] = IF i <= Len(q) THEN q[i] ELSE jobs[i - Len(q)]
  <2>1. q \in Seq(Jobs) /\ Len(q) \in Nat /\ Len(jobs) \in Nat
    BY LenProperties DEF Settlers
  <2>. QED
    BY <2>1, ConcatProperties
<1> HIDE DEF r
<1>2. \A i \in 1 .. Len(r) : r[i].kind = "Thenable" => i \in 1 .. Len(q) /\ r[i] = q[i]
  <2> SUFFICES ASSUME NEW i \in 1 .. Len(r), r[i].kind = "Thenable"
               PROVE  i \in 1 .. Len(q) /\ r[i] = q[i]
    OBVIOUS
  <2>1. CASE i <= Len(q)
    BY <1>1, <2>1
  <2>2. CASE ~(i <= Len(q))
    <3>1. i - Len(q) \in 1 .. Len(jobs) /\ r[i] = jobs[i - Len(q)]
      BY <1>1, <2>2
    <3>. QED
      BY <3>1
  <2>. QED
    BY <2>1, <2>2
<1>3. \A p : HasThenable(r, p) => HasThenable(q, p)
  BY <1>2 DEF HasThenable
<1>4. \A i, j \in 1 .. Len(r) :
        r[i].kind = "Thenable" /\ r[j].kind = "Thenable" /\ r[i].cap = r[j].cap => i = j
  <2> SUFFICES ASSUME NEW i \in 1 .. Len(r), NEW j \in 1 .. Len(r),
                      r[i].kind = "Thenable", r[j].kind = "Thenable", r[i].cap = r[j].cap
               PROVE  i = j
    OBVIOUS
  <2>1. /\ i \in 1 .. Len(q) /\ r[i] = q[i]
        /\ j \in 1 .. Len(q) /\ r[j] = q[j]
    BY <1>2
  <2>. QED
    BY <2>1 DEF Settlers, SettleRights
<1>5. \A i \in 1 .. Len(r) : r[i].kind = "Thenable" =>
        ~HasGetter(s, r[i].cap) /\ r[i].cap <= cr /\ st[r[i].cap] = "Pending"
  <2> SUFFICES ASSUME NEW i \in 1 .. Len(r), r[i].kind = "Thenable"
               PROVE  ~HasGetter(s, r[i].cap) /\ r[i].cap <= cr /\ st[r[i].cap] = "Pending"
    OBVIOUS
  <2>1. i \in 1 .. Len(q) /\ r[i] = q[i]
    BY <1>2
  <2>. QED
    BY <2>1 DEF Settlers, SettleRights
<1>6. \A a \in lv : ~HasThenable(r, a[1])
  BY <1>3 DEF Settlers, SettleRights
<1>7. Settlers(cr, lv, r, s, st)
  BY <1>1, <1>4, <1>5, <1>6 DEF Settlers, SettleRights
<1>. QED
  BY <1>7 DEF r

(* Settling a promise nobody else may settle keeps the rights. *)
LEMMA SettleRight ==
  ASSUME NEW cr, NEW lv, NEW q, NEW s, NEW st, Settlers(cr, lv, q, s, st),
         NEW p, MayTake(cr, lv, q, s, st, p), NEW outcome \in {"Fulfilled", "Rejected"}
  PROVE  Settlers(cr, lv, q, s, [st EXCEPT ![p] = outcome])
<1> DEFINE st2 == [st EXCEPT ![p] = outcome]
<1>1. /\ p \in Promises /\ p <= cr /\ st2 \in [Promises -> {"Pending", "Fulfilled", "Rejected"}]
      /\ \A x \in Promises : x # p => st2[x] = st[x]
  BY DEF MayTake, Settlers
<1> HIDE DEF st2
<1>2. \A a \in lv : a[1] # p /\ a[1] \in Promises
  BY DEF MayTake, Nobody, Settlers, Pairs
<1>3. \A i \in 1 .. Len(q) : q[i].kind = "Thenable" => q[i].cap # p /\ q[i].cap \in Promises
  <2>1. \A i \in 1 .. Len(q) : q[i] \in Jobs
    BY ElementOfSeq DEF Settlers
  <2>. QED
    BY <2>1 DEF MayTake, Nobody, HasThenable, Jobs
<1>4. \A i \in 1 .. Len(s) : s[i].kind = "getthen" => s[i].p # p /\ s[i].p \in Promises
  <2>1. \A i \in 1 .. Len(s) : s[i] \in Frames
    BY ElementOfSeq DEF Settlers
  <2>. QED
    BY <2>1 DEF MayTake, Nobody, HasGetter, Frames
<1>5. \A x \in Promises : x > cr => st2[x] = "Pending"
  <2>1. \A x \in Promises : x > cr => x # p
    BY <1>1 DEF Promises, Settlers
  <2>. QED
    BY <1>1, <2>1 DEF Settlers, SettleRights
<1>6. Settlers(cr, lv, q, s, st2)
  BY <1>1, <1>2, <1>3, <1>4, <1>5 DEF Settlers, SettleRights
<1>. QED
  BY <1>6 DEF st2

(* Using a pair takes its right; making a pair gives one. *)
LEMMA UsePair ==
  ASSUME NEW cr, NEW lv, NEW q, NEW s, NEW st, Settlers(cr, lv, q, s, st), NEW pair \in lv
  PROVE  /\ Settlers(cr, lv \ {pair}, q, s, st)
         /\ MayTake(cr, lv \ {pair}, q, s, st, pair[1])
BY DEF Settlers, SettleRights, MayTake, Nobody, Pairs

LEMMA MakePair ==
  ASSUME NEW cr, NEW lv, NEW q, NEW s, NEW st, Settlers(cr, lv, q, s, st),
         NEW p, MayTake(cr, lv, q, s, st, p), NEW n \in Nat
  PROVE  Settlers(cr, lv \cup {<<p, n>>}, q, s, st)
<1> DEFINE lv2 == lv \cup {<<p, n>>}
<1>1. \A a \in lv2 : a \in lv \/ (a = <<p, n>> /\ a[1] = p)
  OBVIOUS
<1>2. lv2 \subseteq Pairs
  BY DEF Settlers, MayTake, Pairs
<1> HIDE DEF lv2
<1>3. \A a, b \in lv2 : a[1] = b[1] => a = b
  BY <1>1 DEF Settlers, SettleRights, MayTake, Nobody
<1>4. \A a \in lv2 : /\ ~HasThenable(q, a[1]) /\ ~HasGetter(s, a[1])
                     /\ a[1] <= cr /\ st[a[1]] = "Pending"
  BY <1>1 DEF Settlers, SettleRights, MayTake, Nobody
<1>5. Settlers(cr, lv2, q, s, st)
  BY <1>2, <1>3, <1>4 DEF Settlers, SettleRights
<1>. QED
  BY <1>5 DEF lv2

(* The next promise is pending and nobody may settle it yet. *)
LEMMA MakePromise ==
  ASSUME NEW cr, NEW lv, NEW q, NEW s, NEW st, Settlers(cr, lv, q, s, st), cr + 1 \in Promises
  PROVE  Settlers(cr + 1, lv \cup {<<cr + 1, 1>>}, q, s, st)
<1>1. \A a \in lv : a[1] \in Nat /\ a[1] <= cr
  BY BoundsAssumption DEF Settlers, SettleRights, Pairs, Promises
<1>2. \A i \in 1 .. Len(q) : q[i].kind = "Thenable" => q[i].cap \in Nat /\ q[i].cap <= cr
  <2>1. \A i \in 1 .. Len(q) : q[i] \in Jobs
    BY ElementOfSeq DEF Settlers
  <2>2. \A job \in Jobs : job.kind = "Thenable" => job.cap \in Nat
    BY BoundsAssumption DEF Jobs, Promises
  <2>. QED
    BY <2>1, <2>2 DEF Settlers, SettleRights
<1>3. \A i \in 1 .. Len(s) : s[i].kind = "getthen" => s[i].p \in Nat /\ s[i].p <= cr
  <2>1. \A i \in 1 .. Len(s) : s[i] \in Frames
    BY ElementOfSeq DEF Settlers
  <2>2. \A f \in Frames : f.kind = "getthen" => f.p \in Nat
    BY BoundsAssumption DEF Frames, Promises
  <2>. QED
    BY <2>1, <2>2 DEF Settlers, SettleRights
<1>4. cr \in Nat /\ \A x \in Nat : x <= cr => x <= cr + 1 /\ x # cr + 1
  BY DEF Settlers
<1>5. Settlers(cr + 1, lv, q, s, st)
  <2>1. \A p \in Promises : p > cr + 1 => st[p] = "Pending"
    BY <1>4, BoundsAssumption DEF Settlers, SettleRights, Promises
  <2>2. \A a \in lv : a[1] <= cr + 1
    BY <1>1, <1>4
  <2>3. \A i \in 1 .. Len(q) : q[i].kind = "Thenable" => q[i].cap <= cr + 1
    BY <1>2, <1>4
  <2>4. \A i \in 1 .. Len(s) : s[i].kind = "getthen" => s[i].p <= cr + 1
    BY <1>3, <1>4
  <2>. QED
    BY <1>4, <2>1, <2>2, <2>3, <2>4 DEF Settlers, SettleRights
<1>6. st[cr + 1] = "Pending"
  BY <1>4 DEF Settlers, SettleRights
<1>7. Nobody(lv, q, s, cr + 1)
  BY <1>1, <1>2, <1>3, <1>4 DEF Nobody, HasThenable, HasGetter
<1>8. MayTake(cr + 1, lv, q, s, st, cr + 1)
  BY <1>4, <1>6, <1>7 DEF MayTake
<1>. QED
  BY <1>5, <1>8, MakePair

-----------------------------------------------------------------------------
(* The operators that settle, resolve and register, in terms of the lemmas.   *)

Inv == TypeOK /\ OneSettler /\ NoDoubleSettle

(* What a step has to establish. *)
KeepsRights ==
  /\ SettleRights(created', live', queue', stack', state')
  /\ faulted' = faulted

LEMMA SettleStep ==
  ASSUME NEW lv, NEW q, NEW s, Settlers(created, lv, q, s, state), TypeOK,
         NEW p, MayTake(created, lv, q, s, state, p),
         NEW outcome \in {"Fulfilled", "Rejected"}, NEW kind \in {"Fulfill", "Reject"},
         NEW reactions \in Seq(Reactions), NEW v \in Values,
         Settle(p, outcome, kind, reactions, v, q)
  PROVE  Settlers(created, lv, queue', s, state') /\ faulted' = faulted
<1> DEFINE jobs == TriggerPromiseReactions(kind, reactions, v)
<1>1. state[p] = "Pending" /\ p \in Promises
  BY DEF MayTake
<1>2. /\ state' = [state EXCEPT ![p] = outcome]
      /\ queue' = q \o jobs
      /\ faulted' = faulted
  BY <1>1 DEF Settle
<1>3. Settlers(created, lv, q, s, state')
  BY <1>2, SettleRight
<1>4. jobs \in Seq(Jobs) /\ \A i \in 1 .. Len(jobs) : jobs[i].kind # "Thenable"
  <2>1. Len(reactions) \in Nat
    BY LenProperties
  <2>2. \A i \in 1 .. Len(reactions) :
          ReactionJob(kind, reactions[i], v) \in Jobs
          /\ ReactionJob(kind, reactions[i], v).kind # "Thenable"
    BY ElementOfSeq, RecordTypes DEF ReactionJob
  <2>. QED
    BY <2>1, <2>2 DEF TriggerPromiseReactions
<1> HIDE DEF jobs
<1>5. Settlers(created, lv, q \o jobs, s, state')
  BY <1>3, <1>4, EnqueueReactions
<1>. QED
  BY <1>2, <1>5

LEMMA ResolveStep ==
  ASSUME NEW lv, NEW q, NEW s, Settlers(created, lv, q, s, state), TypeOK,
         NEW p, MayTake(created, lv, q, s, state, p), NEW x \in Values, Resolve(p, x, q, s)
  PROVE  Settlers(created, lv, queue', stack', state') /\ faulted' = faulted
<1>0. /\ SelfResolution \in Values /\ p \in Promises
      /\ fulfillReactions[p] \in Seq(Reactions)
      /\ rejectReactions[p] \in Seq(Reactions)
  BY DEF Values, TypeOK, MayTake
<1>1. CASE x = p /\ RejectPromise(p, SelfResolution, q) /\ stack' = s
  BY <1>0, <1>1, SettleStep DEF RejectPromise
<1>2. CASE x \in Plain \cup {SelfResolution} /\ FulfillPromise(p, x, q) /\ stack' = s
  BY <1>0, <1>2, SettleStep DEF FulfillPromise
<1>3. CASE x \in Promises \ {p} /\ EnqueueThenableJob(p, x, q) /\ stack' = s
  <2>1. ThenableJob(p, x) \in Jobs /\ ThenableJob(p, x).cap = p
    BY <1>0, <1>3, RecordTypes DEF ThenableJob
  <2>2. Settlers(created, lv, Append(q, ThenableJob(p, x)), s, state)
    BY <2>1, Enqueue
  <2>. QED
    BY <1>3, <2>2 DEF EnqueueThenableJob, promiseVars
<1>4. CASE /\ x \in Objects
           /\ stack' = Push(Frame("getthen", p, 0, x), s)
           /\ queue' = q
           /\ UNCHANGED <<promiseVars, faulted>>
  <2>1. Frame("getthen", p, 0, x) \in Frames /\ Frame("getthen", p, 0, x).p = p
    BY <1>0, <1>4, RecordTypes DEF Frame
  <2>2. Settlers(created, lv, q, Push(Frame("getthen", p, 0, x), s), state)
    BY <2>1, Enter
  <2>. QED
    BY <1>4, <2>2 DEF promiseVars
<1>. QED
  BY <1>1, <1>2, <1>3, <1>4 DEF Resolve

LEMMA CallResolveStep ==
  ASSUME NEW q, NEW s, Settlers(created, live, q, s, state), TypeOK,
         NEW pair, NEW x \in Values, CallResolve(pair, x, q, s), created' = created
  PROVE  KeepsRights
<1>1. CASE pair \notin live
  BY <1>1 DEF CallResolve, AlreadyResolved, promiseVars, Settlers, KeepsRights
<1>2. CASE pair \in live
  <2>1. /\ Settlers(created, live', q, s, state)
        /\ MayTake(created, live', q, s, state, pair[1])
        /\ Resolve(pair[1], x, q, s)
    BY <1>2, UsePair DEF CallResolve
  <2>2. Settlers(created, live', queue', stack', state') /\ faulted' = faulted
    BY <2>1, ResolveStep
  <2>. QED
    BY <2>2 DEF Settlers, KeepsRights
<1>. QED
  BY <1>1, <1>2

LEMMA CallRejectStep ==
  ASSUME NEW q, NEW s, Settlers(created, live, q, s, state), TypeOK,
         NEW pair, NEW v \in Values, CallReject(pair, v, q, s), created' = created
  PROVE  KeepsRights
<1>1. CASE pair \notin live
  BY <1>1 DEF CallReject, AlreadyResolved, promiseVars, Settlers, KeepsRights
<1>2. CASE pair \in live
  <2>1. /\ Settlers(created, live', q, s, state)
        /\ MayTake(created, live', q, s, state, pair[1])
        /\ RejectPromise(pair[1], v, q) /\ stack' = s
    BY <1>2, UsePair DEF CallReject
  <2>2. rejectReactions[pair[1]] \in Seq(Reactions)
    BY <2>1 DEF TypeOK, MayTake
  <2>3. Settlers(created, live', queue', s, state') /\ faulted' = faulted
    BY <2>1, <2>2, SettleStep DEF RejectPromise
  <2>. QED
    BY <2>1, <2>3 DEF Settlers, KeepsRights
<1>. QED
  BY <1>1, <1>2

LEMMA ThenStep ==
  ASSUME NEW cr, NEW lv, NEW q, NEW s, Settlers(cr, lv, q, s, state), TypeOK,
         NEW p \in Promises, NEW onF \in Handlers, NEW onR \in Handlers, NEW cap \in Caps,
         PerformPromiseThen(p, onF, onR, cap, q)
  PROVE  Settlers(cr, lv, queue', s, state') /\ faulted' = faulted
<1> DEFINE f == [cap |-> cap, handler |-> onF]
           r == [cap |-> cap, handler |-> onR]
<1>0. f \in Reactions /\ r \in Reactions
  BY RecordTypes
<1> HIDE DEF f, r
<1>1. state' = state /\ faulted' = faulted
  BY DEF PerformPromiseThen
<1>2. \/ queue' = q
      \/ state[p] # "Pending" /\ queue' = Append(q, ReactionJob("Fulfill", f, value[p]))
      \/ state[p] # "Pending" /\ queue' = Append(q, ReactionJob("Reject", r, value[p]))
  BY DEF PerformPromiseThen, f, r
<1>3. CASE queue' = q
  BY <1>1, <1>3
<1>4. ASSUME NEW k \in {"Fulfill", "Reject"}, NEW re \in Reactions, state[p] # "Pending",
             queue' = Append(q, ReactionJob(k, re, value[p]))
      PROVE  Settlers(cr, lv, queue', s, state')
  <2>1. /\ ReactionJob(k, re, value[p]) \in Jobs
        /\ ReactionJob(k, re, value[p]).kind # "Thenable"
    <3>1. value[p] \in Values
      BY <1>4 DEF TypeOK
    <3>. QED
      BY <3>1, RecordTypes DEF ReactionJob
  <2>. QED
    BY <1>1, <1>4, <2>1, Enqueue
<1>. QED
  BY <1>0, <1>1, <1>2, <1>3, <1>4

-----------------------------------------------------------------------------
(* The invariant, one step per action of Next. *)

(* The invariant gives the lemmas their premise. *)
LEMMA InvSettlers ==
  ASSUME Inv
  PROVE  Settlers(created, live, queue, stack, state)
BY BoundsAssumption DEF Inv, TypeOK, OneSettler, Settlers

(* A step that keeps the rights and the types keeps the invariant. *)
LEMMA KeepsInv ==
  ASSUME Inv, TypeOK', KeepsRights
  PROVE  Inv'
BY DEF Inv, KeepsRights, OneSettler, NoDoubleSettle

LEMMA InvInit == Init => Inv
<1> SUFFICES ASSUME Init PROVE Inv
  OBVIOUS
<1>1. SettleRights(created, live, queue, stack, state)
  BY DEF Init, SettleRights, HasThenable, HasGetter
<1>. QED
  BY <1>1, TypeOKInit DEF Inv, OneSettler, NoDoubleSettle, Init

(* A frame of a kind other than getthen can be entered any time. *)
LEMMA EnterStep ==
  ASSUME NEW s, Settlers(created, live, queue, s, state), NEW f \in Frames, f.kind # "getthen",
         stack' = Push(f, s), UNCHANGED <<created, live, queue, state, faulted>>
  PROVE  KeepsRights
BY Enter DEF KeepsRights, Settlers

(* Leaving a frame, with nothing else, keeps the rights. *)
LEMMA LeaveStep ==
  ASSUME Inv, stack # <<>>, stack' = Tail(stack),
         UNCHANGED <<created, live, queue, state, faulted>>
  PROVE  KeepsRights
BY InvSettlers, Pop DEF KeepsRights, Settlers

(* Frames user code and the host push. *)
LEMMA OrdinaryFrames ==
  /\ \A k \in {"script", "invoke", "drain"} : Entry(k) \in Frames /\ Entry(k).kind # "getthen"
  /\ \A k \in {"handler", "thencall", "async", "await", "import"}, p \in Caps, n \in Nat,
        x \in Values \cup {NoValue} :
          Frame(k, p, n, x) \in Frames /\ Frame(k, p, n, x).kind # "getthen"
BY RecordTypes DEF Entry, Frame

LEMMA NewPromiseStep ==
  ASSUME Inv, NewPromise
  PROVE  Settlers(created', live', queue, stack, state)
BY InvSettlers, NewPromiseTypes, MakePromise DEF NewPromise, Inv

LEMMA InvHostCall ==
  ASSUME Inv, HostCall
  PROVE  KeepsRights
<1>0. Settlers(created, live, queue, stack, state) /\ TypeOK
  BY InvSettlers DEF Inv
<1>1. CASE Execute
  BY <1>0, <1>1, EnterStep, OrdinaryFrames DEF Execute, promiseVars
<1>2. CASE Invoke
  BY <1>0, <1>2, EnterStep, OrdinaryFrames DEF Invoke, promiseVars
<1>3. CASE RegisterPromise
  BY <1>3, NewPromiseStep DEF RegisterPromise, promiseVars, KeepsRights, Settlers
<1>4. Settlers(created, live, queue, Push(Entry("drain"), stack), state)
  BY <1>0, Enter, OrdinaryFrames
<1>5. ASSUME NEW pair \in manual, NEW x \in UserValues, HostResolve(pair, x)
      PROVE  KeepsRights
  <2>1. /\ CallResolve(pair, x, queue, Push(Entry("drain"), stack))
        /\ x \in Values /\ created' = created
    BY <1>0, <1>5, InputTypes DEF HostResolve
  <2>. QED
    BY <1>0, <1>4, <2>1, CallResolveStep
<1>6. ASSUME NEW pair \in manual, NEW v \in Plain, HostReject(pair, v)
      PROVE  KeepsRights
  <2>1. /\ CallReject(pair, v, queue, Push(Entry("drain"), stack))
        /\ v \in Values /\ created' = created
    BY <1>0, <1>6, InputTypes DEF HostReject
  <2>. QED
    BY <1>0, <1>4, <2>1, CallRejectStep
<1>. QED
  BY <1>1, <1>2, <1>3, <1>5, <1>6 DEF HostCall

LEMMA InvUserCall ==
  ASSUME Inv, UserCall
  PROVE  KeepsRights
<1>0. Settlers(created, live, queue, stack, state) /\ TypeOK
  BY InvSettlers DEF Inv
<1>1. CASE Construct
  BY <1>1, NewPromiseStep DEF Construct, promiseVars, KeepsRights, Settlers
<1>2. CASE CallAsync
  <2>1. Settlers(created', live', queue, stack, state)
    BY <1>2, NewPromiseStep DEF CallAsync
  <2>2. /\ Frame("async", created + 1, 1, NoValue) \in Frames
        /\ Frame("async", created + 1, 1, NoValue).kind # "getthen"
    BY <1>0, <1>2, NewPromiseTypes, OrdinaryFrames DEF CallAsync
  <2>3. Settlers(created', live', queue, Push(Frame("async", created + 1, 1, NoValue), stack), state)
    BY <2>1, <2>2, Enter
  <2>. QED
    BY <1>2, <2>3 DEF CallAsync, promiseVars, KeepsRights, Settlers
<1>3. CASE Import
  BY <1>0, <1>3, EnterStep, OrdinaryFrames DEF Import, promiseVars, Caps
<1>4. ASSUME NEW q \in Handed, NEW onF \in BOOLEAN, NEW onR \in BOOLEAN, Then(q, onF, onR)
      PROVE  KeepsRights
  <2> DEFINE hF == Plainly(IF onF THEN "user" ELSE "none")
             hR == Plainly(IF onR THEN "user" ELSE "none")
  <2>1. hF \in Handlers /\ hR \in Handlers
    BY RecordTypes
  <2>2. created + 1 \in Caps /\ q \in Promises
    BY <1>0, <1>4, NewPromiseTypes, InputTypes DEF Then
  <2>3. PerformPromiseThen(q, hF, hR, created + 1, queue)
    BY <1>4 DEF Then
  <2>4. Settlers(created', live', queue, stack, state)
    BY <1>4, NewPromiseStep DEF Then
  <2> HIDE DEF hF, hR
  <2>5. Settlers(created', live', queue', stack, state') /\ faulted' = faulted
    BY <1>0, <2>1, <2>2, <2>3, <2>4, ThenStep
  <2>. QED
    BY <1>4, <2>5 DEF Then, KeepsRights, Settlers
<1>5. ASSUME NEW pair \in exposed, NEW x \in UserValues, UserResolve(pair, x)
      PROVE  KeepsRights
  <2>1. CallResolve(pair, x, queue, stack) /\ x \in Values /\ created' = created
    BY <1>0, <1>5, InputTypes DEF UserResolve
  <2>. QED
    BY <1>0, <2>1, CallResolveStep
<1>6. ASSUME NEW pair \in exposed, NEW v \in Plain, UserReject(pair, v)
      PROVE  KeepsRights
  <2>1. CallReject(pair, v, queue, stack) /\ v \in Values /\ created' = created
    BY <1>0, <1>6, InputTypes DEF UserReject
  <2>. QED
    BY <1>0, <2>1, CallRejectStep
<1>7. ASSUME NEW x \in UserValues, Await(x)
      PROVE  KeepsRights
  <2>1. x \in Values /\ NoPromise \in Caps
    BY <1>0, InputTypes DEF Caps
  <2>. QED
    BY <1>0, <1>7, <2>1, EnterStep, OrdinaryFrames DEF Await, promiseVars
<1>. QED
  BY <1>1, <1>2, <1>3, <1>4, <1>5, <1>6, <1>7 DEF UserCall

LEMMA InvUserDone ==
  ASSUME Inv, UserDone
  PROVE  KeepsRights
<1>0. Settlers(created, live, queue, stack, state) /\ TypeOK
  BY InvSettlers DEF Inv
<1>1. ASSUME UserOnTop
      PROVE  /\ stack # <<>> /\ Settlers(created, live, queue, Tail(stack), state)
             /\ Top.kind = "getthen" =>
                  MayTake(created, live, queue, Tail(stack), state, Top.p)
  BY <1>0, <1>1, Pop DEF UserOnTop, Top
<1>2. CASE ReturnToHost
  <2>1. UserOnTop
    BY <1>2 DEF ReturnToHost
  <2>2. CASE stack' = Push(Entry("drain"), Tail(stack))
    BY <1>1, <1>2, <2>1, <2>2, EnterStep, OrdinaryFrames DEF ReturnToHost, promiseVars
  <2>3. CASE stack' = Tail(stack)
    BY <1>1, <1>2, <2>1, <2>3, LeaveStep DEF ReturnToHost, promiseVars
  <2>. QED
    BY <1>2, <2>2, <2>3 DEF ReturnToHost
<1>3. CASE ThrowToHost
  BY <1>1, <1>3, LeaveStep DEF ThrowToHost, promiseVars
<1>4. CASE ReturnFromThen
  BY <1>1, <1>4, LeaveStep DEF ReturnFromThen, promiseVars
<1>5. CASE GotCallableThen
  <2>1. MayTake(created, live, queue, Tail(stack), state, Top.p)
        /\ Settlers(created, live, queue, Tail(stack), state)
    BY <1>1, <1>5 DEF GotCallableThen
  <2>2. ThenableJob(Top.p, Top.x) \in Jobs /\ ThenableJob(Top.p, Top.x).cap = Top.p
    BY <1>0, <1>5, TopTypes, RecordTypes DEF GotCallableThen, ThenableJob
  <2>3. Settlers(created, live, Append(queue, ThenableJob(Top.p, Top.x)), Tail(stack), state)
    BY <2>1, <2>2, Enqueue
  <2>. QED
    BY <1>5, <2>3 DEF GotCallableThen, EnqueueThenableJob, promiseVars, KeepsRights, Settlers
<1>6. CASE GotOtherThen
  <2>1. MayTake(created, live, queue, Tail(stack), state, Top.p)
        /\ Settlers(created, live, queue, Tail(stack), state)
    BY <1>1, <1>6 DEF GotOtherThen
  <2>2. Top.x \in Values /\ fulfillReactions[Top.p] \in Seq(Reactions)
    BY <1>0, <1>6, TopTypes DEF GotOtherThen, TypeOK, Values
  <2>3. Settlers(created, live, queue', Tail(stack), state') /\ faulted' = faulted
    BY <1>0, <1>6, <2>1, <2>2, SettleStep DEF GotOtherThen, FulfillPromise
  <2>. QED
    BY <1>6, <2>3 DEF GotOtherThen, KeepsRights, Settlers
<1>7. ASSUME NEW x \in UserValues, ReturnToCapability(x)
      PROVE  KeepsRights
  <2>1. x \in Values /\ CallResolve(<<Top.p, 1>>, x, queue, Tail(stack)) /\ created' = created
    BY <1>0, <1>7, InputTypes DEF ReturnToCapability
  <2>2. Settlers(created, live, queue, Tail(stack), state)
    BY <1>1, <1>7 DEF ReturnToCapability
  <2>. QED
    BY <1>0, <2>1, <2>2, CallResolveStep
<1>8. ASSUME NEW v \in Plain, ThrowToCapability(v)
      PROVE  KeepsRights
  <2>1. v \in Values /\ CallReject(<<Top.p, 1>>, v, queue, Tail(stack)) /\ created' = created
    BY <1>0, <1>8, InputTypes DEF ThrowToCapability
  <2>2. Settlers(created, live, queue, Tail(stack), state)
    BY <1>1, <1>8 DEF ThrowToCapability
  <2>. QED
    BY <1>0, <2>1, <2>2, CallRejectStep
<1>9. ASSUME NEW v \in Plain, ThrowFromThen(v)
      PROVE  KeepsRights
  <2>1. v \in Values /\ CallReject(<<Top.p, Top.n>>, v, queue, Tail(stack)) /\ created' = created
    BY <1>0, <1>9, InputTypes DEF ThrowFromThen
  <2>2. Settlers(created, live, queue, Tail(stack), state)
    BY <1>1, <1>9 DEF ThrowFromThen
  <2>. QED
    BY <1>0, <2>1, <2>2, CallRejectStep
<1>10. ASSUME NEW v \in Plain, ThrowFromGetThen(v)
       PROVE  KeepsRights
  <2>1. MayTake(created, live, queue, Tail(stack), state, Top.p)
        /\ Settlers(created, live, queue, Tail(stack), state)
    BY <1>1, <1>10 DEF ThrowFromGetThen
  <2>2. v \in Values /\ rejectReactions[Top.p] \in Seq(Reactions)
    BY <1>0, <1>10, TopTypes DEF ThrowFromGetThen, TypeOK, Values
  <2>3. Settlers(created, live, queue', Tail(stack), state') /\ faulted' = faulted
    BY <1>0, <1>10, <2>1, <2>2, SettleStep DEF ThrowFromGetThen, RejectPromise
  <2>. QED
    BY <1>10, <2>3 DEF ThrowFromGetThen, KeepsRights, Settlers
<1>. QED
  BY <1>2, <1>3, <1>4, <1>5, <1>6, <1>7, <1>8, <1>9, <1>10 DEF UserDone

(* Unwinding keeps the rights. *)
LEMMA InvUnwind ==
  ASSUME Inv, Unwind
  PROVE  KeepsRights
<1>1. PICK k \in 1 .. Len(stack) : stack' = SubSeq(stack, k + 1, Len(stack))
  BY DEF Unwind
<1>2. Settlers(created, live, queue, stack', state)
  BY <1>1, InvSettlers, UnwindRights
<1>3. UNCHANGED <<created, live, queue, state, faulted>>
  BY DEF Unwind, promiseVars
<1>. QED
  BY <1>2, <1>3 DEF KeepsRights, Settlers

LEMMA InvLoop ==
  ASSUME Inv, Loop
  PROVE  KeepsRights
<1>0. Settlers(created, live, queue, stack, state) /\ TypeOK
  BY InvSettlers DEF Inv
<1> DEFINE job == Head(queue)
           rest == Tail(queue)
           pair == <<job.cap, pairs[job.cap] + 1>>
<1>1. ASSUME NextJob
      PROVE  /\ Settlers(created, live, rest, stack, state)
             /\ job.kind = "Thenable" => MayTake(created, live, rest, stack, state, job.cap)
  BY <1>0, <1>1, Dequeue DEF NextJob
<1>2. CASE RunHandler
  <2>1. NextJob /\ queue' = rest /\ stack' = Push(Frame("handler", job.cap, 1, job.arg), stack)
    BY <1>2 DEF RunHandler
  <2>2. /\ Frame("handler", job.cap, 1, job.arg) \in Frames
        /\ Frame("handler", job.cap, 1, job.arg).kind # "getthen"
    BY <1>0, <2>1, HeadTypes, OrdinaryFrames
  <2>3. Settlers(created, live, queue', stack', state)
    BY <1>1, <2>1, <2>2, Enter
  <2>. QED
    BY <1>2, <2>3 DEF RunHandler, promiseVars, KeepsRights, Settlers
<1>3. CASE RunAdoption
  <2>1. NextJob /\ created' = created
        /\ (\/ CallResolve(job.handler.pair, job.arg, rest, stack)
            \/ CallReject(job.handler.pair, job.arg, rest, stack))
    BY <1>3 DEF RunAdoption
  <2>. QED
    BY <1>0, <1>1, <2>1, HeadTypes, CallResolveStep, CallRejectStep
<1>4. CASE RunPassThrough
  <2>1. NextJob /\ created' = created
        /\ (\/ CallResolve(<<job.cap, 1>>, job.arg, rest, stack)
            \/ CallReject(<<job.cap, 1>>, job.arg, rest, stack))
    BY <1>4 DEF RunPassThrough
  <2>. QED
    BY <1>0, <1>1, <2>1, HeadTypes, CallResolveStep, CallRejectStep
<1>5. ASSUME NextJob, job.kind = "Thenable"
      PROVE  Settlers(created, live \cup {pair}, rest, stack, state)
  <2>1. job.cap \in Promises
    BY <1>0, <1>5, HeadTypes
  <2>2. pairs \in [Promises -> Nat]
    BY <1>0 DEF TypeOK
  <2>3. pairs[job.cap] + 1 \in Nat
    <3> HIDE DEF job
    <3>. QED
      BY <2>1, <2>2
  <2>4. Settlers(created, live, rest, stack, state)
        /\ MayTake(created, live, rest, stack, state, job.cap)
    BY <1>1, <1>5
  <2> HIDE DEF job, rest
  <2>. QED
    BY <2>3, <2>4, MakePair
<1>6. CASE RunPromiseThenable
  <2> DEFINE hF == [kind |-> "resolve", pair |-> pair]
             hR == [kind |-> "reject", pair |-> pair]
  <2>1. NextJob /\ job.kind = "Thenable" /\ job.arg \in Promises
    BY <1>6 DEF RunPromiseThenable
  <2>2. Settlers(created, live', rest, stack, state)
    BY <1>5, <1>6, <2>1 DEF RunPromiseThenable
  <2>3. pair \in Pairs
    <3>1. pair \in live'
      BY <1>6 DEF RunPromiseThenable
    <3>. QED
      BY <2>2, <3>1 DEF Settlers
  <2>4. hF \in Handlers /\ hR \in Handlers /\ NoPromise \in Caps
    BY <2>3 DEF Handlers, Caps
  <2>5. PerformPromiseThen(job.arg, hF, hR, NoPromise, rest)
    BY <1>6 DEF RunPromiseThenable
  <2>6. Settlers(created, live', queue', stack, state') /\ faulted' = faulted
    <3> HIDE DEF hF, hR
    <3>. QED
      BY <1>0, <2>1, <2>2, <2>4, <2>5, ThenStep
  <2>. QED
    BY <1>6, <2>6 DEF RunPromiseThenable, KeepsRights, Settlers
<1>7. CASE RunUserThenable
  <2>1. NextJob /\ job.kind = "Thenable" /\ job.arg \in Objects
    BY <1>7 DEF RunUserThenable
  <2>2. /\ queue' = rest /\ live' = live \cup {pair}
        /\ stack' = Push(Frame("thencall", pair[1], pair[2], job.arg), stack)
        /\ UNCHANGED <<created, state, faulted>>
    BY <1>7 DEF RunUserThenable, promiseVars
  <2>3. Settlers(created, live', queue', stack, state)
    BY <1>5, <2>1, <2>2
  <2>4. pair \in Pairs
    <3>1. pair \in live'
      BY <2>2
    <3>. QED
      BY <2>3, <3>1 DEF Settlers
  <2>5. /\ Frame("thencall", pair[1], pair[2], job.arg) \in Frames
        /\ Frame("thencall", pair[1], pair[2], job.arg).kind # "getthen"
    BY <1>0, <2>1, <2>4, HeadTypes, OrdinaryFrames DEF Pairs, Caps
  <2>6. Settlers(created, live', queue', stack', state)
    BY <2>2, <2>3, <2>5, Enter
  <2>. QED
    BY <2>2, <2>6 DEF KeepsRights, Settlers
<1>8. CASE DrainDone
  BY <1>8, LeaveStep DEF DrainDone, LoopOnTop, promiseVars
<1>9. CASE AwaitResumes
  BY <1>9, LeaveStep DEF AwaitResumes, LoopOnTop, promiseVars
<1>10. CASE AwaitPending
  BY <1>10, InvUnwind DEF AwaitPending
<1>. QED
  BY <1>2, <1>3, <1>4, <1>6, <1>7, <1>8, <1>9, <1>10 DEF Loop

LEMMA InvStep == Inv /\ [Next]_vars => Inv'
<1> SUFFICES ASSUME Inv, [Next]_vars PROVE Inv'
  OBVIOUS
<1>1. TypeOK'
  BY TypeOKStep DEF Inv
<1>2. CASE Next
  <2>1. KeepsRights
    BY <1>2, InvHostCall, InvUserCall, InvUserDone, InvLoop, InvUnwind
       DEF Next, ConstraintFails
  <2>. QED
    BY <1>1, <2>1, KeepsInv
<1>3. CASE UNCHANGED vars
  <2>1. KeepsRights
    BY <1>3 DEF vars, KeepsRights, Inv, OneSettler
  <2>. QED
    BY <1>1, <2>1, KeepsInv
<1>. QED
  BY <1>2, <1>3

(* At most one resolving function, thenable job or getter can settle a      *)
(* promise, and only while it is pending.                                   *)
THEOREM OneSettlerHolds == Spec => []OneSettler
<1>1. Inv => OneSettler
  BY DEF Inv
<1>. QED
  BY <1>1, InvInit, InvStep, PTL DEF Spec

(* FulfillPromise and RejectPromise never throw "Promise should be in Pending *)
(* state": no promise is settled twice, whatever user code and the host do,   *)
(* also when they re-enter the engine or an exception unwinds it.             *)
THEOREM NeverSettledTwice == Spec => []NoDoubleSettle
<1>1. Inv => NoDoubleSettle
  BY DEF Inv
<1>. QED
  BY <1>1, InvInit, InvStep, PTL DEF Spec
-----------------------------------------------------------------------------
(* Rejections and owners.  What follows depends only on which jobs are in the *)
(* queue and which frames on the stack, not on their order, so both are taken *)
(* as sets; each elementary change of a sequence changes its set like this.   *)

Elems(s) == {s[i] : i \in 1 .. Len(s)}

LEMMA ElemsPush ==
  ASSUME NEW S, NEW f \in S, NEW s \in Seq(S)
  PROVE  Elems(Push(f, s)) = Elems(s) \cup {f}
<1> DEFINE t == Push(f, s)
<1>1. /\ Len(s) \in Nat /\ Len(t) = Len(s) + 1
      /\ \A i \in 1 .. Len(t) : t[i] = IF i = 1 THEN f ELSE s[i - 1]
  BY PushProperties, LenProperties
<1> HIDE DEF t
<1>2. t[1] = f /\ 1 \in 1 .. Len(t)
  BY <1>1
<1>3. \A i \in 1 .. Len(s) : i + 1 \in 1 .. Len(t) /\ t[i + 1] = s[i]
  BY <1>1
<1>4. \A i \in 1 .. Len(t) : i = 1 \/ (i - 1 \in 1 .. Len(s) /\ t[i] = s[i - 1])
  BY <1>1
<1>5. Elems(t) = Elems(s) \cup {f}
  BY <1>2, <1>3, <1>4 DEF Elems
<1>. QED
  BY <1>5 DEF t

LEMMA ElemsTail ==
  ASSUME NEW S, NEW s \in Seq(S), s # <<>>
  PROVE  Elems(s) = Elems(Tail(s)) \cup {s[1]} /\ Head(s) = s[1]
<1> DEFINE t == Tail(s)
<1>1. /\ Len(t) = Len(s) - 1 /\ Len(s) \in Nat /\ Len(s) >= 1 /\ Head(s) = s[1]
      /\ \A i \in 1 .. Len(t) : t[i] = s[i + 1]
  BY TailProperties
<1> HIDE DEF t
<1>2. 1 \in 1 .. Len(s)
  BY <1>1
<1>3. \A i \in 1 .. Len(t) : i + 1 \in 1 .. Len(s) /\ t[i] = s[i + 1]
  BY <1>1
<1>4. \A i \in 1 .. Len(s) : i = 1 \/ \E j \in 1 .. Len(t) : t[j] = s[i]
  <2>1. \A i \in 1 .. Len(s) : i = 1 \/ (i - 1 \in 1 .. Len(t) /\ t[i - 1] = s[i])
    BY <1>1
  <2>. QED
    BY <2>1
<1>5. Elems(s) \subseteq Elems(t) \cup {s[1]}
  BY <1>4 DEF Elems
<1>6. Elems(t) \cup {s[1]} \subseteq Elems(s)
  BY <1>2, <1>3 DEF Elems
<1>. QED
  BY <1>1, <1>5, <1>6 DEF t

LEMMA ElemsAppend ==
  ASSUME NEW S, NEW s \in Seq(S), NEW e \in S
  PROVE  Elems(Append(s, e)) = Elems(s) \cup {e}
<1> DEFINE t == Append(s, e)
<1>1. /\ Len(s) \in Nat /\ Len(t) = Len(s) + 1
      /\ \A i \in 1 .. Len(s) : t[i] = s[i]
      /\ t[Len(s) + 1] = e
  BY AppendProperties, LenProperties
<1> HIDE DEF t
<1>2. Len(s) + 1 \in 1 .. Len(t)
  BY <1>1
<1>3. \A i \in 1 .. Len(s) : i \in 1 .. Len(t) /\ t[i] = s[i]
  BY <1>1
<1>4. \A i \in 1 .. Len(t) : (i = Len(s) + 1 /\ t[i] = e) \/ (i \in 1 .. Len(s) /\ t[i] = s[i])
  BY <1>1
<1>5. Elems(t) = Elems(s) \cup {e}
  BY <1>1, <1>2, <1>3, <1>4 DEF Elems
<1>. QED
  BY <1>5 DEF t

\* The jobs that triggering these reactions makes.
Triggered(kind, reactions, v) ==
  {ReactionJob(kind, reactions[i], v) : i \in 1 .. Len(reactions)}

LEMMA ElemsTrigger ==
  ASSUME NEW q \in Seq(Jobs), NEW kind \in {"Fulfill", "Reject"},
         NEW reactions \in Seq(Reactions), NEW v \in Values
  PROVE  Elems(q \o TriggerPromiseReactions(kind, reactions, v))
           = Elems(q) \cup Triggered(kind, reactions, v)
<1> DEFINE jobs == TriggerPromiseReactions(kind, reactions, v)
           t == q \o jobs
<1>1. Len(reactions) \in Nat /\ Len(q) \in Nat
  BY LenProperties
<1>2. /\ jobs \in Seq(Jobs) /\ Len(jobs) = Len(reactions)
      /\ \A i \in 1 .. Len(reactions) : jobs[i] = ReactionJob(kind, reactions[i], v)
  <2>1. \A i \in 1 .. Len(reactions) : ReactionJob(kind, reactions[i], v) \in Jobs
    BY ElementOfSeq, RecordTypes
  <2>. QED
    BY <1>1, <2>1 DEF TriggerPromiseReactions
<1> HIDE DEF jobs
<1>3. /\ Len(t) = Len(q) + Len(jobs)
      /\ \A i \in 1 .. Len(t) : t[i] = IF i <= Len(q) THEN q[i] ELSE jobs[i - Len(q)]
  <2>1. Len(jobs) \in Nat
    BY <1>1, <1>2
  <2>2. q \in Seq(Jobs) /\ jobs \in Seq(Jobs)
    BY <1>2
  <2>. QED
    BY ONLY <1>1, <2>1, <2>2, ConcatProperties DEF t
<1> HIDE DEF t
<1>4. \A i \in 1 .. Len(q) : i \in 1 .. Len(t) /\ t[i] = q[i]
  BY <1>1, <1>3
<1>5. \A i \in 1 .. Len(reactions) :
        \E j \in 1 .. Len(t) : t[j] = ReactionJob(kind, reactions[i], v)
  <2>1. ASSUME NEW i \in 1 .. Len(reactions)
        PROVE  Len(q) + i \in 1 .. Len(t) /\ t[Len(q) + i] = jobs[i]
    <3>1. Len(q) + i \in 1 .. Len(t) /\ ~(Len(q) + i <= Len(q)) /\ (Len(q) + i) - Len(q) = i
      BY <1>1, <1>2, <1>3
    <3>2. t[Len(q) + i] = jobs[(Len(q) + i) - Len(q)]
      BY <1>3, <3>1
    <3>. QED
      BY <3>1, <3>2
  <2>. QED
    BY <1>2, <2>1
<1>6. \A i \in 1 .. Len(t) :
        \/ i \in 1 .. Len(q) /\ t[i] = q[i]
        \/ \E j \in 1 .. Len(reactions) : t[i] = ReactionJob(kind, reactions[j], v)
  <2>1. \A i \in 1 .. Len(t) :
          \/ i \in 1 .. Len(q) /\ t[i] = q[i]
          \/ i - Len(q) \in 1 .. Len(reactions) /\ t[i] = jobs[i - Len(q)]
    BY <1>1, <1>2, <1>3
  <2>. QED
    BY <1>2, <2>1
<1>7. Elems(t) \subseteq Elems(q) \cup Triggered(kind, reactions, v)
  BY <1>6 DEF Elems, Triggered
<1>8. Elems(q) \cup Triggered(kind, reactions, v) \subseteq Elems(t)
  BY <1>4, <1>5 DEF Elems, Triggered
<1>. QED
  BY <1>7, <1>8 DEF t, jobs

LEMMA ElemsSuffix ==
  ASSUME NEW S, NEW s \in Seq(S), NEW k \in 1 .. Len(s)
  PROVE  /\ Elems(SubSeq(s, k + 1, Len(s))) \subseteq Elems(s)
         /\ \A e \in Elems(s) : \/ e \in Elems(SubSeq(s, k + 1, Len(s)))
                                \/ \E i \in 1 .. k : e = s[i]
<1> DEFINE t == SubSeq(s, k + 1, Len(s))
<1>1. /\ Len(s) \in Nat /\ Len(t) = Len(s) - k
      /\ \A i \in 1 .. Len(s) - k : t[i] = s[k + i]
  BY SuffixProperties, LenProperties
<1> HIDE DEF t
<1>2. \A i \in 1 .. Len(t) : k + i \in 1 .. Len(s) /\ t[i] = s[k + i]
  BY <1>1
<1>3. \A i \in 1 .. Len(s) : i \in 1 .. k \/ \E j \in 1 .. Len(t) : t[j] = s[i]
  <2>1. \A i \in 1 .. Len(s) : i \in 1 .. k \/ (i - k \in 1 .. Len(t) /\ t[i - k] = s[i])
    BY <1>1
  <2>. QED
    BY <2>1
<1>4. Elems(t) \subseteq Elems(s)
  BY <1>2 DEF Elems
<1>5. \A e \in Elems(s) : e \in Elems(t) \/ \E i \in 1 .. k : e = s[i]
  BY <1>3 DEF Elems
<1>. QED
  BY <1>4, <1>5 DEF t

-----------------------------------------------------------------------------
(* The inductive invariant.                                                   *)

\* The promise was not derived by then(), or its source was fulfilled, or was
\* rejected and has a handler for that: it need not mirror anything.
Excused(p) ==
  LET q == origin[p].source
  IN q \in Promises => state[q] = "Fulfilled" \/ (state[q] = "Rejected" /\ origin[p].onR)

\* A reaction job adopts a promise, by a pair that a thenable job made, or ends
\* in a derived promise: it is excused, or the job passes the rejection on.
PassesOn(job) ==
  LET q == origin[job.cap].source
  IN /\ job.kind = "Reject" /\ job.handler.kind = "none"
     /\ q \in Promises /\ state[q] = "Rejected" /\ job.arg = value[q]
JobOK(job) ==
  \/ job.kind = "Thenable"
  \/ /\ job.cap = NoPromise
     /\ job.handler.kind \in {"resolve", "reject"} /\ job.handler.pair[2] >= 2
  \/ /\ job.cap \in 1 .. created
     /\ job.handler.kind \in {"none", "user"}
     /\ Excused(job.cap) \/ PassesOn(job)

\* Only handlers of excused promises and async functions run user code that will
\* use the first pair of a promise.
FrameOK(f) ==
  /\ f.kind \in {"handler", "async"} => f.p \in 1 .. created /\ f.n = 1 /\ Excused(f.p)
  /\ f.kind = "thencall" => f.n >= 2
PairOK(pair) == pair[1] \in 1 .. created /\ (pair[2] >= 2 \/ Excused(pair[1]))

\* The two reactions of one then() on q, in the two lists of q.
ReactionsOK(q, f, r) ==
  /\ f.cap = r.cap
  /\ \/ /\ f.cap = NoPromise
        /\ f.handler.kind = "resolve" /\ r.handler.kind = "reject"
        /\ f.handler.pair = r.handler.pair /\ f.handler.pair[2] >= 2
     \/ /\ f.cap \in 1 .. created /\ origin[f.cap].source = q
        /\ f.handler.kind \in {"none", "user"} /\ r.handler.kind \in {"none", "user"}
        /\ r.handler.kind = "user" => origin[f.cap].onR
Origins ==
  \A p \in Promises :
    /\ origin[p].source < p
    /\ p > created => origin[p].source = NoPromise
    /\ p <= created => pairs[p] >= 1
Lists ==
  \A q \in Promises :
    /\ Len(fulfillReactions[q]) = Len(rejectReactions[q])
    /\ \A i \in 1 .. Len(fulfillReactions[q]) :
         ReactionsOK(q, fulfillReactions[q][i], rejectReactions[q][i])
Shape ==
  /\ Origins /\ Lists
  /\ \A pair \in exposed \cup manual : PairOK(pair)
  /\ \A job \in Elems(queue) : JobOK(job)
  /\ \A f \in Elems(stack) : FrameOK(f)

\* A derived promise whose source was rejected and that has no handler for it has
\* not been touched, or mirrors its source.
Mirrors(d, q) == state[q] = "Rejected" /\ state[d] = "Rejected" /\ value[d] = value[q]
Mirror ==
  \A d \in Promises : Excused(d) \/ <<d, 1>> \in live \/ Mirrors(d, origin[d].source)

\* Who holds a pair, and who is about to resolve a promise.
Names(cap, handler, pair) == (cap = pair[1] /\ pair[2] = 1) \/ HandlerHolds(handler, pair)
JobHolds(job, pair) == job.kind # "Thenable" /\ Names(job.cap, job.handler, pair)
FrameHolds(f, pair) == f.kind \in {"handler", "async"} /\ <<f.p, f.n>> = pair
Held(pair) ==
  \/ pair \in exposed \cup manual
  \/ \E job \in Elems(queue) : JobHolds(job, pair)
  \/ \E q \in Promises : \E i \in 1 .. Len(fulfillReactions[q]) :
       /\ state[q] = "Pending"
       /\ Names(fulfillReactions[q][i].cap, fulfillReactions[q][i].handler, pair)
  \/ \E f \in Elems(stack) : FrameHolds(f, pair)
JobResolves(job, p) == job.kind = "Thenable" /\ job.cap = p
FrameResolves(f, p) == f.kind = "getthen" /\ f.p = p
Resolving(p) ==
  \/ \E job \in Elems(queue) : JobResolves(job, p)
  \/ \E f \in Elems(stack) : FrameResolves(f, p)
Cared(p) ==
  \/ state[p] # "Pending" \/ p \in lost \/ Resolving(p)
  \/ \E pair \in live : pair[1] = p /\ Held(pair)
Owned == \A p \in 1 .. created : Cared(p)

Facts == Inv /\ Shape /\ Mirror /\ Owned

(* What the invariant says of the properties. *)
LEMMA FactsPropagate == Facts => RejectionPropagates
<1> SUFFICES ASSUME Facts, NEW d \in Derived,
                    state[origin[d].source] = "Rejected", ~origin[d].onR, state[d] # "Pending"
             PROVE  state[d] = "Rejected" /\ value[d] = value[origin[d].source]
  BY DEF RejectionPropagates
<1>1. d \in Promises /\ origin[d].source \in Promises
  BY DEF Derived, Facts, Inv, TypeOK, Caps
<1>2. ~Excused(d)
  BY <1>1 DEF Excused
<1>3. <<d, 1>> \notin live
  <2>1. \A a \in live : state[a[1]] = "Pending"
    BY DEF Facts, Inv, OneSettler, SettleRights
  <2>. QED
    BY <2>1
<1>. QED
  BY <1>1, <1>2, <1>3 DEF Facts, Mirror, Mirrors

LEMMA FactsOwn == Facts => PendingHasOwner
<1> SUFFICES ASSUME Facts, NEW p \in 1 .. created
             PROVE  \/ state[p] # "Pending" \/ p \in lost \/ BeingResolved(p)
                    \/ \E pair \in live :
                         /\ pair[1] = p
                         /\ \/ pair \in exposed \cup manual
                            \/ HeldByJob(pair) \/ HeldByReaction(pair) \/ HeldByFrame(pair)
  BY DEF PendingHasOwner
<1>1. Cared(p)
  BY DEF Facts, Owned
<1>2. Resolving(p) => BeingResolved(p)
  BY DEF Resolving, BeingResolved, Elems, JobResolves, FrameResolves
<1>3. \A pair : Held(pair) => \/ pair \in exposed \cup manual
                              \/ HeldByJob(pair) \/ HeldByReaction(pair) \/ HeldByFrame(pair)
  <2> SUFFICES ASSUME NEW pair, Held(pair), pair \notin exposed \cup manual
               PROVE  HeldByJob(pair) \/ HeldByReaction(pair) \/ HeldByFrame(pair)
    OBVIOUS
  <2>1. (\E job \in Elems(queue) : JobHolds(job, pair)) => HeldByJob(pair)
    BY DEF HeldByJob, JobHolds, Names, Elems
  <2>2. (\E f \in Elems(stack) : FrameHolds(f, pair)) => HeldByFrame(pair)
    BY DEF HeldByFrame, FrameHolds, Elems
  <2>3. ASSUME NEW q \in Promises, NEW i \in 1 .. Len(fulfillReactions[q]), state[q] = "Pending",
               Names(fulfillReactions[q][i].cap, fulfillReactions[q][i].handler, pair)
        PROVE  HeldByReaction(pair)
    BY <2>3, Zenon DEF HeldByReaction, Names
  <2>. QED
    BY <2>1, <2>2, <2>3, Zenon DEF Held
<1>. QED
  BY <1>1, <1>2, <1>3, Zenon DEF Cared

LEMMA FactsInit == Init => Facts
<1> SUFFICES ASSUME Init PROVE Facts
  OBVIOUS
<1>1. Elems(queue) = {} /\ Elems(stack) = {}
  BY DEF Init, Elems
<1>2. created = 0 /\ \A p \in Promises : origin[p].source = NoPromise /\ p \in Nat /\ p > 0
  BY BoundsAssumption DEF Init, Promises
<1>3. Origins
  BY <1>2 DEF Origins, NoPromise
<1>4. Lists
  BY DEF Init, Lists
<1>5. Shape
  BY <1>1, <1>3, <1>4 DEF Shape, Init
<1>6. Mirror
  BY <1>2 DEF Mirror, Excused, NoPromise
<1>7. Owned
  BY <1>2 DEF Owned
<1>. QED
  BY <1>5, <1>6, <1>7, InvInit DEF Facts

-----------------------------------------------------------------------------
(* What is settled stays settled, and what is known of promises that exist    *)
(* stays known.                                                               *)

Grows ==
  /\ created <= created' /\ created \in Nat /\ created' \in Nat
  /\ \A p \in 1 .. created : p \in Promises /\ origin'[p] = origin[p]
  /\ \A p \in Promises : state[p] # "Pending" => state'[p] = state[p] /\ value'[p] = value[p]

LEMMA ExcusedStays ==
  ASSUME Grows
  PROVE  \A p : origin'[p] = origin[p] /\ Excused(p) => Excused(p)'
BY DEF Grows, Excused

LEMMA PassesOnStays ==
  ASSUME Grows
  PROVE  \A job : job.cap \in 1 .. created /\ PassesOn(job) => PassesOn(job)'
BY DEF Grows, PassesOn

LEMMA ExistStays ==
  ASSUME Grows
  PROVE  \A p : p \in 1 .. created => p \in 1 .. created' /\ origin'[p] = origin[p]
BY DEF Grows

LEMMA JobStays ==
  ASSUME Grows
  PROVE  \A job : JobOK(job) => JobOK(job)'
<1> SUFFICES ASSUME NEW job, JobOK(job) PROVE JobOK(job)'
  OBVIOUS
<1>1. CASE job.cap \in 1 .. created /\ job.handler.kind \in {"none", "user"}
           /\ (Excused(job.cap) \/ PassesOn(job))
  <2>1. Excused(job.cap)' \/ PassesOn(job)'
    BY <1>1, ExcusedStays, PassesOnStays, ExistStays
  <2>2. job.cap \in 1 .. created'
    BY <1>1, ExistStays
  <2>. QED
    BY <1>1, <2>1, <2>2, Zenon DEF JobOK
<1>. QED
  BY <1>1, Zenon DEF JobOK

LEMMA FrameStays ==
  ASSUME Grows
  PROVE  \A f : FrameOK(f) => FrameOK(f)'
<1> SUFFICES ASSUME NEW f, FrameOK(f) PROVE FrameOK(f)'
  OBVIOUS
<1>1. f.p \in 1 .. created /\ Excused(f.p) => f.p \in 1 .. created' /\ Excused(f.p)'
  BY ExcusedStays, ExistStays
<1>. QED
  BY <1>1, Zenon DEF FrameOK

LEMMA PairStays ==
  ASSUME Grows
  PROVE  \A pair : PairOK(pair) => PairOK(pair)'
<1> SUFFICES ASSUME NEW pair, PairOK(pair) PROVE PairOK(pair)'
  OBVIOUS
<1>1. /\ pair[1] \in 1 .. created'
      /\ Excused(pair[1]) => Excused(pair[1])'
  BY ExcusedStays, ExistStays DEF PairOK
<1>. QED
  BY <1>1, Zenon DEF PairOK

LEMMA ReactionsStay ==
  ASSUME Grows
  PROVE  \A q, f, r : ReactionsOK(q, f, r) => ReactionsOK(q, f, r)'
<1> SUFFICES ASSUME NEW q, NEW f, NEW r, ReactionsOK(q, f, r) PROVE ReactionsOK(q, f, r)'
  OBVIOUS
<1>1. f.cap \in 1 .. created => f.cap \in 1 .. created' /\ origin'[f.cap] = origin[f.cap]
  BY ExistStays
<1>. QED
  BY <1>1, Zenon DEF ReactionsOK

-----------------------------------------------------------------------------
(* Resolving.  q and s are what is left of the queue and the stack without    *)
(* the job or the frame that resolves p, and with what it leaves behind.      *)

Others(p) ==
  \A r \in Promises : r # p =>
    /\ state'[r] = state[r] /\ value'[r] = value[r]
    /\ fulfillReactions'[r] = fulfillReactions[r] /\ rejectReactions'[r] = rejectReactions[r]
SettledAs(p, q, s, outcome, kind, reactions) ==
  /\ Others(p)
  /\ state'[p] = outcome /\ fulfillReactions'[p] = <<>> /\ rejectReactions'[p] = <<>>
  /\ Elems(queue') = Elems(q) \cup Triggered(kind, reactions, value'[p])
  /\ Elems(stack') = Elems(s)
Adopts(p, q, s) ==
  /\ UNCHANGED promiseVars
  /\ \E job : /\ job.kind = "Thenable" /\ job.cap = p
              /\ Elems(queue') = Elems(q) \cup {job}
  /\ Elems(stack') = Elems(s)
Asks(p, q, s) ==
  /\ UNCHANGED promiseVars
  /\ \E f : /\ f.kind = "getthen" /\ f.p = p
            /\ Elems(stack') = Elems(s) \cup {f}
  /\ Elems(queue') = Elems(q)
Resolved(p, q, s) ==
  \/ SettledAs(p, q, s, "Fulfilled", "Fulfill", fulfillReactions[p])
  \/ SettledAs(p, q, s, "Rejected", "Reject", rejectReactions[p])
  \/ Adopts(p, q, s)
  \/ Asks(p, q, s)

LEMMA SettleSettles ==
  ASSUME TypeOK, NEW p \in Promises, state[p] = "Pending", NEW v \in Values,
         NEW outcome, NEW kind \in {"Fulfill", "Reject"}, NEW reactions \in Seq(Reactions),
         NEW q \in Seq(Jobs), NEW s, Settle(p, outcome, kind, reactions, v, q), stack' = s
  PROVE  SettledAs(p, q, s, outcome, kind, reactions) /\ value'[p] = v
<1>1. /\ state' = [state EXCEPT ![p] = outcome]
      /\ value' = [value EXCEPT ![p] = v]
      /\ fulfillReactions' = [fulfillReactions EXCEPT ![p] = <<>>]
      /\ rejectReactions' = [rejectReactions EXCEPT ![p] = <<>>]
      /\ queue' = q \o TriggerPromiseReactions(kind, reactions, v)
  BY DEF Settle
<1>2. /\ state'[p] = outcome /\ value'[p] = v
      /\ fulfillReactions'[p] = <<>> /\ rejectReactions'[p] = <<>>
      /\ Others(p)
  BY <1>1 DEF TypeOK, Others
<1>3. Elems(queue') = Elems(q) \cup Triggered(kind, reactions, v)
  BY <1>1, ElemsTrigger
<1>. QED
  BY <1>2, <1>3 DEF SettledAs

LEMMA RejectResolves ==
  ASSUME TypeOK, NEW p \in Promises, state[p] = "Pending", NEW v \in Values,
         NEW q \in Seq(Jobs), NEW s, RejectPromise(p, v, q), stack' = s
  PROVE  SettledAs(p, q, s, "Rejected", "Reject", rejectReactions[p]) /\ value'[p] = v
<1>1. rejectReactions[p] \in Seq(Reactions)
  BY DEF TypeOK
<1>. QED
  BY <1>1, SettleSettles DEF RejectPromise

LEMMA FulfillResolves ==
  ASSUME TypeOK, NEW p \in Promises, state[p] = "Pending", NEW v \in Values,
         NEW q \in Seq(Jobs), NEW s, FulfillPromise(p, v, q), stack' = s
  PROVE  SettledAs(p, q, s, "Fulfilled", "Fulfill", fulfillReactions[p])
<1>1. fulfillReactions[p] \in Seq(Reactions)
  BY DEF TypeOK
<1>. QED
  BY <1>1, SettleSettles DEF FulfillPromise

LEMMA EnqueueAdopts ==
  ASSUME NEW p \in Promises, NEW x \in Promises \cup Objects,
         NEW q \in Seq(Jobs), NEW s, EnqueueThenableJob(p, x, q), stack' = s
  PROVE  Adopts(p, q, s)
<1>1. /\ ThenableJob(p, x) \in Jobs
      /\ ThenableJob(p, x).kind = "Thenable" /\ ThenableJob(p, x).cap = p
  BY RecordTypes DEF ThenableJob
<1>2. Elems(queue') = Elems(q) \cup {ThenableJob(p, x)}
  BY <1>1, ElemsAppend DEF EnqueueThenableJob
<1>. QED
  BY <1>1, <1>2 DEF EnqueueThenableJob, Adopts

LEMMA ResolveResolves ==
  ASSUME TypeOK, NEW p \in Promises, state[p] = "Pending", NEW x \in Values,
         NEW q \in Seq(Jobs), NEW s \in Seq(Frames), Resolve(p, x, q, s)
  PROVE  Resolved(p, q, s)
<1>1. CASE x = p /\ RejectPromise(p, SelfResolution, q) /\ stack' = s
  BY <1>1, RejectResolves DEF Values, Resolved
<1>2. CASE x \in Plain \cup {SelfResolution} /\ FulfillPromise(p, x, q) /\ stack' = s
  BY <1>2, FulfillResolves DEF Resolved
<1>3. CASE x \in Promises \ {p} /\ EnqueueThenableJob(p, x, q) /\ stack' = s
  BY <1>3, EnqueueAdopts DEF Resolved
<1>4. CASE /\ x \in Objects
           /\ stack' = Push(Frame("getthen", p, 0, x), s)
           /\ queue' = q
           /\ UNCHANGED <<promiseVars, faulted>>
  <2> DEFINE f == Frame("getthen", p, 0, x)
  <2>1. f \in Frames /\ f.kind = "getthen" /\ f.p = p
    BY <1>4, RecordTypes DEF Frame
  <2> HIDE DEF f
  <2>2. Elems(stack') = Elems(s) \cup {f}
    BY <1>4, <2>1, ElemsPush DEF f
  <2>. QED
    BY <1>4, <2>1, <2>2, Zenon DEF Asks, Resolved
<1>. QED
  BY <1>1, <1>2, <1>3, <1>4 DEF Resolve

\* The step drops from the queue and the stack only what holds live pairs of p,
\* and is otherwise nobody's; it may enter frames that hold nothing.
Drops(p, q, s) ==
  /\ \A job \in Elems(q) : job \in Elems(queue)
  /\ \A f \in Elems(s) : f \in Elems(stack) \/ f.kind \notin {"handler", "async", "thencall"}
  /\ \A job \in Elems(queue) :
       \/ job \in Elems(q)
       \/ /\ job.kind # "Thenable"
          /\ \A pair \in live : JobHolds(job, pair) => pair[1] = p
  /\ \A f \in Elems(stack) :
       \/ f \in Elems(s)
       \/ /\ f.kind = "getthen" => f.p = p
          /\ \A pair \in live : FrameHolds(f, pair) => pair[1] = p
Uses(p) ==
  /\ live' \subseteq live
  /\ \A pair \in live : pair[1] # p => pair \in live'
  /\ UNCHANGED <<created, pairs, origin, exposed, manual, lost>>

\* A step that resolves p, which is excused or passes a rejection on.
Resolves(p, q, s) ==
  /\ p \in 1 .. created /\ p \in Promises /\ state[p] = "Pending"
  /\ Resolved(p, q, s) /\ Drops(p, q, s) /\ Uses(p)
  /\ Excused(p) \/ Mirrors(p, origin[p].source)'

LEMMA ResolvedGrows ==
  ASSUME TypeOK, NEW p, NEW q, NEW s, Resolves(p, q, s)
  PROVE  Grows
<1>1. created \in Nat /\ created' = created /\ \A r \in 1 .. created : r \in Promises /\ r \in Nat
  BY BoundsAssumption DEF TypeOK, Promises, Resolves, Uses
<1>2. \A r \in Promises : state[r] # "Pending" => state'[r] = state[r] /\ value'[r] = value[r]
  BY DEF Resolves, Resolved, SettledAs, Adopts, Asks, Others, promiseVars
<1>. QED
  BY <1>1, <1>2 DEF Grows, Resolves, Uses

LEMMA ListTypes ==
  ASSUME TypeOK, NEW p \in Promises
  PROVE  /\ Len(fulfillReactions[p]) \in Nat /\ Len(rejectReactions[p]) \in Nat
         /\ \A i \in 1 .. Len(fulfillReactions[p]) : fulfillReactions[p][i] \in Reactions
         /\ \A i \in 1 .. Len(rejectReactions[p]) : rejectReactions[p][i] \in Reactions
BY LenProperties, ElementOfSeq DEF TypeOK

\* The jobs that settling p makes are as they should be.
LEMMA TriggeredOK ==
  ASSUME Facts, Grows, NEW p \in Promises, NEW q, NEW s, UNCHANGED <<created, origin>>
  PROVE  /\ SettledAs(p, q, s, "Fulfilled", "Fulfill", fulfillReactions[p]) =>
              \A job \in Triggered("Fulfill", fulfillReactions[p], value'[p]) : JobOK(job)'
         /\ SettledAs(p, q, s, "Rejected", "Reject", rejectReactions[p]) =>
              \A job \in Triggered("Reject", rejectReactions[p], value'[p]) : JobOK(job)'
<1>0. /\ Len(fulfillReactions[p]) = Len(rejectReactions[p])
      /\ \A i \in 1 .. Len(fulfillReactions[p]) :
           ReactionsOK(p, fulfillReactions[p][i], rejectReactions[p][i])
  BY DEF Facts, Shape, Lists
<1>1. ASSUME SettledAs(p, q, s, "Fulfilled", "Fulfill", fulfillReactions[p]),
             NEW job \in Triggered("Fulfill", fulfillReactions[p], value'[p])
      PROVE  JobOK(job)'
  <2>1. PICK i \in 1 .. Len(fulfillReactions[p]) :
          job = ReactionJob("Fulfill", fulfillReactions[p][i], value'[p])
    BY DEF Triggered
  <2>2. /\ job.kind = "Fulfill" /\ job.cap = fulfillReactions[p][i].cap
        /\ job.handler = fulfillReactions[p][i].handler
    BY <2>1 DEF ReactionJob
  <2>3. ReactionsOK(p, fulfillReactions[p][i], rejectReactions[p][i])
    BY <1>0
  <2>4. CASE job.cap = NoPromise /\ job.handler.kind = "resolve" /\ job.handler.pair[2] >= 2
    BY <2>4 DEF JobOK
  <2>5. CASE /\ job.cap \in 1 .. created /\ origin[job.cap].source = p
             /\ job.handler.kind \in {"none", "user"}
    <3>1. Excused(job.cap)'
      BY <1>1, <2>5 DEF Excused, SettledAs
    <3>. QED
      BY <2>5, <3>1 DEF JobOK
  <2>. QED
    BY <2>2, <2>3, <2>4, <2>5 DEF ReactionsOK
<1>2. ASSUME SettledAs(p, q, s, "Rejected", "Reject", rejectReactions[p]),
             NEW job \in Triggered("Reject", rejectReactions[p], value'[p])
      PROVE  JobOK(job)'
  <2>1. PICK i \in 1 .. Len(rejectReactions[p]) :
          job = ReactionJob("Reject", rejectReactions[p][i], value'[p])
    BY DEF Triggered
  <2>2. /\ job.kind = "Reject" /\ job.cap = rejectReactions[p][i].cap
        /\ job.handler = rejectReactions[p][i].handler /\ job.arg = value'[p]
    BY <2>1 DEF ReactionJob
  <2>3. ReactionsOK(p, fulfillReactions[p][i], rejectReactions[p][i])
    BY <1>0
  <2>4. CASE job.cap = NoPromise /\ job.handler.kind = "reject" /\ job.handler.pair[2] >= 2
    BY <2>4 DEF JobOK
  <2>5. CASE /\ job.cap \in 1 .. created /\ origin[job.cap].source = p
             /\ job.handler.kind = "user" /\ origin[job.cap].onR
    <3>1. Excused(job.cap)'
      BY <1>2, <2>5 DEF Excused, SettledAs
    <3>. QED
      BY <2>5, <3>1 DEF JobOK
  <2>6. CASE /\ job.cap \in 1 .. created /\ origin[job.cap].source = p
             /\ job.handler.kind = "none"
    <3>1. PassesOn(job)'
      BY <1>2, <2>2, <2>6 DEF PassesOn, SettledAs
    <3>. QED
      BY <2>6, <3>1 DEF JobOK
  <2>. QED
    BY <2>2, <2>3, <2>4, <2>5, <2>6 DEF ReactionsOK
<1>. QED
  BY <1>1, <1>2

\* They hold what the reactions held.
LEMMA TriggeredHold ==
  ASSUME Facts, NEW p \in Promises, NEW i \in 1 .. Len(fulfillReactions[p]), NEW v, NEW pair,
         Names(fulfillReactions[p][i].cap, fulfillReactions[p][i].handler, pair)
  PROVE  /\ \E job \in Triggered("Fulfill", fulfillReactions[p], v) : JobHolds(job, pair)
         /\ \E job \in Triggered("Reject", rejectReactions[p], v) : JobHolds(job, pair)
<1>0. /\ i \in 1 .. Len(rejectReactions[p])
      /\ ReactionsOK(p, fulfillReactions[p][i], rejectReactions[p][i])
  BY DEF Facts, Shape, Lists
<1>1. Names(rejectReactions[p][i].cap, rejectReactions[p][i].handler, pair)
  BY <1>0 DEF ReactionsOK, Names, HandlerHolds
<1>2. ReactionJob("Fulfill", fulfillReactions[p][i], v)
        \in Triggered("Fulfill", fulfillReactions[p], v)
  BY DEF Triggered
<1>3. JobHolds(ReactionJob("Fulfill", fulfillReactions[p][i], v), pair)
  BY DEF JobHolds, ReactionJob
<1>4. ReactionJob("Reject", rejectReactions[p][i], v)
        \in Triggered("Reject", rejectReactions[p], v)
  BY <1>0 DEF Triggered
<1>5. JobHolds(ReactionJob("Reject", rejectReactions[p][i], v), pair)
  BY <1>1 DEF JobHolds, ReactionJob
<1>. QED
  BY <1>2, <1>3, <1>4, <1>5

LEMMA ResolvedShape ==
  ASSUME Facts, NEW p, NEW q, NEW s, Resolves(p, q, s)
  PROVE  Shape'
<1>0. Grows
  BY ResolvedGrows DEF Facts, Inv
<1>a. p \in Promises /\ UNCHANGED <<created, pairs, origin, exposed, manual>>
  BY DEF Resolves, Uses
<1>1. Origins'
  BY <1>a DEF Facts, Shape, Origins
<1>2. Lists'
  <2> SUFFICES ASSUME NEW r \in Promises
               PROVE  /\ Len(fulfillReactions'[r]) = Len(rejectReactions'[r])
                      /\ \A i \in 1 .. Len(fulfillReactions'[r]) :
                           ReactionsOK(r, fulfillReactions[r][i], rejectReactions[r][i])'
    BY DEF Lists
  <2>1. CASE fulfillReactions'[r] = <<>> /\ rejectReactions'[r] = <<>>
    BY <2>1
  <2>2. CASE fulfillReactions'[r] = fulfillReactions[r] /\ rejectReactions'[r] = rejectReactions[r]
    <3>1. /\ Len(fulfillReactions[r]) = Len(rejectReactions[r])
          /\ \A i \in 1 .. Len(fulfillReactions[r]) :
               ReactionsOK(r, fulfillReactions[r][i], rejectReactions[r][i])
      BY DEF Facts, Shape, Lists
    <3>. QED
      BY <1>0, <2>2, <3>1, ReactionsStay
  <2>. QED
    BY <2>1, <2>2 DEF Resolves, Resolved, SettledAs, Adopts, Asks, Others, promiseVars
<1>3. \A pair \in exposed' \cup manual' : PairOK(pair)'
  BY <1>0, <1>a, PairStays DEF Facts, Shape
<1>4. ASSUME NEW job \in Elems(queue')
      PROVE  JobOK(job)'
  <2>1. CASE job \in Elems(q)
    BY <1>0, <2>1, JobStays DEF Facts, Shape, Resolves, Drops
  <2>2. CASE job.kind = "Thenable"
    BY <2>2 DEF JobOK
  <2>3. \/ job \in Elems(q) \/ job.kind = "Thenable"
        \/ /\ SettledAs(p, q, s, "Fulfilled", "Fulfill", fulfillReactions[p])
           /\ job \in Triggered("Fulfill", fulfillReactions[p], value'[p])
        \/ /\ SettledAs(p, q, s, "Rejected", "Reject", rejectReactions[p])
           /\ job \in Triggered("Reject", rejectReactions[p], value'[p])
    BY DEF Resolves, Resolved, SettledAs, Adopts, Asks
  <2>. QED
    BY <1>0, <1>a, <2>1, <2>2, <2>3, TriggeredOK
<1>5. ASSUME NEW f \in Elems(stack')
      PROVE  FrameOK(f)'
  <2>1. CASE f \in Elems(stack)
    BY <1>0, <2>1, FrameStays DEF Facts, Shape
  <2>2. CASE f.kind \notin {"handler", "async", "thencall"}
    BY <2>2 DEF FrameOK
  <2>3. f \in Elems(s) \/ f.kind = "getthen"
    BY DEF Resolves, Resolved, SettledAs, Adopts, Asks
  <2>. QED
    BY <2>1, <2>2, <2>3 DEF Resolves, Drops
<1>. QED
  BY <1>1, <1>2, <1>3, <1>4, <1>5 DEF Shape

LEMMA ResolvedMirrors ==
  ASSUME Facts, NEW p, NEW q, NEW s, Resolves(p, q, s)
  PROVE  Mirror'
<1>0. Grows /\ UNCHANGED origin /\ p \in Promises
  BY ResolvedGrows DEF Facts, Inv, Resolves, Uses
<1> SUFFICES ASSUME NEW d \in Promises
             PROVE  Excused(d)' \/ <<d, 1>> \in live' \/ Mirrors(d, origin[d].source)'
  BY DEF Mirror
<1>1. CASE Excused(d)
  BY <1>0, <1>1, ExcusedStays
<1>2. CASE d = p
  BY <1>0, <1>1, <1>2 DEF Resolves
<1>3. CASE <<d, 1>> \in live /\ d # p
  BY <1>3 DEF Resolves, Uses
<1>4. CASE Mirrors(d, origin[d].source) /\ ~Excused(d)
  <2>1. origin[d].source \in Promises
    BY <1>4 DEF Excused
  <2>2. state[d] # "Pending" /\ state[origin[d].source] # "Pending"
    BY <1>4 DEF Mirrors
  <2>. QED
    BY <1>0, <1>4, <2>1, <2>2 DEF Grows, Mirrors
<1>. QED
  BY <1>1, <1>2, <1>3, <1>4 DEF Facts, Mirror

LEMMA ResolvedOwned ==
  ASSUME Facts, NEW p, NEW q, NEW s, Resolves(p, q, s)
  PROVE  Owned'
<1>0. /\ p \in Promises /\ state[p] = "Pending"
      /\ UNCHANGED <<created, exposed, manual, lost>> /\ Grows
  BY ResolvedGrows DEF Facts, Inv, Resolves, Uses
<1>a. /\ \A job \in Elems(q) : job \in Elems(queue')
      /\ \A f \in Elems(s) : f \in Elems(stack')
  BY DEF Resolves, Resolved, SettledAs, Adopts, Asks
<1> SUFFICES ASSUME NEW c \in 1 .. created
             PROVE  Cared(c)'
  BY <1>0 DEF Owned
<1>1. CASE c = p
  <2>1. state'[p] # "Pending" \/ Resolving(p)'
    <3>1. CASE Adopts(p, q, s)
      BY <3>1 DEF Adopts, Resolving, JobResolves
    <3>2. CASE Asks(p, q, s)
      BY <3>2 DEF Asks, Resolving, FrameResolves
    <3>. QED
      BY <3>1, <3>2 DEF Resolves, Resolved, SettledAs
  <2>. QED
    BY <1>1, <2>1 DEF Cared
<1>2. CASE c # p
  <2>1. CASE state[c] # "Pending"
    BY <1>0, <2>1 DEF Grows, Cared
  <2>2. CASE c \in lost
    BY <1>0, <2>2 DEF Cared
  <2>3. CASE Resolving(c)
    <3>1. Resolving(c)'
      BY <1>2, <1>a, <2>3 DEF Resolving, JobResolves, FrameResolves, Resolves, Drops
    <3>. QED
      BY <3>1 DEF Cared
  <2>4. ASSUME NEW pair \in live, pair[1] = c, Held(pair)
        PROVE  Cared(c)'
    <3>1. pair \in live'
      BY <1>2, <2>4 DEF Resolves, Uses
    <3>2. CASE pair \in exposed \cup manual
      BY <1>0, <2>4, <3>1, <3>2 DEF Cared, Held
    <3>3. CASE \E job \in Elems(queue) : JobHolds(job, pair)
      <4>1. \E job \in Elems(queue') : JobHolds(job, pair)
        BY <1>2, <1>a, <2>4, <3>3 DEF Resolves, Drops
      <4>. QED
        BY <2>4, <3>1, <4>1 DEF Cared, Held, JobHolds
    <3>4. CASE \E f \in Elems(stack) : FrameHolds(f, pair)
      <4>1. \E f \in Elems(stack') : FrameHolds(f, pair)
        BY <1>2, <1>a, <2>4, <3>4 DEF Resolves, Drops
      <4>. QED
        BY <2>4, <3>1, <4>1 DEF Cared, Held, FrameHolds
    <3>5. ASSUME NEW r \in Promises, NEW i \in 1 .. Len(fulfillReactions[r]), state[r] = "Pending",
                 Names(fulfillReactions[r][i].cap, fulfillReactions[r][i].handler, pair)
          PROVE  Held(pair)'
      <4>1. CASE state'[r] = "Pending" /\ fulfillReactions'[r] = fulfillReactions[r]
        BY <3>5, <4>1 DEF Held, Names, HandlerHolds
      <4>2. CASE r = p /\ (\/ SettledAs(p, q, s, "Fulfilled", "Fulfill", fulfillReactions[p])
                           \/ SettledAs(p, q, s, "Rejected", "Reject", rejectReactions[p]))
        <5>1. \E job \in Elems(queue') : JobHolds(job, pair)
          BY <3>5, <4>2, TriggeredHold DEF SettledAs
        <5>. QED
          BY <5>1 DEF Held, JobHolds
      <4>. QED
        BY <1>0, <3>5, <4>1, <4>2
        DEF Resolves, Resolved, SettledAs, Adopts, Asks, Others, promiseVars
    <3>6. Held(pair)' => Cared(c)'
      BY <2>4, <3>1 DEF Cared
    <3>. QED
      BY <2>4, <3>2, <3>3, <3>4, <3>5, <3>6 DEF Held
  <2>. QED
    BY <2>1, <2>2, <2>3, <2>4 DEF Facts, Owned, Cared
<1>. QED
  BY <1>1, <1>2

-----------------------------------------------------------------------------
(* The steps that settle nothing.                                             *)

\* Whoever may use a live pair resolves a promise that is excused.
LEMMA SettlerExcused ==
  ASSUME Facts, NEW pair \in live, pair[2] >= 2 \/ Excused(pair[1])
  PROVE  /\ pair[1] \in Promises /\ pair[1] \in 1 .. created
         /\ state[pair[1]] = "Pending" /\ Excused(pair[1])
<1>1. /\ pair[1] \in Promises /\ pair[1] <= created /\ state[pair[1]] = "Pending"
      /\ \A a, b \in live : a[1] = b[1] => a = b
  BY DEF Facts, Inv, TypeOK, Pairs, OneSettler, SettleRights
<1>2. pair[1] \in 1 .. created
  BY <1>1, BoundsAssumption DEF Facts, Inv, TypeOK, Promises
<1>3. CASE pair[2] >= 2
  <2>1. ASSUME <<pair[1], 1>> \in live PROVE FALSE
    <3>1. pair = <<pair[1], 1>>
      BY <1>1, <2>1
    <3>. QED
      BY <1>3, <3>1
  <2>2. ~Mirrors(pair[1], origin[pair[1]].source)
    BY <1>1 DEF Mirrors
  <2>. QED
    BY <1>1, <1>2, <2>1, <2>2 DEF Facts, Mirror
<1>. QED
  BY <1>1, <1>2, <1>3

LEMMA LiveTypes ==
  ASSUME Facts, NEW pair \in live
  PROVE  /\ pair[1] \in Promises /\ pair[1] \in 1 .. created /\ pair[2] \in Nat
         /\ pair = <<pair[1], pair[2]>> /\ state[pair[1]] = "Pending"
<1>1. /\ pair \in Promises \X Nat /\ pair[1] <= created /\ state[pair[1]] = "Pending"
  BY DEF Facts, Inv, TypeOK, Pairs, OneSettler, SettleRights
<1>. QED
  BY <1>1, BoundsAssumption DEF Facts, Inv, TypeOK, Promises

LEMMA SameGrows ==
  ASSUME TypeOK, UNCHANGED <<created, state, value, origin>>
  PROVE  Grows
BY BoundsAssumption DEF Grows, TypeOK, Promises

\* What every registered reaction finds after the step.
Keeps ==
  \A q \in Promises : \A i \in 1 .. Len(fulfillReactions[q]) :
    i \in 1 .. Len(fulfillReactions'[q]) /\ fulfillReactions'[q][i] = fulfillReactions[q][i]
Keeper(p) == \E b \in live : b[1] = p /\ Held(b)
Moves ==
  /\ Grows /\ UNCHANGED state /\ Keeps
  /\ exposed \subseteq exposed' /\ manual \subseteq manual'
  /\ live \subseteq live' /\ lost \subseteq lost'
  /\ \A p \in Promises : origin'[p] = origin[p] \/ <<p, 1>> \in live'
  /\ \A job \in Elems(queue) :
       \/ job \in Elems(queue')
       \/ /\ job.kind = "Thenable" => Keeper(job.cap)'
          /\ \A b \in live : JobHolds(job, b) => Held(b)'
  /\ \A f \in Elems(stack) :
       \/ f \in Elems(stack')
       \/ /\ f.kind = "getthen" => f.p \in lost'
          /\ \A b \in live : FrameHolds(f, b) => b[1] \in lost'
  /\ \A p \in 1 .. created' : p \in 1 .. created \/ Keeper(p)'

LEMMA MovesMirror ==
  ASSUME Facts, Moves
  PROVE  Mirror'
<1> SUFFICES ASSUME NEW d \in Promises
             PROVE  Excused(d)' \/ <<d, 1>> \in live' \/ Mirrors(d, origin[d].source)'
  BY DEF Mirror
<1>1. CASE <<d, 1>> \in live'
  BY <1>1
<1>2. CASE origin'[d] = origin[d]
  <2>1. Excused(d) => Excused(d)'
    BY <1>2, ExcusedStays DEF Moves
  <2>2. <<d, 1>> \in live => <<d, 1>> \in live'
    BY DEF Moves
  <2>3. ASSUME Mirrors(d, origin[d].source), ~Excused(d)
        PROVE  Mirrors(d, origin[d].source)'
    <3>1. origin[d].source \in Promises
      BY <2>3 DEF Excused
    <3>2. state[d] # "Pending" /\ state[origin[d].source] # "Pending"
      BY <2>3 DEF Mirrors
    <3>. QED
      BY <1>2, <2>3, <3>1, <3>2 DEF Moves, Grows, Mirrors
  <2>. QED
    BY <2>1, <2>2, <2>3 DEF Facts, Mirror
<1>. QED
  BY <1>1, <1>2 DEF Moves

LEMMA MovesHeld ==
  ASSUME Facts, Moves, NEW pair \in live, Held(pair)
  PROVE  Held(pair)' \/ pair[1] \in lost'
<1>1. CASE pair \in exposed \cup manual
  BY <1>1 DEF Moves, Held
<1>2. ASSUME NEW job \in Elems(queue), JobHolds(job, pair)
      PROVE  Held(pair)'
  <2>1. CASE job \in Elems(queue')
    BY <1>2, <2>1 DEF Held, JobHolds
  <2>. QED
    BY <1>2, <2>1 DEF Moves
<1>3. ASSUME NEW f \in Elems(stack), FrameHolds(f, pair)
      PROVE  Held(pair)' \/ pair[1] \in lost'
  <2>1. CASE f \in Elems(stack')
    BY <1>3, <2>1 DEF Held, FrameHolds
  <2>. QED
    BY <1>3, <2>1 DEF Moves
<1>4. ASSUME NEW q \in Promises, NEW i \in 1 .. Len(fulfillReactions[q]), state[q] = "Pending",
             Names(fulfillReactions[q][i].cap, fulfillReactions[q][i].handler, pair)
      PROVE  Held(pair)'
  <2>1. /\ i \in 1 .. Len(fulfillReactions'[q]) /\ fulfillReactions'[q][i] = fulfillReactions[q][i]
        /\ state'[q] = "Pending"
    BY <1>4 DEF Moves, Keeps
  <2>2. Names(fulfillReactions[q][i].cap, fulfillReactions[q][i].handler, pair)'
    BY <1>4, <2>1 DEF Names, HandlerHolds
  <2>. QED
    BY <2>1, <2>2 DEF Held
<1>. QED
  BY <1>1, <1>2, <1>3, <1>4 DEF Held

LEMMA MovesOwned ==
  ASSUME Facts, Moves
  PROVE  Owned'
<1> SUFFICES ASSUME NEW c \in 1 .. created'
             PROVE  Cared(c)'
  BY DEF Owned
<1>0. Keeper(c)' => Cared(c)'
  BY DEF Keeper, Cared
<1>1. CASE c \in 1 .. created
  <2>1. CASE state[c] # "Pending" \/ c \in lost
    BY <2>1 DEF Moves, Cared
  <2>2. ASSUME NEW job \in Elems(queue), JobResolves(job, c)
        PROVE  Cared(c)'
    <3>1. job \in Elems(queue') => Resolving(c)'
      BY <2>2 DEF Resolving, JobResolves
    <3>2. job \in Elems(queue') \/ Keeper(c)'
      BY <2>2 DEF Moves, JobResolves
    <3>. QED
      BY <1>0, <3>1, <3>2 DEF Cared
  <2>3. ASSUME NEW f \in Elems(stack), FrameResolves(f, c)
        PROVE  Cared(c)'
    <3>1. f \in Elems(stack') => Resolving(c)'
      BY <2>3 DEF Resolving, FrameResolves
    <3>2. f \in Elems(stack') \/ c \in lost'
      BY <2>3 DEF Moves, FrameResolves
    <3>. QED
      BY <3>1, <3>2 DEF Cared
  <2>4. ASSUME NEW pair \in live, pair[1] = c, Held(pair)
        PROVE  Cared(c)'
    <3>1. Held(pair)' \/ c \in lost'
      BY <2>4, MovesHeld
    <3>2. pair \in live'
      BY DEF Moves
    <3>. QED
      BY <2>4, <3>1, <3>2 DEF Cared
  <2>. QED
    BY <1>1, <2>1, <2>2, <2>3, <2>4 DEF Facts, Owned, Cared, Resolving
<1>. QED
  BY <1>0, <1>1 DEF Moves

LEMMA ListsStay ==
  ASSUME Facts, Grows, UNCHANGED promiseVars
  PROVE  Lists' /\ Keeps
<1>1. UNCHANGED <<fulfillReactions, rejectReactions>>
  BY DEF promiseVars
<1>2. Keeps
  BY <1>1 DEF Keeps
<1>3. Lists
  BY DEF Facts, Shape
<1>4. Lists'
  <2> SUFFICES ASSUME NEW q \in Promises
               PROVE  /\ Len(fulfillReactions'[q]) = Len(rejectReactions'[q])
                      /\ \A i \in 1 .. Len(fulfillReactions'[q]) :
                           ReactionsOK(q, fulfillReactions[q][i], rejectReactions[q][i])'
    BY DEF Lists
  <2>1. /\ Len(fulfillReactions[q]) = Len(rejectReactions[q])
        /\ \A i \in 1 .. Len(fulfillReactions[q]) :
             ReactionsOK(q, fulfillReactions[q][i], rejectReactions[q][i])
    BY <1>3 DEF Lists
  <2>. QED
    BY <1>1, <2>1, ReactionsStay
<1>. QED
  BY <1>2, <1>4

\* The parts of the shape that are not new.
LEMMA ShapeStays ==
  ASSUME Facts, Grows, Origins', Lists',
         \A pair \in exposed' \cup manual' : pair \in exposed \cup manual \/ PairOK(pair)',
         \A job \in Elems(queue') : job \in Elems(queue) \/ JobOK(job)',
         \A f \in Elems(stack') : f \in Elems(stack) \/ FrameOK(f)'
  PROVE  Shape'
<1>1. \A pair \in exposed' \cup manual' : PairOK(pair)'
  BY PairStays DEF Facts, Shape
<1>2. \A job \in Elems(queue') : JobOK(job)'
  BY JobStays DEF Facts, Shape
<1>3. \A f \in Elems(stack') : FrameOK(f)'
  BY FrameStays DEF Facts, Shape
<1>. QED
  BY <1>1, <1>2, <1>3 DEF Shape

\* A step that only moves through the queue and the stack.
Quiet ==
  /\ UNCHANGED <<promiseVars, created, pairs, origin, exposed, manual, live>>
  /\ lost \subseteq lost'
  /\ \A job \in Elems(queue') : job \in Elems(queue)
  /\ \A f \in Elems(stack') : f \in Elems(stack) \/ FrameOK(f)
  /\ \A job \in Elems(queue) :
       \/ job \in Elems(queue')
       \/ job.kind # "Thenable" /\ \A b \in live : JobHolds(job, b) => Held(b)'
  /\ \A f \in Elems(stack) :
       \/ f \in Elems(stack')
       \/ /\ f.kind = "getthen" => f.p \in lost'
          /\ \A b \in live : FrameHolds(f, b) => b[1] \in lost'

LEMMA QuietFacts ==
  ASSUME Facts, Inv', Quiet
  PROVE  Facts'
<1>0. UNCHANGED <<state, value, created, pairs, origin, exposed, manual, live>>
  BY DEF Quiet, promiseVars
<1>1. Grows
  BY <1>0, SameGrows DEF Facts, Inv
<1>2. Lists' /\ Keeps
  BY <1>1, ListsStay DEF Quiet
<1>3. Origins'
  BY <1>0 DEF Facts, Shape, Origins
<1>4. Shape'
  <2>1. \A f \in Elems(stack') : f \in Elems(stack) \/ FrameOK(f)'
    BY <1>1, FrameStays DEF Quiet
  <2>. QED
    BY <1>0, <1>1, <1>2, <1>3, <2>1, ShapeStays DEF Quiet
<1>5. Moves
  BY <1>0, <1>1, <1>2 DEF Moves, Quiet
<1>. QED
  BY <1>4, <1>5, MovesMirror, MovesOwned DEF Facts

-----------------------------------------------------------------------------
(* Calls of resolving functions, whoever makes them.                          *)

\* The step leaves behind of the queue and the stack all but what holds the pair.
Leaves(pair, q, s) ==
  /\ \A job \in Elems(q) : job \in Elems(queue)
  /\ \A f \in Elems(s) : f \in Elems(stack) \/ f.kind \notin {"handler", "async", "thencall"}
  /\ \A job \in Elems(queue) :
       \/ job \in Elems(q)
       \/ job.kind # "Thenable" /\ \A b \in live : JobHolds(job, b) => b = pair
  /\ \A f \in Elems(stack) :
       \/ f \in Elems(s)
       \/ f.kind # "getthen" /\ \A b \in live : FrameHolds(f, b) => b = pair

LEMMA ResolvesFacts ==
  ASSUME Facts, Inv', NEW p, NEW q, NEW s, Resolves(p, q, s)
  PROVE  Facts'
BY ResolvedShape, ResolvedMirrors, ResolvedOwned DEF Facts

LEMMA LiveLeaves ==
  ASSUME Facts, NEW pair \in live, NEW q, NEW s, Leaves(pair, q, s), live' = live \ {pair},
         UNCHANGED <<created, pairs, exposed, manual, history>>
  PROVE  Drops(pair[1], q, s) /\ Uses(pair[1])
<1>1. Drops(pair[1], q, s)
  BY DEF Leaves, Drops
<1>2. Uses(pair[1])
  BY DEF Uses, history
<1>. QED
  BY <1>1, <1>2

LEMMA DeadCall ==
  ASSUME Facts, Inv', NEW pair, pair \notin live, NEW q, NEW s, Leaves(pair, q, s),
         AlreadyResolved(q, s), UNCHANGED <<created, pairs, exposed, manual, history>>
  PROVE  Facts'
<1>1. /\ UNCHANGED <<promiseVars, created, pairs, origin, exposed, manual, live>>
      /\ queue' = q /\ stack' = s /\ lost \subseteq lost'
  BY DEF AlreadyResolved, history
<1>2. \A f : f.kind \notin {"handler", "async", "thencall"} => FrameOK(f)
  BY DEF FrameOK
<1>3. Quiet
  BY <1>1, <1>2 DEF Quiet, Leaves
<1>. QED
  BY <1>3, QuietFacts

LEMMA CallResolveFacts ==
  ASSUME Facts, Inv', NEW pair, NEW x \in Values, NEW q \in Seq(Jobs), NEW s \in Seq(Frames),
         CallResolve(pair, x, q, s), Leaves(pair, q, s), pair[2] >= 2 \/ Excused(pair[1]),
         UNCHANGED <<created, pairs, exposed, manual, history>>
  PROVE  Facts'
<1>1. CASE pair \notin live
  BY <1>1, DeadCall DEF CallResolve
<1>2. CASE pair \in live
  <2>1. /\ pair[1] \in Promises /\ pair[1] \in 1 .. created
        /\ state[pair[1]] = "Pending" /\ Excused(pair[1])
    BY <1>2, SettlerExcused
  <2>2. live' = live \ {pair} /\ Resolve(pair[1], x, q, s)
    BY <1>2 DEF CallResolve
  <2>3. Resolved(pair[1], q, s)
    BY <2>1, <2>2, ResolveResolves DEF Facts, Inv
  <2>4. Drops(pair[1], q, s) /\ Uses(pair[1])
    BY <1>2, <2>2, LiveLeaves
  <2>5. Resolves(pair[1], q, s)
    BY <2>1, <2>3, <2>4 DEF Resolves
  <2>. QED
    BY <2>5, ResolvesFacts
<1>. QED
  BY <1>1, <1>2

LEMMA CallRejectFacts ==
  ASSUME Facts, Inv', NEW pair, NEW v \in Values, NEW q \in Seq(Jobs), NEW s \in Seq(Frames),
         CallReject(pair, v, q, s), Leaves(pair, q, s),
         \/ pair[2] >= 2 \/ Excused(pair[1])
         \/ /\ origin[pair[1]].source \in Promises /\ state[origin[pair[1]].source] = "Rejected"
            /\ v = value[origin[pair[1]].source],
         UNCHANGED <<created, pairs, exposed, manual, history>>
  PROVE  Facts'
<1>1. CASE pair \notin live
  BY <1>1, DeadCall DEF CallReject
<1>2. CASE pair \in live
  <2> DEFINE p == pair[1]
             src == origin[p].source
  <2>1. p \in Promises /\ p \in 1 .. created /\ state[p] = "Pending"
    BY <1>2, LiveTypes
  <2>2. live' = live \ {pair} /\ RejectPromise(p, v, q) /\ stack' = s
    BY <1>2 DEF CallReject
  <2>3. SettledAs(p, q, s, "Rejected", "Reject", rejectReactions[p]) /\ value'[p] = v
    BY <2>1, <2>2, RejectResolves DEF Facts, Inv
  <2>4. Drops(p, q, s) /\ Uses(p)
    BY <1>2, <2>2, LiveLeaves
  <2>5. Excused(p) \/ Mirrors(p, src)'
    <3>1. CASE pair[2] >= 2 \/ Excused(pair[1])
      BY <1>2, <3>1, SettlerExcused
    <3>2. CASE src \in Promises /\ state[src] = "Rejected" /\ v = value[src]
      <4>1. src # p /\ origin'[p] = origin[p]
        BY <2>1, <3>2, <2>4 DEF Uses
      <4>2. state'[src] = "Rejected" /\ value'[src] = v
        BY <2>3, <3>2, <4>1 DEF SettledAs, Others
      <4>3. state'[p] = "Rejected" /\ value'[p] = v
        BY <2>3 DEF SettledAs
      <4>. QED
        BY <4>1, <4>2, <4>3 DEF Mirrors
    <3>. QED
      BY <3>1, <3>2
  <2>6. Resolves(p, q, s)
    BY <2>1, <2>3, <2>4, <2>5 DEF Resolves, Resolved
  <2>. QED
    BY <2>6, ResolvesFacts
<1>. QED
  BY <1>1, <1>2

\* A "then" getter that is done: nobody else could have settled its promise.
LEMMA GetterFacts ==
  ASSUME Facts, Inv', UserOnTop, Top.kind = "getthen", Resolved(Top.p, queue, Tail(stack)),
         UNCHANGED <<created, pairs, live, exposed, manual, history>>
  PROVE  Facts'
<1> DEFINE p == Top.p
<1>1. /\ stack \in Seq(Frames) /\ stack # <<>>
      /\ Top \in Frames /\ Top.p \in Promises
  BY TopTypes DEF Facts, Inv, TypeOK, UserOnTop
<1>2. 1 \in 1 .. Len(stack)
  BY <1>1, LenProperties
<1>3. p <= created /\ state[p] = "Pending"
  BY <1>2 DEF Facts, Inv, OneSettler, SettleRights, Top
<1>4. p \in 1 .. created
  BY <1>1, <1>3, BoundsAssumption DEF Facts, Inv, TypeOK, Promises
<1>5. <<p, 1>> \notin live
  BY <1>2 DEF Facts, Inv, OneSettler, SettleRights, HasGetter, Top
<1>6. Excused(p)
  BY <1>1, <1>3, <1>5 DEF Facts, Mirror, Mirrors
<1>7. Elems(stack) = Elems(Tail(stack)) \cup {Top}
  BY <1>1, ElemsTail DEF Top
<1>8. Drops(p, queue, Tail(stack))
  BY <1>7 DEF Drops, FrameHolds
<1>9. Uses(p)
  BY DEF Uses, history
<1>10. Resolves(p, queue, Tail(stack))
  BY <1>1, <1>3, <1>4, <1>6, <1>8, <1>9 DEF Resolves
<1>. QED
  BY <1>10, ResolvesFacts

LEMMA TopFacts ==
  ASSUME Facts, UserOnTop
  PROVE  /\ stack \in Seq(Frames) /\ Tail(stack) \in Seq(Frames)
         /\ Elems(stack) = Elems(Tail(stack)) \cup {Top}
         /\ FrameOK(Top)
<1>1. stack \in Seq(Frames) /\ stack # <<>> /\ Tail(stack) \in Seq(Frames)
  BY TopTypes DEF Facts, Inv, TypeOK, UserOnTop
<1>2. Elems(stack) = Elems(Tail(stack)) \cup {Top}
  BY <1>1, ElemsTail DEF Top
<1>. QED
  BY <1>1, <1>2 DEF Facts, Shape

\* The frame on top returns: what it held is the first pair, or its own.
LEMMA TopLeaves ==
  ASSUME Facts, UserOnTop, Top.kind # "getthen", NEW pair,
         Top.kind \in {"handler", "async"} => pair = <<Top.p, 1>>
  PROVE  Leaves(pair, queue, Tail(stack))
<1>1. \A b : FrameHolds(Top, b) => b = pair
  BY TopFacts DEF FrameHolds, FrameOK
<1>. QED
  BY <1>1, TopFacts DEF Leaves

LEMMA JobFacts ==
  ASSUME Facts, NextJob
  PROVE  /\ Head(queue) \in Jobs /\ Tail(queue) \in Seq(Jobs)
         /\ Elems(queue) = Elems(Tail(queue)) \cup {Head(queue)}
         /\ JobOK(Head(queue))
<1>1. /\ queue \in Seq(Jobs) /\ queue # <<>>
      /\ Head(queue) \in Jobs /\ Tail(queue) \in Seq(Jobs)
  BY HeadTypes DEF Facts, Inv, TypeOK, NextJob
<1>2. Elems(queue) = Elems(Tail(queue)) \cup {Head(queue)}
  BY <1>1, ElemsTail
<1>. QED
  BY <1>1, <1>2 DEF Facts, Shape

LEMMA JobLeaves ==
  ASSUME Facts, NextJob, NEW pair, Head(queue).kind # "Thenable",
         \A b \in live : JobHolds(Head(queue), b) => b = pair
  PROVE  Leaves(pair, Tail(queue), stack)
BY JobFacts DEF Leaves

LEMMA ReturnFacts ==
  ASSUME Facts, Inv', UserDone
  PROVE  Facts'
<1>0. UserValues \subseteq Values /\ Plain \subseteq Values /\ queue \in Seq(Jobs)
  BY InputTypes DEF Facts, Inv, TypeOK
<1>1. CASE ReturnToHost \/ ThrowToHost \/ ReturnFromThen
  <2>1. /\ UserOnTop /\ Top.kind \in {"script", "invoke", "thencall"}
        /\ stack' = Tail(stack) \/ stack' = Push(Entry("drain"), Tail(stack))
        /\ UNCHANGED <<promiseVars, created, pairs, origin, exposed, manual, live, queue, lost>>
    BY <1>1 DEF ReturnToHost, ThrowToHost, ReturnFromThen, history
  <2>2. Elems(Push(Entry("drain"), Tail(stack))) = Elems(Tail(stack)) \cup {Entry("drain")}
    BY <2>1, TopFacts, ElemsPush, RecordTypes
  <2>3. FrameOK(Entry("drain"))
    BY DEF FrameOK, Entry, Frame
  <2>4. /\ Elems(stack) = Elems(Tail(stack)) \cup {Top}
        /\ Top.kind # "getthen" /\ \A b : ~FrameHolds(Top, b)
    BY <2>1, TopFacts DEF FrameHolds
  <2>5. Elems(stack') = Elems(Tail(stack)) \/ Elems(stack') = Elems(Tail(stack)) \cup {Entry("drain")}
    BY <2>1, <2>2
  <2>6. Quiet
    BY <2>1, <2>3, <2>4, <2>5 DEF Quiet
  <2>. QED
    BY <2>6, QuietFacts
<1>2. ASSUME NEW x \in UserValues, ReturnToCapability(x)
      PROVE  Facts'
  <2>1. /\ UserOnTop /\ Top.kind \in {"handler", "async"} /\ x \in Values
        /\ CallResolve(<<Top.p, 1>>, x, queue, Tail(stack))
        /\ UNCHANGED <<created, pairs, exposed, manual, history>>
    BY <1>0, <1>2 DEF ReturnToCapability
  <2>2. Excused(Top.p) /\ Tail(stack) \in Seq(Frames)
    BY <2>1, TopFacts DEF FrameOK
  <2>3. Leaves(<<Top.p, 1>>, queue, Tail(stack))
    BY <2>1, TopLeaves
  <2>. QED
    BY <1>0, <2>1, <2>2, <2>3, CallResolveFacts
<1>3. ASSUME NEW v \in Plain, ThrowToCapability(v)
      PROVE  Facts'
  <2>1. /\ UserOnTop /\ Top.kind \in {"handler", "async"} /\ v \in Values
        /\ CallReject(<<Top.p, 1>>, v, queue, Tail(stack))
        /\ UNCHANGED <<created, pairs, exposed, manual, history>>
    BY <1>0, <1>3 DEF ThrowToCapability
  <2>2. Excused(Top.p) /\ Tail(stack) \in Seq(Frames)
    BY <2>1, TopFacts DEF FrameOK
  <2>3. Leaves(<<Top.p, 1>>, queue, Tail(stack))
    BY <2>1, TopLeaves
  <2>. QED
    BY <1>0, <2>1, <2>2, <2>3, CallRejectFacts
<1>4. ASSUME NEW v \in Plain, ThrowFromThen(v)
      PROVE  Facts'
  <2>1. /\ UserOnTop /\ Top.kind = "thencall" /\ v \in Values
        /\ CallReject(<<Top.p, Top.n>>, v, queue, Tail(stack))
        /\ UNCHANGED <<created, pairs, exposed, manual, history>>
    BY <1>0, <1>4 DEF ThrowFromThen
  <2>2. Top.n >= 2 /\ Tail(stack) \in Seq(Frames)
    BY <2>1, TopFacts DEF FrameOK
  <2>3. Leaves(<<Top.p, Top.n>>, queue, Tail(stack))
    BY <2>1, TopLeaves
  <2>. QED
    BY <1>0, <2>1, <2>2, <2>3, CallRejectFacts
<1>5. ASSUME UserOnTop, Top.kind = "getthen"
      PROVE  /\ Top.p \in Promises /\ Top.x \in Objects /\ state[Top.p] = "Pending"
             /\ Top.x \in Values
  <2>1. Top.p \in Promises /\ Top.x \in Objects /\ stack \in Seq(Frames) /\ stack # <<>>
    BY <1>5, TopTypes DEF Facts, Inv, TypeOK, UserOnTop
  <2>2. 1 \in 1 .. Len(stack)
    BY <2>1, LenProperties
  <2>3. state[Top.p] = "Pending"
    BY <1>5, <2>2 DEF Facts, Inv, OneSettler, SettleRights, Top
  <2>. QED
    BY <2>1, <2>3 DEF Values
<1>6. CASE GotCallableThen
  <2>1. /\ UserOnTop /\ Top.kind = "getthen" /\ stack' = Tail(stack)
        /\ EnqueueThenableJob(Top.p, Top.x, queue)
        /\ UNCHANGED <<created, pairs, live, exposed, manual, history>>
    BY <1>6 DEF GotCallableThen
  <2>2. Resolved(Top.p, queue, Tail(stack))
    BY <1>0, <1>5, <2>1, EnqueueAdopts DEF Resolved
  <2>. QED
    BY <2>1, <2>2, GetterFacts
<1>7. CASE GotOtherThen
  <2>1. /\ UserOnTop /\ Top.kind = "getthen" /\ stack' = Tail(stack)
        /\ FulfillPromise(Top.p, Top.x, queue)
        /\ UNCHANGED <<created, pairs, live, exposed, manual, history>>
    BY <1>7 DEF GotOtherThen
  <2>2. Resolved(Top.p, queue, Tail(stack))
    BY <1>0, <1>5, <2>1, FulfillResolves DEF Resolved, Facts, Inv
  <2>. QED
    BY <2>1, <2>2, GetterFacts
<1>8. ASSUME NEW v \in Plain, ThrowFromGetThen(v)
      PROVE  Facts'
  <2>1. /\ UserOnTop /\ Top.kind = "getthen" /\ stack' = Tail(stack)
        /\ RejectPromise(Top.p, v, queue) /\ v \in Values
        /\ UNCHANGED <<created, pairs, live, exposed, manual, history>>
    BY <1>0, <1>8 DEF ThrowFromGetThen
  <2>2. Resolved(Top.p, queue, Tail(stack))
    BY <1>0, <1>5, <2>1, RejectResolves DEF Resolved, Facts, Inv
  <2>. QED
    BY <2>1, <2>2, GetterFacts
<1>. QED
  BY <1>1, <1>2, <1>3, <1>4, <1>6, <1>7, <1>8 DEF UserDone

-----------------------------------------------------------------------------
(* Frames that enter and leave, and what the loop does with a job.            *)

LEMMA EnterFacts ==
  ASSUME Facts, Inv', NEW f \in Frames, FrameOK(f), stack' = Push(f, stack),
         UNCHANGED <<promiseVars, created, pairs, origin, exposed, manual, live, queue, lost>>
  PROVE  Facts'
<1>1. Elems(stack') = Elems(stack) \cup {f}
  BY ElemsPush DEF Facts, Inv, TypeOK
<1>2. Quiet
  BY <1>1 DEF Quiet
<1>. QED
  BY <1>2, QuietFacts

LEMMA LeaveFacts ==
  ASSUME Facts, Inv', stack # <<>>, Top.kind \notin {"getthen", "handler", "async"},
         stack' = Tail(stack),
         UNCHANGED <<promiseVars, created, pairs, origin, exposed, manual, live, queue, lost>>
  PROVE  Facts'
<1>1. Elems(stack) = Elems(Tail(stack)) \cup {Top}
  BY ElemsTail DEF Facts, Inv, TypeOK, Top
<1>2. \A b : ~FrameHolds(Top, b)
  BY DEF FrameHolds
<1>3. Quiet
  BY <1>1, <1>2 DEF Quiet
<1>. QED
  BY <1>3, QuietFacts

LEMMA UnwindFacts ==
  ASSUME Facts, Inv', Unwind
  PROVE  Facts'
<1>1. PICK k \in 1 .. Len(stack) :
        /\ stack' = SubSeq(stack, k + 1, Len(stack))
        /\ lost' = lost \cup {stack[i].p : i \in {j \in 1 .. k : stack[j].kind \in LossyKinds}}
        /\ UNCHANGED <<created, promiseVars, pairs, live, exposed, manual, queue, origin>>
  BY DEF Unwind
<1>2. /\ Elems(stack') \subseteq Elems(stack)
      /\ \A f \in Elems(stack) : f \in Elems(stack') \/ \E i \in 1 .. k : f = stack[i]
  <2>1. stack \in Seq(Frames)
    BY DEF Facts, Inv, TypeOK
  <2>. QED
    BY <1>1, <2>1, ElemsSuffix
<1>3. \A i \in 1 .. k : stack[i].kind \in {"getthen", "handler", "async"} => stack[i].p \in lost'
  BY <1>1 DEF LossyKinds
<1>4. \A f \in Elems(stack) :
        \/ f \in Elems(stack')
        \/ /\ f.kind = "getthen" => f.p \in lost'
           /\ \A b \in live : FrameHolds(f, b) => b[1] \in lost'
  BY <1>2, <1>3 DEF FrameHolds
<1>5. Quiet
  BY <1>1, <1>2, <1>4 DEF Quiet
<1>. QED
  BY <1>5, QuietFacts

LEMMA RunHandlerFacts ==
  ASSUME Facts, Inv', RunHandler
  PROVE  Facts'
<1> DEFINE job == Head(queue)
           f == Frame("handler", job.cap, 1, job.arg)
<1>1. /\ NextJob /\ job.kind # "Thenable" /\ job.handler.kind = "user"
      /\ queue' = Tail(queue) /\ stack' = Push(f, stack)
      /\ UNCHANGED <<promiseVars, created, pairs, origin, exposed, manual, live, lost>>
  BY DEF RunHandler, history
<1>2. Elems(queue) = Elems(Tail(queue)) \cup {job} /\ job.cap \in 1 .. created /\ Excused(job.cap)
  BY <1>1, JobFacts DEF JobOK, PassesOn
<1>3. f \in Frames /\ f.kind = "handler" /\ f.p = job.cap /\ f.n = 1
  BY <1>1, HeadTypes, RecordTypes DEF Facts, Inv, Frame
<1> HIDE DEF f
<1>4. Elems(stack') = Elems(stack) \cup {f}
  BY <1>1, <1>3, ElemsPush DEF Facts, Inv, TypeOK
<1>5. FrameOK(f)
  BY <1>2, <1>3 DEF FrameOK
<1>6. ASSUME NEW b \in live, JobHolds(job, b)
      PROVE  Held(b)'
  <2>1. b = <<f.p, f.n>>
    BY <1>1, <1>3, <1>6, LiveTypes DEF JobHolds, Names, HandlerHolds
  <2>. QED
    BY <1>3, <1>4, <2>1 DEF Held, FrameHolds
<1>7. Quiet
  BY <1>1, <1>2, <1>4, <1>5, <1>6 DEF Quiet
<1>. QED
  BY <1>7, QuietFacts

LEMMA RunAdoptionFacts ==
  ASSUME Facts, Inv', RunAdoption
  PROVE  Facts'
<1> DEFINE job == Head(queue)
           pair == job.handler.pair
<1>1. /\ NextJob /\ job.kind # "Thenable" /\ job.handler.kind \in {"resolve", "reject"}
      /\ \/ CallResolve(pair, job.arg, Tail(queue), stack)
         \/ CallReject(pair, job.arg, Tail(queue), stack)
      /\ UNCHANGED <<created, pairs, exposed, manual, history>>
  BY DEF RunAdoption
<1>2. job.cap = NoPromise /\ pair[2] >= 2
  BY <1>1, JobFacts DEF JobOK
<1>3. \A b \in live : b[1] # NoPromise
  BY LiveTypes DEF Promises, NoPromise
<1>4. \A b \in live : JobHolds(job, b) => b = pair
  BY <1>2, <1>3 DEF JobHolds, Names, HandlerHolds
<1>5. Leaves(pair, Tail(queue), stack)
  BY <1>1, <1>4, JobLeaves
<1>6. job.arg \in Values /\ Tail(queue) \in Seq(Jobs) /\ stack \in Seq(Frames)
  BY <1>1, HeadTypes DEF Facts, Inv, TypeOK
<1>. QED
  BY <1>1, <1>2, <1>5, <1>6, CallResolveFacts, CallRejectFacts

LEMMA RunPassThroughFacts ==
  ASSUME Facts, Inv', RunPassThrough
  PROVE  Facts'
<1> DEFINE job == Head(queue)
           pair == <<job.cap, 1>>
           src == origin[job.cap].source
<1>1. /\ NextJob /\ job.kind \in {"Fulfill", "Reject"} /\ job.handler.kind = "none"
      /\ \/ job.kind = "Fulfill" /\ CallResolve(pair, job.arg, Tail(queue), stack)
         \/ job.kind = "Reject" /\ CallReject(pair, job.arg, Tail(queue), stack)
      /\ UNCHANGED <<created, pairs, exposed, manual, history>>
  BY DEF RunPassThrough
<1>2. /\ job.kind = "Fulfill" => Excused(job.cap)
      /\ \/ Excused(job.cap)
         \/ src \in Promises /\ state[src] = "Rejected" /\ job.arg = value[src]
  BY <1>1, JobFacts DEF JobOK, PassesOn
<1>3. \A b \in live : JobHolds(job, b) => b = pair
  BY <1>1, LiveTypes DEF JobHolds, Names, HandlerHolds
<1>4. Leaves(pair, Tail(queue), stack)
  BY <1>1, <1>3, JobLeaves
<1>5. job.arg \in Values /\ Tail(queue) \in Seq(Jobs) /\ stack \in Seq(Frames)
  BY <1>1, HeadTypes DEF Facts, Inv, TypeOK
<1>6. pair[1] = job.cap
  OBVIOUS
<1> HIDE DEF pair
<1>7. CASE job.kind = "Fulfill" /\ CallResolve(pair, job.arg, Tail(queue), stack)
  BY <1>1, <1>2, <1>4, <1>5, <1>6, <1>7, CallResolveFacts
<1>8. CASE job.kind = "Reject" /\ CallReject(pair, job.arg, Tail(queue), stack)
  BY <1>1, <1>2, <1>4, <1>5, <1>6, <1>8, CallRejectFacts
<1>. QED
  BY <1>1, <1>7, <1>8

\* then() on p: the new reactions, or the job made at once, hold the pair.
LEMMA PerformThen ==
  ASSUME Facts, Grows, UNCHANGED value, NEW p \in Promises,
         NEW onF \in Handlers, NEW onR \in Handlers, NEW cap \in Caps, NEW q \in Seq(Jobs),
         PerformPromiseThen(p, onF, onR, cap, q), NEW pair,
         Names(cap, onF, pair), Names(cap, onR, pair),
         ReactionsOK(p, [cap |-> cap, handler |-> onF], [cap |-> cap, handler |-> onR])'
  PROVE  /\ Lists' /\ Keeps /\ Held(pair)'
         /\ \A job \in Elems(q) : job \in Elems(queue')
         /\ \A job \in Elems(queue') : job \in Elems(q) \/ JobOK(job)'
<1> DEFINE f == [cap |-> cap, handler |-> onF]
           r == [cap |-> cap, handler |-> onR]
<1>1. /\ f \in Reactions /\ f.cap = cap /\ f.handler = onF
      /\ r \in Reactions /\ r.cap = cap /\ r.handler = onR
      /\ ReactionsOK(p, f, r)'
  BY RecordTypes
<1>2. /\ state' = state
      /\ \/ /\ state[p] = "Pending"
            /\ fulfillReactions' = [fulfillReactions EXCEPT ![p] = Append(@, f)]
            /\ rejectReactions' = [rejectReactions EXCEPT ![p] = Append(@, r)]
            /\ queue' = q
         \/ /\ state[p] = "Fulfilled"
            /\ queue' = Append(q, ReactionJob("Fulfill", f, value[p]))
            /\ UNCHANGED <<fulfillReactions, rejectReactions>>
         \/ /\ state[p] = "Rejected"
            /\ queue' = Append(q, ReactionJob("Reject", r, value[p]))
            /\ UNCHANGED <<fulfillReactions, rejectReactions>>
  BY Zenon DEF PerformPromiseThen
<1> HIDE DEF f, r
<1>3. CASE /\ state[p] = "Pending"
           /\ fulfillReactions' = [fulfillReactions EXCEPT ![p] = Append(@, f)]
           /\ rejectReactions' = [rejectReactions EXCEPT ![p] = Append(@, r)]
           /\ queue' = q
  <2>0. PICK fs, rs : fs = fulfillReactions[p] /\ rs = rejectReactions[p]
    OBVIOUS
  <2>1. fs \in Seq(Reactions) /\ rs \in Seq(Reactions) /\ Len(fs) \in Nat
    BY <2>0, LenProperties DEF Facts, Inv, TypeOK
  <2>2. fulfillReactions'[p] = Append(fs, f) /\ rejectReactions'[p] = Append(rs, r)
    BY <1>3, <2>0 DEF Facts, Inv, TypeOK
  <2>3. \A q1 \in Promises \ {p} : /\ fulfillReactions'[q1] = fulfillReactions[q1]
                                   /\ rejectReactions'[q1] = rejectReactions[q1]
    BY <1>3 DEF Facts, Inv, TypeOK
  <2>4. /\ Len(fs) = Len(rs)
        /\ \A i \in 1 .. Len(fs) : ReactionsOK(p, fs[i], rs[i])
    BY <2>0 DEF Facts, Shape, Lists
  <2>5. /\ Len(Append(fs, f)) = Len(fs) + 1 /\ Len(Append(rs, r)) = Len(fs) + 1
        /\ \A i \in 1 .. Len(fs) : Append(fs, f)[i] = fs[i] /\ Append(rs, r)[i] = rs[i]
        /\ Append(fs, f)[Len(fs) + 1] = f /\ Append(rs, r)[Len(fs) + 1] = r
    BY <1>1, <2>1, <2>4, AppendProperties
  <2>6. Keeps
    <3> SUFFICES ASSUME NEW q1 \in Promises, NEW i \in 1 .. Len(fulfillReactions[q1])
                 PROVE  /\ i \in 1 .. Len(fulfillReactions'[q1])
                        /\ fulfillReactions'[q1][i] = fulfillReactions[q1][i]
      BY DEF Keeps
    <3>1. CASE q1 = p
      <4>1. i \in 1 .. Len(fs) /\ fulfillReactions[q1] = fs
        BY <2>0, <3>1
      <4>2. fulfillReactions'[q1] = Append(fs, f)
        BY <2>2, <3>1
      <4>. QED
        BY <2>1, <2>5, <4>1, <4>2
    <3>. QED
      BY <2>3, <3>1
  <2>7. Lists'
    <3> SUFFICES ASSUME NEW q1 \in Promises
                 PROVE  /\ Len(fulfillReactions'[q1]) = Len(rejectReactions'[q1])
                        /\ \A i \in 1 .. Len(fulfillReactions'[q1]) :
                             ReactionsOK(q1, fulfillReactions[q1][i], rejectReactions[q1][i])'
      BY DEF Lists
    <3>1. CASE q1 # p
      <4>1. /\ Len(fulfillReactions[q1]) = Len(rejectReactions[q1])
            /\ \A i \in 1 .. Len(fulfillReactions[q1]) :
                 ReactionsOK(q1, fulfillReactions[q1][i], rejectReactions[q1][i])
        BY DEF Facts, Shape, Lists
      <4>. QED
        BY <2>3, <3>1, <4>1, ReactionsStay
    <3>2. CASE q1 = p
      <4>1. Len(fulfillReactions'[p]) = Len(fs) + 1 /\ Len(rejectReactions'[p]) = Len(fs) + 1
        BY <2>2, <2>5
      <4>2. ASSUME NEW i \in 1 .. Len(fs) + 1
            PROVE  ReactionsOK(p, fulfillReactions[p][i], rejectReactions[p][i])'
        <5>1. CASE i \in 1 .. Len(fs)
          <6>1. ReactionsOK(p, fs[i], rs[i])'
            BY <2>4, <5>1, ReactionsStay
          <6>2. fulfillReactions'[p][i] = fs[i] /\ rejectReactions'[p][i] = rs[i]
            BY <2>2, <2>5, <5>1
          <6>. QED
            BY <6>1, <6>2 DEF ReactionsOK
        <5>2. CASE i = Len(fs) + 1
          <6>1. fulfillReactions'[p][i] = f /\ rejectReactions'[p][i] = r
            BY <2>2, <2>5, <5>2
          <6>. QED
            BY <1>1, <6>1
        <5>. QED
          BY <2>1, <5>1, <5>2
      <4>. QED
        BY <3>2, <4>1, <4>2
    <3>. QED
      BY <3>1, <3>2
  <2>8. Held(pair)'
    <3>1. /\ Len(fs) + 1 \in 1 .. Len(fulfillReactions'[p])
          /\ fulfillReactions'[p][Len(fs) + 1] = f /\ state'[p] = "Pending"
      BY <1>2, <1>3, <2>1, <2>2, <2>5
    <3>2. Names(f.cap, f.handler, pair)
      BY <1>1
    <3>. QED
      BY <3>1, <3>2 DEF Held, Names, HandlerHolds
  <2>. QED
    BY <1>3, <2>6, <2>7, <2>8
<1>4. ASSUME NEW job \in Jobs, job.kind # "Thenable", job.cap = cap, Names(cap, job.handler, pair),
             JobOK(job)', queue' = Append(q, job), UNCHANGED <<fulfillReactions, rejectReactions>>
      PROVE  /\ Lists' /\ Keeps /\ Held(pair)'
             /\ \A j \in Elems(q) : j \in Elems(queue')
             /\ \A j \in Elems(queue') : j \in Elems(q) \/ JobOK(j)'
  <2>1. Elems(queue') = Elems(q) \cup {job}
    BY <1>4, ElemsAppend
  <2>2. UNCHANGED promiseVars
    BY <1>2, <1>4 DEF promiseVars
  <2>3. Held(pair)'
    BY <1>4, <2>1 DEF Held, JobHolds, Names, HandlerHolds
  <2>. QED
    BY <1>4, <2>1, <2>2, <2>3, ListsStay
<1>5. state[p] # "Pending" => value[p] \in Values
  BY DEF Facts, Inv, TypeOK
<1>6. CASE /\ state[p] = "Fulfilled"
           /\ queue' = Append(q, ReactionJob("Fulfill", f, value[p]))
           /\ UNCHANGED <<fulfillReactions, rejectReactions>>
  <2>0. PICK job : job = ReactionJob("Fulfill", f, value[p])
    OBVIOUS
  <2>1. /\ job \in Jobs /\ job.kind = "Fulfill" /\ job.cap = cap /\ job.handler = onF
    BY <1>1, <1>5, <1>6, <2>0, RecordTypes DEF ReactionJob
  <2>2. JobOK(job)'
    <3>1. CASE cap = NoPromise /\ onF.kind = "resolve" /\ onF.pair[2] >= 2
      BY <2>1, <3>1 DEF JobOK
    <3>2. CASE cap \in 1 .. created' /\ origin'[cap].source = p /\ onF.kind \in {"none", "user"}
      <4>1. Excused(cap)'
        BY <1>2, <1>6, <3>2 DEF Excused
      <4>. QED
        BY <2>1, <3>2, <4>1 DEF JobOK
    <3>. QED
      BY <1>1, <3>1, <3>2 DEF ReactionsOK
  <2>. QED
    BY <1>1, <1>4, <1>6, <2>0, <2>1, <2>2
<1>7. CASE /\ state[p] = "Rejected"
           /\ queue' = Append(q, ReactionJob("Reject", r, value[p]))
           /\ UNCHANGED <<fulfillReactions, rejectReactions>>
  <2>0. PICK job : job = ReactionJob("Reject", r, value[p])
    OBVIOUS
  <2>1. /\ job \in Jobs /\ job.kind = "Reject" /\ job.cap = cap /\ job.handler = onR
        /\ job.arg = value[p]
    BY <1>1, <1>5, <1>7, <2>0, RecordTypes DEF ReactionJob
  <2>2. JobOK(job)'
    <3>1. CASE cap = NoPromise /\ onR.kind = "reject" /\ onF.pair = onR.pair /\ onF.pair[2] >= 2
      BY <2>1, <3>1 DEF JobOK
    <3>2. CASE cap \in 1 .. created' /\ origin'[cap].source = p
               /\ onR.kind = "user" /\ origin'[cap].onR
      <4>1. Excused(cap)'
        BY <1>2, <1>7, <3>2 DEF Excused
      <4>. QED
        BY <2>1, <3>2, <4>1 DEF JobOK
    <3>3. CASE cap \in 1 .. created' /\ origin'[cap].source = p /\ onR.kind = "none"
      <4>1. PassesOn(job)'
        BY <1>2, <1>7, <2>1, <3>3 DEF PassesOn
      <4>. QED
        BY <2>1, <3>3, <4>1 DEF JobOK
    <3>. QED
      BY <1>1, <3>1, <3>2, <3>3 DEF ReactionsOK
  <2>. QED
    BY <1>1, <1>4, <1>7, <2>0, <2>1, <2>2
<1>. QED
  BY <1>2, <1>3, <1>6, <1>7

-----------------------------------------------------------------------------
(* New promises and new pairs.                                                *)

LEMMA NewGrows ==
  ASSUME Facts, NewPromise, UNCHANGED <<state, value>>,
         \A p \in Promises : p # created + 1 => origin'[p] = origin[p]
  PROVE  /\ Grows /\ created' = created + 1 /\ created + 1 \in Promises
         /\ created \in Nat /\ live' = live \cup {<<created + 1, 1>>}
         /\ \A p \in Promises : p <= created' => pairs'[p] >= 1
         /\ origin[created + 1].source = NoPromise
         /\ created + 1 \in 1 .. created'
         /\ \A p \in 1 .. created' : p \in 1 .. created \/ p = created + 1
<1>1. /\ created \in Nat /\ created' = created + 1 /\ created + 1 \in Promises
      /\ live' = live \cup {<<created + 1, 1>>}
      /\ pairs' = [pairs EXCEPT ![created + 1] = 1] /\ pairs \in [Promises -> Nat]
      /\ \A p \in 1 .. created : p \in Promises /\ p \in Nat /\ p # created + 1
  BY NewPromiseTypes, BoundsAssumption DEF NewPromise, Facts, Inv, TypeOK, Promises
<1>2. \A p \in 1 .. created : origin'[p] = origin[p]
  BY <1>1
<1>3. Grows
  BY <1>1, <1>2 DEF Grows
<1>4. \A p \in Promises : p <= created => pairs[p] >= 1
  BY DEF Facts, Shape, Origins
<1>5. \A p \in Promises : p <= created' => pairs'[p] >= 1
  <2> SUFFICES ASSUME NEW p \in Promises, p <= created + 1
               PROVE  pairs'[p] >= 1
    BY <1>1
  <2>1. CASE p = created + 1
    BY <1>1, <2>1
  <2>2. CASE p # created + 1
    <3>1. p \in Nat
      BY DEF Promises
    <3>2. p <= created
      BY <1>1, <2>2, <3>1
    <3>. QED
      BY <1>1, <1>4, <2>2, <3>2
  <2>. QED
    BY <2>1, <2>2
<1>6. origin[created + 1].source = NoPromise
  BY <1>1 DEF Facts, Shape, Origins
<1>7. \A p \in 1 .. created' : p \in 1 .. created \/ p = created + 1
  BY <1>1
<1>. QED
  BY <1>1, <1>3, <1>5, <1>6, <1>7

\* The promise of RegisterPromise, Construct or CallAsync is held by the host, by
\* user code or by the frame of the call.
LEMMA MadeFacts ==
  ASSUME Facts, Inv', NewPromise, UNCHANGED <<promiseVars, queue, history>>,
         NEW c, c = created + 1, exposed \subseteq exposed', manual \subseteq manual',
         \A b \in exposed' \cup manual' : b \in exposed \cup manual \/ b = <<c, 1>>,
         \A f \in Elems(stack) : f \in Elems(stack'),
         \A f \in Elems(stack') :
           f \in Elems(stack) \/ (f.kind = "async" /\ f.p = c /\ f.n = 1),
         Held(<<c, 1>>)'
  PROVE  Facts'
<1>0. UNCHANGED <<state, value, origin, lost>>
  BY DEF promiseVars, history
<1>1. /\ Grows /\ created' = c /\ c \in Promises /\ created \in Nat
      /\ live' = live \cup {<<c, 1>>}
      /\ \A p \in Promises : p <= created' => pairs'[p] >= 1
      /\ origin[c].source = NoPromise /\ c \in 1 .. created'
      /\ \A p \in 1 .. created' : p \in 1 .. created \/ p = c
  BY <1>0, NewGrows
<1>2. Origins'
  <2>1. \A p \in Promises : /\ origin[p].source < p
                            /\ p > created => origin[p].source = NoPromise
    BY DEF Facts, Shape, Origins
  <2>2. \A p \in Promises : p > c => p > created
    BY <1>1 DEF Promises
  <2>. QED
    BY <1>0, <1>1, <2>1, <2>2 DEF Origins
<1>3. Lists' /\ Keeps
  BY <1>1, ListsStay
<1>4. Excused(c)'
  BY <1>0, <1>1 DEF Excused, Promises, NoPromise
<1>5. PairOK(<<c, 1>>)'
  BY <1>1, <1>4 DEF PairOK
<1>6. \A f : f.kind = "async" /\ f.p = c /\ f.n = 1 => FrameOK(f)'
  BY <1>1, <1>4 DEF FrameOK
<1>7. Shape'
  BY <1>1, <1>2, <1>3, <1>5, <1>6, ShapeStays
<1>8. Keeper(c)'
  BY <1>1 DEF Keeper
<1>9. Moves
  BY <1>0, <1>1, <1>3, <1>8 DEF Moves
<1>. QED
  BY <1>7, <1>9, MovesMirror, MovesOwned DEF Facts

LEMMA ThenFacts ==
  ASSUME Facts, Inv', NEW q \in Handed, NEW onF \in BOOLEAN, NEW onR \in BOOLEAN,
         Then(q, onF, onR)
  PROVE  Facts'
<1> DEFINE hF == Plainly(IF onF THEN "user" ELSE "none")
           hR == Plainly(IF onR THEN "user" ELSE "none")
<1>0. PICK c : c = created + 1
  OBVIOUS
<1>1. /\ NewPromise /\ PerformPromiseThen(q, hF, hR, c, queue)
      /\ origin' = [origin EXCEPT ![c] = [source |-> q, onF |-> onF, onR |-> onR]]
      /\ UNCHANGED <<exposed, manual, stack, lost>>
  BY <1>0 DEF Then
<1>2. UNCHANGED <<state, value>>
  BY <1>1 DEF PerformPromiseThen
<1>3. /\ hF \in Handlers /\ hF.kind \in {"none", "user"}
      /\ hR \in Handlers /\ hR.kind \in {"none", "user"} /\ (hR.kind = "user" => onR)
  <2>1. hF \in Handlers /\ hR \in Handlers
    BY RecordTypes
  <2>2. hF.kind = (IF onF THEN "user" ELSE "none") /\ hR.kind = (IF onR THEN "user" ELSE "none")
    BY DEF Plainly
  <2>. QED
    BY <2>1, <2>2
<1> HIDE DEF hF, hR
<1>4. q \in Promises /\ q <= created /\ c \in Caps /\ queue \in Seq(Jobs)
  BY <1>0, <1>1, InputTypes, NewPromiseTypes DEF Facts, Inv, TypeOK, Handed, Exists
<1>5. \A p \in Promises : p # c => origin'[p] = origin[p]
  BY <1>1 DEF Facts, Inv, TypeOK
<1>6. /\ Grows /\ created' = c /\ c \in Promises /\ created \in Nat
      /\ live' = live \cup {<<c, 1>>}
      /\ \A p \in Promises : p <= created' => pairs'[p] >= 1
      /\ c \in 1 .. created'
      /\ \A p \in 1 .. created' : p \in 1 .. created \/ p = c
  BY <1>0, <1>1, <1>2, <1>5, NewGrows
<1>7. origin'[c].source = q /\ origin'[c].onR = onR
  BY <1>1, <1>6 DEF Facts, Inv, TypeOK
<1>8. Origins'
  <2>1. \A p \in Promises : /\ origin[p].source < p /\ p \in Nat
                            /\ p > created => origin[p].source = NoPromise
    BY DEF Facts, Shape, Origins, Promises
  <2>2. q < c
    BY <1>0, <1>4, <1>6, <2>1
  <2>3. \A p \in Promises : p > c => p > created /\ p # c
    BY <1>0, <1>6, <2>1
  <2>. QED
    BY <1>5, <1>6, <1>7, <2>1, <2>2, <2>3 DEF Origins
<1>9. Names(c, hF, <<c, 1>>) /\ Names(c, hR, <<c, 1>>)
  BY DEF Names
<1>10. ReactionsOK(q, [cap |-> c, handler |-> hF], [cap |-> c, handler |-> hR])'
  BY <1>3, <1>6, <1>7 DEF ReactionsOK
<1>11. /\ Lists' /\ Keeps /\ Held(<<c, 1>>)'
       /\ \A job \in Elems(queue) : job \in Elems(queue')
       /\ \A job \in Elems(queue') : job \in Elems(queue) \/ JobOK(job)'
  BY <1>1, <1>2, <1>3, <1>4, <1>6, <1>9, <1>10, PerformThen
<1>12. Shape'
  BY <1>1, <1>6, <1>8, <1>11, ShapeStays
<1>13. Keeper(c)'
  BY <1>6, <1>11 DEF Keeper
<1>14. Moves
  BY <1>1, <1>2, <1>5, <1>6, <1>11, <1>13 DEF Moves
<1>. QED
  BY <1>12, <1>14, MovesMirror, MovesOwned DEF Facts

\* A thenable job that runs: the new pair is at least the second of its promise.
LEMMA ThenableTypes ==
  ASSUME Facts, NextJob, Head(queue).kind = "Thenable"
  PROVE  LET p == Head(queue).cap
         IN /\ p \in Promises /\ p \in 1 .. created /\ p \in Nat
            /\ pairs[p] \in Nat /\ pairs[p] >= 1
<1> DEFINE p == Head(queue).cap
<1>0. p \in Promises /\ queue \in Seq(Jobs) /\ queue # <<>>
  BY HeadTypes DEF Facts, Inv, TypeOK, NextJob
<1>1. p \in Nat /\ p >= 1 /\ created \in Nat /\ pairs[p] \in Nat
  BY <1>0, BoundsAssumption DEF Facts, Inv, TypeOK, Promises
<1>2. 1 \in 1 .. Len(queue) /\ Head(queue) = queue[1]
  BY <1>0, ElemsTail, LenProperties
<1>3. p <= created
  BY <1>2 DEF Facts, Inv, OneSettler, SettleRights
<1>4. pairs[p] >= 1
  BY <1>0, <1>3 DEF Facts, Shape, Origins
<1>. QED
  BY <1>0, <1>1, <1>3, <1>4

LEMMA ThenableFacts ==
  ASSUME Facts, Inv', NextJob, Head(queue).kind = "Thenable", NEW pair,
         pair = <<Head(queue).cap, pairs[Head(queue).cap] + 1>>,
         pairs' = [pairs EXCEPT ![Head(queue).cap] = @ + 1], live' = live \cup {pair},
         UNCHANGED <<created, state, value, origin, manual, lost>>,
         Lists', Keeps, Held(pair)', exposed \subseteq exposed',
         \A b \in exposed' : b \in exposed \/ b = pair,
         \A job \in Elems(Tail(queue)) : job \in Elems(queue'),
         \A job \in Elems(queue') : job \in Elems(Tail(queue)) \/ JobOK(job)',
         \A f \in Elems(stack) : f \in Elems(stack'),
         \A f \in Elems(stack') : f \in Elems(stack) \/ FrameOK(f)'
  PROVE  Facts'
<1>0. PICK p : p = Head(queue).cap
  OBVIOUS
<1>1. /\ p \in Promises /\ p \in 1 .. created /\ p \in Nat
      /\ pairs[p] \in Nat /\ pairs[p] >= 1
  BY <1>0, ThenableTypes
<1>2. Grows
  BY SameGrows DEF Facts, Inv
<1>3. Origins'
  <2>1. pairs'[p] = pairs[p] + 1 /\ \A r \in Promises : r # p => pairs'[r] = pairs[r]
    BY <1>0, <1>1 DEF Facts, Inv, TypeOK
  <2>2. pairs'[p] >= 1
    BY <1>1, <2>1
  <2>. QED
    BY <2>1, <2>2 DEF Facts, Shape, Origins
<1>4. pair[1] = p /\ pair[2] >= 2
  BY <1>0, <1>1
<1>5. PairOK(pair)'
  BY <1>1, <1>4 DEF PairOK
<1>6. Elems(queue) = Elems(Tail(queue)) \cup {Head(queue)}
  BY JobFacts
<1>7. Shape'
  BY <1>2, <1>3, <1>5, <1>6, ShapeStays
<1>8. Keeper(p)'
  BY <1>4 DEF Keeper
<1>9. \A b : ~JobHolds(Head(queue), b)
  BY DEF JobHolds
<1>10. Moves
  BY <1>0, <1>2, <1>6, <1>8, <1>9 DEF Moves
<1>. QED
  BY <1>7, <1>10, MovesMirror, MovesOwned DEF Facts

LEMMA RunPromiseThenableFacts ==
  ASSUME Facts, Inv', RunPromiseThenable
  PROVE  Facts'
<1> DEFINE job == Head(queue)
<1>0. PICK pair : pair = <<job.cap, pairs[job.cap] + 1>>
  OBVIOUS
<1> DEFINE onF == [kind |-> "resolve", pair |-> pair]
           onR == [kind |-> "reject", pair |-> pair]
<1>1. /\ NextJob /\ job.kind = "Thenable" /\ job.arg \in Promises
      /\ pairs' = [pairs EXCEPT ![job.cap] = @ + 1] /\ live' = live \cup {pair}
      /\ PerformPromiseThen(job.arg, onF, onR, NoPromise, Tail(queue))
      /\ UNCHANGED <<created, exposed, manual, stack, origin, lost>>
  BY <1>0 DEF RunPromiseThenable, history
<1>2. UNCHANGED <<state, value>>
  BY <1>1 DEF PerformPromiseThen
<1>3. Grows
  BY <1>1, <1>2, SameGrows DEF Facts, Inv
<1>4. pair \in Pairs /\ pair[2] >= 2
  BY <1>0, <1>1, ThenableTypes DEF Pairs
<1>5. /\ onF \in Handlers /\ onF.kind = "resolve" /\ onF.pair = pair
      /\ onR \in Handlers /\ onR.kind = "reject" /\ onR.pair = pair
  BY <1>4 DEF Handlers
<1> HIDE DEF onF, onR
<1>6. Names(NoPromise, onF, pair) /\ Names(NoPromise, onR, pair)
  BY <1>5 DEF Names, HandlerHolds
<1>7. \A a : ReactionsOK(a, [cap |-> NoPromise, handler |-> onF],
                         [cap |-> NoPromise, handler |-> onR])'
  BY <1>4, <1>5 DEF ReactionsOK
<1>8. NoPromise \in Caps /\ Tail(queue) \in Seq(Jobs)
  BY <1>1, JobFacts DEF Caps
<1>9. PICK a \in Promises : a = job.arg
  BY <1>1
<1>10. /\ Lists' /\ Keeps /\ Held(pair)'
       /\ \A j \in Elems(Tail(queue)) : j \in Elems(queue')
       /\ \A j \in Elems(queue') : j \in Elems(Tail(queue)) \/ JobOK(j)'
  <2>1. ReactionsOK(a, [cap |-> NoPromise, handler |-> onF],
                    [cap |-> NoPromise, handler |-> onR])'
    BY <1>7, Zenon
  <2>2. PICK q \in Seq(Jobs) : q = Tail(queue)
    BY <1>8
  <2>3. PerformPromiseThen(a, onF, onR, NoPromise, q)
    BY <1>1, <1>9, <2>2
  <2>. QED
    BY <1>2, <1>3, <1>5, <1>6, <1>8, <2>1, <2>2, <2>3, PerformThen
<1>. QED
  BY <1>0, <1>1, <1>2, <1>10, ThenableFacts

LEMMA RunUserThenableFacts ==
  ASSUME Facts, Inv', RunUserThenable
  PROVE  Facts'
<1> DEFINE job == Head(queue)
<1>0. PICK pair : pair = <<job.cap, pairs[job.cap] + 1>>
  OBVIOUS
<1>a. PICK f : f = Frame("thencall", pair[1], pair[2], job.arg)
  OBVIOUS
<1>1. /\ NextJob /\ job.kind = "Thenable" /\ job.arg \in Objects
      /\ pairs' = [pairs EXCEPT ![job.cap] = @ + 1] /\ live' = live \cup {pair}
      /\ exposed' = exposed \cup {pair} /\ queue' = Tail(queue) /\ stack' = Push(f, stack)
      /\ UNCHANGED <<created, promiseVars, manual, origin, lost>>
  BY <1>0, <1>a DEF RunUserThenable, history
<1>2. pair \in Pairs /\ pair[1] \in Caps /\ pair[2] \in Nat /\ pair[2] >= 2
  BY <1>0, <1>1, ThenableTypes DEF Pairs, Caps
<1>3. f \in Frames /\ f.kind = "thencall" /\ f.n >= 2
  <2>1. job.arg \in Values
    BY <1>1, HeadTypes DEF Facts, Inv
  <2>2. f \in Frames
    BY <1>2, <1>a, <2>1, RecordTypes
  <2>. QED
    BY <1>2, <1>a, <2>2 DEF Frame
<1>4. Elems(stack') = Elems(stack) \cup {f}
  BY <1>1, <1>3, ElemsPush DEF Facts, Inv, TypeOK
<1>5. FrameOK(f)'
  BY <1>3 DEF FrameOK
<1>6. UNCHANGED <<state, value>>
  BY <1>1 DEF promiseVars
<1>7. Grows
  BY <1>1, <1>6, SameGrows DEF Facts, Inv
<1>8. Lists' /\ Keeps
  BY <1>1, <1>7, ListsStay
<1>9. Held(pair)'
  BY <1>1 DEF Held
<1>. QED
  BY <1>0, <1>1, <1>4, <1>5, <1>6, <1>8, <1>9, ThenableFacts

-----------------------------------------------------------------------------
(* Every step.                                                                *)

LEMMA HostFacts ==
  ASSUME Facts, Inv', HostCall
  PROVE  Facts'
<1>0. /\ UserValues \subseteq Values /\ Plain \subseteq Values
      /\ queue \in Seq(Jobs) /\ stack \in Seq(Frames)
  BY InputTypes DEF Facts, Inv, TypeOK
<1>1. CASE Execute \/ Invoke
  <2>1. PICK k \in {"script", "invoke"} :
          /\ stack' = Push(Entry(k), stack)
          /\ UNCHANGED <<promiseVars, created, pairs, origin, exposed, manual, live, queue, lost>>
    BY <1>1 DEF Execute, Invoke, history
  <2>2. Entry(k) \in Frames /\ FrameOK(Entry(k))
    BY RecordTypes DEF FrameOK, Entry, Frame
  <2>. QED
    BY <2>1, <2>2, EnterFacts
<1>2. CASE RegisterPromise
  <2>0. PICK c : c = created + 1
    OBVIOUS
  <2>1. /\ NewPromise /\ manual' = manual \cup {<<c, 1>>}
        /\ UNCHANGED <<promiseVars, exposed, queue, stack, history>>
    BY <1>2, <2>0 DEF RegisterPromise
  <2>2. Held(<<c, 1>>)'
    BY <2>1 DEF Held
  <2>. QED
    BY <2>0, <2>1, <2>2, MadeFacts
<1>3. ASSUME NEW pair \in manual
      PROVE  /\ Push(Entry("drain"), stack) \in Seq(Frames)
             /\ Leaves(pair, queue, Push(Entry("drain"), stack))
             /\ pair[2] >= 2 \/ Excused(pair[1])
  <2>1. /\ Push(Entry("drain"), stack) \in Seq(Frames)
        /\ Elems(Push(Entry("drain"), stack)) = Elems(stack) \cup {Entry("drain")}
    BY <1>0, RecordTypes, PushProperties, ElemsPush
  <2>2. Entry("drain").kind = "drain"
    BY DEF Entry, Frame
  <2>3. Leaves(pair, queue, Push(Entry("drain"), stack))
    BY <2>1, <2>2 DEF Leaves
  <2>4. PairOK(pair)
    BY DEF Facts, Shape
  <2>. QED
    BY <2>1, <2>3, <2>4 DEF PairOK
<1>4. ASSUME NEW pair \in manual, NEW x \in UserValues, HostResolve(pair, x)
      PROVE  Facts'
  <2>1. /\ CallResolve(pair, x, queue, Push(Entry("drain"), stack))
        /\ UNCHANGED <<created, pairs, exposed, manual, history>>
    BY <1>4 DEF HostResolve
  <2>. QED
    BY <1>0, <1>3, <2>1, CallResolveFacts
<1>5. ASSUME NEW pair \in manual, NEW v \in Plain, HostReject(pair, v)
      PROVE  Facts'
  <2>1. /\ CallReject(pair, v, queue, Push(Entry("drain"), stack))
        /\ UNCHANGED <<created, pairs, exposed, manual, history>>
    BY <1>5 DEF HostReject
  <2>. QED
    BY <1>0, <1>3, <2>1, CallRejectFacts
<1>. QED
  BY <1>1, <1>2, <1>4, <1>5 DEF HostCall

LEMMA UserFacts ==
  ASSUME Facts, Inv', UserCall
  PROVE  Facts'
<1>0. /\ UserValues \subseteq Values /\ Plain \subseteq Values
      /\ queue \in Seq(Jobs) /\ stack \in Seq(Frames)
  BY InputTypes DEF Facts, Inv, TypeOK
<1>1. CASE Construct
  <2>0. PICK c : c = created + 1
    OBVIOUS
  <2>1. /\ NewPromise /\ exposed' = exposed \cup {<<c, 1>>}
        /\ UNCHANGED <<promiseVars, manual, queue, stack, history>>
    BY <1>1, <2>0 DEF Construct
  <2>2. Held(<<c, 1>>)'
    BY <2>1 DEF Held
  <2>. QED
    BY <2>0, <2>1, <2>2, MadeFacts
<1>2. CASE CallAsync
  <2>a. PICK c : c = created + 1
    OBVIOUS
  <2>0. PICK f : f = Frame("async", c, 1, NoValue)
    OBVIOUS
  <2>1. /\ NewPromise /\ stack' = Push(f, stack)
        /\ UNCHANGED <<promiseVars, exposed, manual, queue, history>>
    BY <1>2, <2>0, <2>a DEF CallAsync
  <2>2. f \in Frames /\ f.kind = "async" /\ f.p = c /\ f.n = 1
    BY <2>0, <2>a, <2>1, NewPromiseTypes, RecordTypes DEF Facts, Inv, Frame
  <2>3. Elems(stack') = Elems(stack) \cup {f}
    BY <1>0, <2>1, <2>2, ElemsPush
  <2>4. Held(<<c, 1>>)'
    BY <2>2, <2>3 DEF Held, FrameHolds
  <2>. QED
    BY <2>a, <2>1, <2>2, <2>3, <2>4, MadeFacts
<1>3. CASE Import
  <2>1. /\ stack' = Push(Frame("import", NoPromise, 0, NoValue), stack)
        /\ UNCHANGED <<promiseVars, created, pairs, origin, exposed, manual, live, queue, lost>>
    BY <1>3 DEF Import, history
  <2>2. /\ Frame("import", NoPromise, 0, NoValue) \in Frames
        /\ FrameOK(Frame("import", NoPromise, 0, NoValue))
    BY RecordTypes DEF FrameOK, Frame, Caps
  <2>. QED
    BY <2>1, <2>2, EnterFacts
<1>4. ASSUME NEW x \in UserValues, Await(x)
      PROVE  Facts'
  <2>1. /\ stack' = Push(Frame("await", NoPromise, 0, x), stack)
        /\ UNCHANGED <<promiseVars, created, pairs, origin, exposed, manual, live, queue, lost>>
    BY <1>4 DEF Await, history
  <2>2. /\ Frame("await", NoPromise, 0, x) \in Frames
        /\ FrameOK(Frame("await", NoPromise, 0, x))
    BY <1>0, RecordTypes DEF FrameOK, Frame, Caps
  <2>. QED
    BY <2>1, <2>2, EnterFacts
<1>5. ASSUME NEW pair \in exposed
      PROVE  /\ Leaves(pair, queue, stack)
             /\ pair[2] >= 2 \/ Excused(pair[1])
  <2>1. PairOK(pair)
    BY DEF Facts, Shape
  <2>. QED
    BY <2>1 DEF PairOK, Leaves
<1>6. ASSUME NEW pair \in exposed, NEW x \in UserValues, UserResolve(pair, x)
      PROVE  Facts'
  <2>1. /\ CallResolve(pair, x, queue, stack)
        /\ UNCHANGED <<created, pairs, exposed, manual, history>>
    BY <1>6 DEF UserResolve
  <2>. QED
    BY <1>0, <1>5, <2>1, CallResolveFacts
<1>7. ASSUME NEW pair \in exposed, NEW v \in Plain, UserReject(pair, v)
      PROVE  Facts'
  <2>1. /\ CallReject(pair, v, queue, stack)
        /\ UNCHANGED <<created, pairs, exposed, manual, history>>
    BY <1>7 DEF UserReject
  <2>. QED
    BY <1>0, <1>5, <2>1, CallRejectFacts
<1>. QED
  BY <1>1, <1>2, <1>3, <1>4, <1>6, <1>7, ThenFacts DEF UserCall

LEMMA LoopFacts ==
  ASSUME Facts, Inv', Loop
  PROVE  Facts'
<1>1. CASE DrainDone \/ AwaitResumes
  <2>1. /\ stack # <<>> /\ Top.kind \in {"drain", "import", "await"} /\ stack' = Tail(stack)
        /\ UNCHANGED <<promiseVars, created, pairs, origin, exposed, manual, live, queue, lost>>
    BY <1>1 DEF DrainDone, AwaitResumes, LoopOnTop, history
  <2>. QED
    BY <2>1, LeaveFacts
<1>2. AwaitPending => Unwind
  BY DEF AwaitPending
<1>. QED
  BY <1>1, <1>2, RunHandlerFacts, RunAdoptionFacts, RunPassThroughFacts,
     RunPromiseThenableFacts, RunUserThenableFacts, UnwindFacts
  DEF Loop

LEMMA FactsStep == Facts /\ [Next]_vars => Facts'
<1> SUFFICES ASSUME Facts, [Next]_vars PROVE Facts'
  OBVIOUS
<1>1. Inv'
  BY InvStep DEF Facts
<1>2. CASE UNCHANGED vars
  <2>1. Quiet
    BY <1>2 DEF vars, Quiet, promiseVars
  <2>. QED
    BY <1>1, <2>1, QuietFacts
<1>3. CASE Next
  <2>1. ConstraintFails => Unwind
    BY DEF ConstraintFails
  <2>. QED
    BY <1>1, <1>3, <2>1, HostFacts, UserFacts, ReturnFacts, LoopFacts, UnwindFacts DEF Next
<1>. QED
  BY <1>2, <1>3

(* A rejection that nobody handles arrives with its reason at the end of its   *)
(* chain: whatever user code, thenables and the host do meanwhile, a promise   *)
(* that then() derived without an onRejected handler from a promise that was   *)
(* rejected is pending or rejected with the same value.  Nobody but the        *)
(* reaction job of the chain can have used its resolving functions.            *)
THEOREM RejectionsPropagate == Spec => []RejectionPropagates
<1>1. Init => Facts
  BY FactsInit
<1>2. Facts /\ [Next]_vars => Facts'
  BY FactsStep
<1>3. Facts => RejectionPropagates
  BY FactsPropagate
<1>. QED
  BY <1>1, <1>2, <1>3, PTL DEF Spec

(* No promise is orphaned: a pending promise has a pair of resolving functions *)
(* that is still live and that the host, user code, a job, a registered        *)
(* reaction of a pending promise or a frame holds, or a thenable job or a      *)
(* "then" getter is about to settle it; unless an exception that JavaScript    *)
(* cannot catch has unwound the code that would have.                          *)
THEOREM PendingIsOwned == Spec => []PendingHasOwner
<1>1. Init => Facts
  BY FactsInit
<1>2. Facts /\ [Next]_vars => Facts'
  BY FactsStep
<1>3. Facts => PendingHasOwner
  BY FactsOwn
<1>. QED
  BY <1>1, <1>2, <1>3, PTL DEF Spec

-----------------------------------------------------------------------------
(* The life of reactions.  Where the derived promises are is looked at place  *)
(* by place, in lists of promises with NoPromise where there is none; joining *)
(* two such lists joins their members, and puts those of one ahead of those   *)
(* of the other.                                                              *)

Once(caps) ==
  \A i, j \in 1 .. Len(caps) : caps[i] = caps[j] /\ caps[i] # NoPromise => i = j

LEMMA JoinCaps ==
  ASSUME NEW a \in Seq(Caps), NEW b \in Seq(Caps)
  PROVE  /\ Members(a \o b) = Members(a) \cup Members(b)
         /\ Precedence(a \o b) = Precedence(a) \cup Precedence(b) \cup (Members(a) \X Members(b))
         /\ Once(a \o b) <=> Once(a) /\ Once(b) /\ Members(a) \cap Members(b) = {}
<1> DEFINE c == a \o b
           m == Len(a)
           n == Len(b)
<1>1. /\ m \in Nat /\ n \in Nat /\ Len(c) = m + n
      /\ \A i \in 1 .. m + n : c[i] = IF i <= m THEN a[i] ELSE b[i - m]
  BY LenProperties, ConcatProperties
<1> HIDE DEF c
<1>2. /\ \A i \in 1 .. m : i \in 1 .. m + n /\ c[i] = a[i]
      /\ \A i \in 1 .. n : m + i \in 1 .. m + n /\ c[m + i] = b[i]
      /\ \A i \in 1 .. m + n : i \in 1 .. m \/ (i - m \in 1 .. n /\ i = m + (i - m))
  BY <1>1
<1>3. \A i \in 1 .. m + n : \/ i \in 1 .. m /\ c[i] = a[i]
                            \/ \E k \in 1 .. n : i = m + k /\ c[i] = b[k]
  <2> SUFFICES ASSUME NEW i \in 1 .. m + n, i \notin 1 .. m
               PROVE  \E k \in 1 .. n : i = m + k /\ c[i] = b[k]
    BY <1>2
  <2>1. i - m \in 1 .. n /\ i = m + (i - m)
    BY <1>2
  <2>. QED
    BY <1>1, <1>2, <2>1
<1>4. Members(c) = Members(a) \cup Members(b)
  <2>1. \A x \in Members(c) : x \in Members(a) \cup Members(b)
    <3> SUFFICES ASSUME NEW i \in 1 .. m + n, c[i] # NoPromise
                 PROVE  c[i] \in Members(a) \cup Members(b)
      BY <1>1 DEF Members
    <3>. QED
      BY <1>3 DEF Members
  <2>2. \A x \in Members(a) \cup Members(b) : x \in Members(c)
    BY <1>1, <1>2 DEF Members
  <2>. QED
    BY <2>1, <2>2
<1>5. \A x \in Members(a) : \E i \in 1 .. m : a[i] = x
  BY DEF Members
<1>6. \A y \in Members(b) : \E j \in 1 .. n : b[j] = y
  BY DEF Members
<1>7. ASSUME NEW x, NEW y
      PROVE  <<x, y>> \in Precedence(c) <=>
               \/ <<x, y>> \in Precedence(a) \/ <<x, y>> \in Precedence(b)
               \/ x \in Members(a) /\ y \in Members(b)
  <2> DEFINE P(s) == /\ x \in Members(s) /\ y \in Members(s)
                     /\ \E i, j \in 1 .. Len(s) : i < j /\ s[i] = x /\ s[j] = y
  <2>0. \A s : <<x, y>> \in Precedence(s) <=> P(s)
    BY DEF Precedence
  <2>1. ASSUME P(c)
        PROVE  P(a) \/ P(b) \/ (x \in Members(a) /\ y \in Members(b))
    <3>1. PICK i, j \in 1 .. m + n : i < j /\ c[i] = x /\ c[j] = y
      BY <1>1, <2>1
    <3>2. x # NoPromise /\ y # NoPromise
      BY <2>1 DEF Members
    <3>3. CASE j \in 1 .. m
      <4>1. i \in 1 .. m
        BY <1>1, <3>1, <3>3
      <4>2. a[i] = x /\ a[j] = y
        BY <1>2, <3>1, <3>3, <4>1
      <4>. QED
        BY <3>1, <3>2, <3>3, <4>1, <4>2 DEF Members
    <3>4. CASE j \notin 1 .. m
      <4>1. PICK l \in 1 .. n : j = m + l /\ b[l] = y
        BY <1>3, <3>1, <3>4
      <4>2. y \in Members(b)
        BY <3>2, <4>1 DEF Members
      <4>3. CASE i \in 1 .. m
        BY <1>2, <3>1, <3>2, <4>2, <4>3 DEF Members
      <4>4. CASE i \notin 1 .. m
        <5>1. PICK k \in 1 .. n : i = m + k /\ b[k] = x
          BY <1>3, <3>1, <4>4
        <5>2. k < l
          BY <1>1, <3>1, <4>1, <5>1
        <5>. QED
          BY <3>2, <4>1, <4>2, <5>1, <5>2 DEF Members
      <4>. QED
        BY <4>3, <4>4
    <3>. QED
      BY <3>3, <3>4
  <2>2. ASSUME P(a)
        PROVE  P(c)
    BY <1>1, <1>2, <1>4, <2>2
  <2>3. ASSUME P(b)
        PROVE  P(c)
    <3>1. PICK i, j \in 1 .. n : i < j /\ b[i] = x /\ b[j] = y
      BY <2>3
    <3>2. m + i \in 1 .. m + n /\ m + j \in 1 .. m + n /\ m + i < m + j /\ c[m + i] = x /\ c[m + j] = y
      BY <1>1, <1>2, <3>1
    <3>. QED
      BY <1>1, <1>4, <2>3, <3>2
  <2>4. ASSUME x \in Members(a), y \in Members(b)
        PROVE  P(c)
    <3>1. PICK i \in 1 .. m : a[i] = x
      BY <1>5, <2>4
    <3>2. PICK j \in 1 .. n : b[j] = y
      BY <1>6, <2>4
    <3>3. i \in 1 .. m + n /\ m + j \in 1 .. m + n /\ i < m + j /\ c[i] = x /\ c[m + j] = y
      BY <1>1, <1>2, <3>1, <3>2
    <3>. QED
      BY <1>1, <1>4, <2>4, <3>3
  <2> HIDE DEF P
  <2>. QED
    BY <2>0, <2>1, <2>2, <2>3, <2>4
<1>8. Precedence(c) = Precedence(a) \cup Precedence(b) \cup (Members(a) \X Members(b))
  <2>1. \A s : \A z \in Precedence(s) : z = <<z[1], z[2]>>
    BY DEF Precedence
  <2>. QED
    BY <1>7, <2>1
<1>9. ASSUME Once(c)
      PROVE  Once(a) /\ Once(b) /\ Members(a) \cap Members(b) = {}
  <2>1. Once(a)
    BY <1>1, <1>2, <1>9 DEF Once
  <2>2. Once(b)
    <3> SUFFICES ASSUME NEW i \in 1 .. n, NEW j \in 1 .. n, b[i] = b[j], b[i] # NoPromise
                 PROVE  i = j
      BY DEF Once
    <3>1. m + i = m + j
      BY <1>1, <1>2, <1>9 DEF Once
    <3>. QED
      BY <1>1, <3>1
  <2>3. Members(a) \cap Members(b) = {}
    <3> SUFFICES ASSUME NEW x \in Members(a), x \in Members(b) PROVE FALSE
      OBVIOUS
    <3>1. PICK i \in 1 .. m : a[i] = x
      BY <1>5
    <3>2. PICK j \in 1 .. n : b[j] = x
      BY <1>6
    <3>3. x # NoPromise
      BY DEF Members
    <3>4. i = m + j
      BY <1>1, <1>2, <1>9, <3>1, <3>2, <3>3 DEF Once
    <3>. QED
      BY <1>1, <3>4
  <2>. QED
    BY <2>1, <2>2, <2>3
<1>10. ASSUME Once(a), Once(b), Members(a) \cap Members(b) = {}
       PROVE  Once(c)
  <2> SUFFICES ASSUME NEW i \in 1 .. m + n, NEW j \in 1 .. m + n, c[i] = c[j], c[i] # NoPromise
               PROVE  i = j
    BY <1>1 DEF Once
  <2>1. \A k \in 1 .. m : a[k] = c[i] => c[i] \in Members(a)
    BY DEF Members
  <2>2. \A k \in 1 .. n : b[k] = c[i] => c[i] \in Members(b)
    BY DEF Members
  <2>3. \/ i \in 1 .. m /\ a[i] = c[i]
        \/ \E k \in 1 .. n : i = m + k /\ b[k] = c[i]
    BY <1>3
  <2>4. \/ j \in 1 .. m /\ a[j] = c[i]
        \/ \E k \in 1 .. n : j = m + k /\ b[k] = c[i]
    BY <1>3
  <2>. QED
    BY <1>10, <2>1, <2>2, <2>3, <2>4 DEF Once
<1>. QED
  BY <1>4, <1>8, <1>9, <1>10 DEF c

LEMMA OneCap ==
  ASSUME NEW x \in Caps
  PROVE  /\ <<x>> \in Seq(Caps) /\ Once(<<x>>)
         /\ Members(<<x>>) = {x} \ {NoPromise}
         /\ Precedence(<<x>>) = {}
<1>1. <<x>> \in Seq(Caps) /\ Len(<<x>>) = 1 /\ <<x>>[1] = x
  OBVIOUS
<1>2. \A i \in 1 .. Len(<<x>>) : i = 1
  BY <1>1
<1>. QED
  BY <1>1, <1>2 DEF Once, Members, Precedence

(* The places of the queue, the stack and the lists of reactions.             *)
LEMMA CapTypes ==
  /\ \A job \in Jobs : JobCap(job) \in Caps
  /\ \A f \in Frames : FrameCap(f) \in Caps
  /\ \A r \in Reactions : r.cap \in Caps
BY DEF JobCap, FrameCap, Jobs, Frames, Reactions, Caps

LEMMA QueuedTypes ==
  ASSUME NEW q \in Seq(Jobs)
  PROVE  /\ QueuedCaps(q) \in Seq(Caps) /\ Len(QueuedCaps(q)) = Len(q)
         /\ \A i \in 1 .. Len(q) : QueuedCaps(q)[i] = JobCap(q[i])
<1>1. Len(q) \in Nat /\ \A i \in 1 .. Len(q) : JobCap(q[i]) \in Caps
  BY LenProperties, ElementOfSeq, CapTypes
<1>2. QueuedCaps(q) \in [1 .. Len(q) -> Caps]
  BY <1>1 DEF QueuedCaps
<1>3. QueuedCaps(q) \in Seq(Caps)
  BY <1>1, <1>2, SeqDef
<1>4. Len(QueuedCaps(q)) = Len(q)
  BY <1>1, <1>2, <1>3, LenProperties
<1>. QED
  BY <1>3, <1>4 DEF QueuedCaps

LEMMA HandledTypes ==
  ASSUME NEW s \in Seq(Frames)
  PROVE  /\ HandledCaps(s) \in Seq(Caps) /\ Len(HandledCaps(s)) = Len(s)
         /\ \A i \in 1 .. Len(s) : HandledCaps(s)[i] = FrameCap(s[i])
<1>1. Len(s) \in Nat /\ \A i \in 1 .. Len(s) : FrameCap(s[i]) \in Caps
  BY LenProperties, ElementOfSeq, CapTypes
<1>2. HandledCaps(s) \in [1 .. Len(s) -> Caps]
  BY <1>1 DEF HandledCaps
<1>3. HandledCaps(s) \in Seq(Caps)
  BY <1>1, <1>2, SeqDef
<1>4. Len(HandledCaps(s)) = Len(s)
  BY <1>1, <1>2, <1>3, LenProperties
<1>. QED
  BY <1>3, <1>4 DEF HandledCaps

LEMMA RegisteredTypes ==
  ASSUME NEW l \in Seq(Reactions)
  PROVE  /\ RegisteredCaps(l) \in Seq(Caps) /\ Len(RegisteredCaps(l)) = Len(l)
         /\ \A i \in 1 .. Len(l) : RegisteredCaps(l)[i] = l[i].cap
<1>1. Len(l) \in Nat /\ \A i \in 1 .. Len(l) : l[i].cap \in Caps
  BY LenProperties, ElementOfSeq, CapTypes
<1>2. RegisteredCaps(l) \in [1 .. Len(l) -> Caps]
  BY <1>1 DEF RegisteredCaps
<1>3. RegisteredCaps(l) \in Seq(Caps)
  BY <1>1, <1>2, SeqDef
<1>4. Len(RegisteredCaps(l)) = Len(l)
  BY <1>1, <1>2, <1>3, LenProperties
<1>. QED
  BY <1>3, <1>4 DEF RegisteredCaps

(* A join, place by place. *)
LEMMA JoinPlaces ==
  ASSUME NEW S, NEW a \in Seq(S), NEW b \in Seq(S)
  PROVE  /\ a \o b \in Seq(S) /\ Len(a \o b) = Len(a) + Len(b)
         /\ Len(a) \in Nat /\ Len(b) \in Nat
         /\ \A i \in 1 .. Len(a) : i \in 1 .. Len(a \o b) /\ (a \o b)[i] = a[i]
         /\ \A i \in 1 .. Len(b) : /\ Len(a) + i \in 1 .. Len(a \o b)
                                   /\ (a \o b)[Len(a) + i] = b[i]
<1>1. /\ a \o b \in Seq(S) /\ Len(a \o b) = Len(a) + Len(b)
      /\ Len(a) \in Nat /\ Len(b) \in Nat
      /\ \A i \in 1 .. Len(a) + Len(b) : (a \o b)[i] = IF i <= Len(a) THEN a[i] ELSE b[i - Len(a)]
  BY ConcatProperties, LenProperties
<1>2. ASSUME NEW i \in 1 .. Len(b)
      PROVE  Len(a) + i \in 1 .. Len(a \o b) /\ (a \o b)[Len(a) + i] = b[i]
  <2>1. Len(a) + i \in 1 .. Len(a) + Len(b) /\ ~(Len(a) + i <= Len(a)) /\ (Len(a) + i) - Len(a) = i
    BY <1>1
  <2>2. (a \o b)[Len(a) + i] = b[(Len(a) + i) - Len(a)]
    BY <1>1, <2>1
  <2>. QED
    BY <1>1, <2>1, <2>2
<1>. QED
  BY <1>1, <1>2

LEMMA IsJoin ==
  ASSUME NEW S, NEW a \in Seq(S), NEW b \in Seq(S), NEW c \in Seq(S), Len(c) = Len(a) + Len(b),
         \A i \in 1 .. Len(a) : c[i] = a[i], \A i \in 1 .. Len(b) : c[Len(a) + i] = b[i]
  PROVE  c = a \o b
<1> DEFINE d == a \o b
<1>1. /\ d \in Seq(S) /\ Len(d) = Len(a) + Len(b) /\ Len(a) \in Nat /\ Len(b) \in Nat
      /\ \A i \in 1 .. Len(a) : d[i] = a[i]
      /\ \A i \in 1 .. Len(b) : d[Len(a) + i] = b[i]
  BY JoinPlaces
<1> HIDE DEF d
<1>2. ASSUME NEW i \in 1 .. Len(c)
      PROVE  c[i] = d[i]
  <2>1. CASE i <= Len(a)
    <3>1. i \in 1 .. Len(a)
      BY <1>1, <2>1
    <3>. QED
      BY <1>1, <3>1
  <2>2. CASE ~(i <= Len(a))
    <3>1. i - Len(a) \in 1 .. Len(b) /\ i = Len(a) + (i - Len(a))
      BY <1>1, <2>2
    <3>2. c[Len(a) + (i - Len(a))] = d[Len(a) + (i - Len(a))]
      BY <1>1, <3>1
    <3>. QED
      BY <3>1, <3>2
  <2>. QED
    BY <2>1, <2>2
<1>3. c = d
  BY <1>1, <1>2, SeqEqual
<1>. QED
  BY <1>3 DEF d

LEMMA QueuedJoin ==
  ASSUME NEW q \in Seq(Jobs), NEW t \in Seq(Jobs)
  PROVE  QueuedCaps(q \o t) = QueuedCaps(q) \o QueuedCaps(t)
<1> DEFINE j == q \o t
<1>1. /\ j \in Seq(Jobs) /\ Len(j) = Len(q) + Len(t)
      /\ \A i \in 1 .. Len(q) : i \in 1 .. Len(j) /\ j[i] = q[i]
      /\ \A i \in 1 .. Len(t) : Len(q) + i \in 1 .. Len(j) /\ j[Len(q) + i] = t[i]
  BY JoinPlaces
<1> HIDE DEF j
<1> DEFINE a == QueuedCaps(q)
           b == QueuedCaps(t)
           c == QueuedCaps(j)
<1>2. /\ a \in Seq(Caps) /\ b \in Seq(Caps) /\ c \in Seq(Caps)
      /\ Len(a) = Len(q) /\ Len(b) = Len(t) /\ Len(c) = Len(q) + Len(t)
      /\ \A i \in 1 .. Len(q) : c[i] = a[i]
      /\ \A i \in 1 .. Len(t) : c[Len(q) + i] = b[i]
  BY <1>1, QueuedTypes
<1> HIDE DEF a, b, c
<1>3. /\ Len(c) = Len(a) + Len(b) /\ \A i \in 1 .. Len(a) : c[i] = a[i]
      /\ \A i \in 1 .. Len(b) : c[Len(a) + i] = b[i]
  BY <1>2
<1>4. c = a \o b
  BY <1>2, <1>3, IsJoin
<1>. QED
  BY <1>4 DEF j, a, b, c

LEMMA HandledJoin ==
  ASSUME NEW s \in Seq(Frames), NEW t \in Seq(Frames)
  PROVE  HandledCaps(s \o t) = HandledCaps(s) \o HandledCaps(t)
<1> DEFINE j == s \o t
<1>1. /\ j \in Seq(Frames) /\ Len(j) = Len(s) + Len(t)
      /\ \A i \in 1 .. Len(s) : i \in 1 .. Len(j) /\ j[i] = s[i]
      /\ \A i \in 1 .. Len(t) : Len(s) + i \in 1 .. Len(j) /\ j[Len(s) + i] = t[i]
  BY JoinPlaces
<1> HIDE DEF j
<1> DEFINE a == HandledCaps(s)
           b == HandledCaps(t)
           c == HandledCaps(j)
<1>2. /\ a \in Seq(Caps) /\ b \in Seq(Caps) /\ c \in Seq(Caps)
      /\ Len(a) = Len(s) /\ Len(b) = Len(t) /\ Len(c) = Len(s) + Len(t)
      /\ \A i \in 1 .. Len(s) : c[i] = a[i]
      /\ \A i \in 1 .. Len(t) : c[Len(s) + i] = b[i]
  BY <1>1, HandledTypes
<1> HIDE DEF a, b, c
<1>3. /\ Len(c) = Len(a) + Len(b) /\ \A i \in 1 .. Len(a) : c[i] = a[i]
      /\ \A i \in 1 .. Len(b) : c[Len(a) + i] = b[i]
  BY <1>2
<1>4. c = a \o b
  BY <1>2, <1>3, IsJoin
<1>. QED
  BY <1>4 DEF j, a, b, c

LEMMA OneFrame ==
  ASSUME NEW f \in Frames
  PROVE  <<f>> \in Seq(Frames) /\ HandledCaps(<<f>>) = <<FrameCap(f)>>
<1> DEFINE t == <<f>>
           c == <<FrameCap(f)>>
<1>1. t \in Seq(Frames) /\ Len(t) = 1 /\ t[1] = f
  OBVIOUS
<1>2. c \in Seq(Caps) /\ Len(c) = 1 /\ c[1] = FrameCap(f)
  BY CapTypes
<1> HIDE DEF t, c
<1>3. /\ HandledCaps(t) \in Seq(Caps) /\ Len(HandledCaps(t)) = 1
      /\ HandledCaps(t)[1] = FrameCap(f)
  BY <1>1, HandledTypes
<1>4. \A i \in 1 .. 1 : HandledCaps(t)[i] = c[i]
  BY <1>2, <1>3
<1>5. HandledCaps(t) = c
  BY <1>2, <1>3, <1>4, SeqEqual
<1>. QED
  BY <1>1, <1>5 DEF t, c

LEMMA OneJob ==
  ASSUME NEW job \in Jobs
  PROVE  <<job>> \in Seq(Jobs) /\ QueuedCaps(<<job>>) = <<JobCap(job)>>
<1> DEFINE t == <<job>>
           c == <<JobCap(job)>>
<1>1. t \in Seq(Jobs) /\ Len(t) = 1 /\ t[1] = job
  OBVIOUS
<1>3. c \in Seq(Caps) /\ Len(c) = 1 /\ c[1] = JobCap(job)
  BY CapTypes
<1> HIDE DEF t, c
<1>2. /\ QueuedCaps(t) \in Seq(Caps) /\ Len(QueuedCaps(t)) = 1
      /\ QueuedCaps(t)[1] = JobCap(job)
  BY <1>1, QueuedTypes
<1>4. \A i \in 1 .. 1 : QueuedCaps(t)[i] = c[i]
  BY <1>2, <1>3
<1>5. QueuedCaps(t) = c
  BY <1>2, <1>3, <1>4, SeqEqual
<1>. QED
  BY <1>1, <1>5 DEF t, c

LEMMA QueuedAppend ==
  ASSUME NEW q \in Seq(Jobs), NEW job \in Jobs
  PROVE  QueuedCaps(Append(q, job)) = QueuedCaps(q) \o <<JobCap(job)>>
<1> DEFINE t == <<job>>
<1>1. t \in Seq(Jobs) /\ QueuedCaps(t) = <<JobCap(job)>>
  BY OneJob
<1>2. Append(q, job) = q \o t
  BY AppendIsConcat
<1> HIDE DEF t
<1>3. QueuedCaps(q \o t) = QueuedCaps(q) \o QueuedCaps(t)
  BY <1>1, QueuedJoin
<1>. QED
  BY <1>1, <1>2, <1>3

LEMMA HeadAndTail ==
  ASSUME NEW S, NEW s \in Seq(S), s # <<>>
  PROVE  s = <<Head(s)>> \o Tail(s) /\ Head(s) \in S /\ Tail(s) \in Seq(S) /\ Head(s) = s[1]
<1>1. /\ Head(s) \in S /\ Head(s) = s[1] /\ Tail(s) \in Seq(S) /\ Len(Tail(s)) = Len(s) - 1
      /\ Len(s) \in Nat /\ \A i \in 1 .. Len(Tail(s)) : Tail(s)[i] = s[i + 1]
  BY TailProperties
<1> DEFINE h == <<Head(s)>>
           t == Tail(s)
<1>2. h \in Seq(S) /\ Len(h) = 1 /\ h[1] = s[1]
  BY <1>1
<1>3. t \in Seq(S) /\ Len(t) = Len(s) - 1 /\ \A i \in 1 .. Len(t) : t[i] = s[i + 1]
  BY <1>1
<1> HIDE DEF h, t
<1>4. /\ Len(s) = Len(h) + Len(t) /\ \A i \in 1 .. Len(h) : s[i] = h[i]
      /\ \A i \in 1 .. Len(t) : s[Len(h) + i] = t[i]
  <2>1. \A i \in 1 .. Len(t) : Len(h) + i = i + 1
    BY <1>1, <1>2, <1>3
  <2>. QED
    BY <1>1, <1>2, <1>3, <2>1
<1>5. s = h \o t
  BY <1>2, <1>3, <1>4, IsJoin
<1>. QED
  BY <1>1, <1>5 DEF h, t

LEMMA QueuedHead ==
  ASSUME NEW q \in Seq(Jobs), q # <<>>
  PROVE  QueuedCaps(q) = <<JobCap(Head(q))>> \o QueuedCaps(Tail(q))
<1>1. q = <<Head(q)>> \o Tail(q) /\ Head(q) \in Jobs /\ Tail(q) \in Seq(Jobs)
  BY HeadAndTail
<1>2. QueuedCaps(<<Head(q)>> \o Tail(q)) = <<JobCap(Head(q))>> \o QueuedCaps(Tail(q))
  BY <1>1, OneJob, QueuedJoin
<1>. QED
  BY <1>1, <1>2

(* What dequeuing, pushing, popping and unwinding do to the reactions.       *)
LEMMA MembersTypes ==
  ASSUME NEW a \in Seq(Caps)
  PROVE  /\ Members(a) \subseteq Promises /\ NoPromise \notin Members(a)
         /\ Precedence(a) \subseteq Members(a) \X Members(a)
<1>1. \A i \in 1 .. Len(a) : a[i] \in Caps
  BY ElementOfSeq
<1>2. Members(a) \subseteq Promises
  BY <1>1 DEF Members, Caps
<1>. QED
  BY <1>2 DEF Members, Precedence

LEMMA Dequeued ==
  ASSUME NEW q \in Seq(Jobs), q # <<>>, Once(QueuedCaps(q)), NEW r, r = JobCap(Head(q))
  PROVE  LET caps == QueuedCaps(q)
             rest == QueuedCaps(Tail(q))
         IN /\ Once(rest) /\ Members(rest) = Members(caps) \ {r}
            /\ Precedence(rest) = {pair \in Precedence(caps) : pair[1] # r /\ pair[2] # r}
            /\ r # NoPromise => r \in Members(caps) /\ \A pair \in Precedence(caps) : pair[2] # r
<1> DEFINE caps == QueuedCaps(q)
           rest == QueuedCaps(Tail(q))
           one == <<r>>
<1>1. caps = one \o rest /\ Head(q) \in Jobs /\ Tail(q) \in Seq(Jobs) /\ r \in Caps
  BY QueuedHead, HeadAndTail, CapTypes
<1>2. rest \in Seq(Caps)
  BY <1>1, QueuedTypes
<1>3. /\ one \in Seq(Caps) /\ Once(one)
      /\ Members(one) = {r} \ {NoPromise} /\ Precedence(one) = {}
  BY <1>1, OneCap
<1> HIDE DEF caps, rest, one
<1>4. /\ Members(caps) = Members(one) \cup Members(rest)
      /\ Precedence(caps) = Precedence(one) \cup Precedence(rest) \cup (Members(one) \X Members(rest))
      /\ Once(rest) /\ Members(one) \cap Members(rest) = {}
  BY <1>1, <1>2, <1>3, JoinCaps DEF caps
<1>5. /\ NoPromise \notin Members(rest) /\ Precedence(rest) \subseteq Members(rest) \X Members(rest)
  BY <1>2, MembersTypes
<1>6. r \notin Members(rest)
  BY <1>3, <1>4, <1>5
<1>7. \A pair \in Precedence(rest) : pair[1] # r /\ pair[2] # r
  BY <1>5, <1>6
<1>8. \A pair \in Members(one) \X Members(rest) : pair[1] = r /\ pair[2] # r
  BY <1>3, <1>6
<1>9. Precedence(rest) = {pair \in Precedence(caps) : pair[1] # r /\ pair[2] # r}
  BY <1>3, <1>4, <1>7, <1>8
<1>10. Members(rest) = Members(caps) \ {r}
  BY <1>3, <1>4, <1>5, <1>6
<1>11. r # NoPromise => r \in Members(caps) /\ \A pair \in Precedence(caps) : pair[2] # r
  BY <1>3, <1>4, <1>7, <1>8
<1>. QED
  BY <1>4, <1>9, <1>10, <1>11 DEF caps, rest

LEMMA Pushed ==
  ASSUME NEW f \in Frames, NEW s \in Seq(Frames), NEW c, c = FrameCap(f)
  PROVE  /\ Members(HandledCaps(Push(f, s))) = Members(HandledCaps(s)) \cup ({c} \ {NoPromise})
         /\ Once(HandledCaps(Push(f, s))) <=>
              Once(HandledCaps(s)) /\ c \notin Members(HandledCaps(s))
<1> DEFINE one == <<f>>
           oneCap == <<c>>
           caps == HandledCaps(s)
           all == HandledCaps(Push(f, s))
<1>1. one \in Seq(Frames) /\ HandledCaps(one) = oneCap /\ c \in Caps
  BY OneFrame, CapTypes
<1>2. caps \in Seq(Caps)
  BY HandledTypes
<1>3. /\ oneCap \in Seq(Caps) /\ Once(oneCap)
      /\ Members(oneCap) = {c} \ {NoPromise}
  BY <1>1, OneCap
<1>4. Push(f, s) = one \o s
  BY DEF Push
<1> HIDE DEF one, oneCap
<1>5. all = oneCap \o caps
  BY <1>1, <1>4, HandledJoin
<1> HIDE DEF caps, all
<1>6. /\ Members(all) = Members(oneCap) \cup Members(caps)
      /\ Once(all) <=> Once(oneCap) /\ Once(caps) /\ Members(oneCap) \cap Members(caps) = {}
  BY <1>2, <1>3, <1>5, JoinCaps
<1>7. NoPromise \notin Members(caps)
  BY <1>2, MembersTypes
<1>8. Members(oneCap) \cap Members(caps) = {} <=> c \notin Members(caps)
  BY <1>3, <1>7
<1>. QED
  BY <1>3, <1>6, <1>8 DEF caps, all

LEMMA Popped ==
  ASSUME NEW s \in Seq(Frames), s # <<>>, Once(HandledCaps(s)), NEW c, c = FrameCap(s[1])
  PROVE  /\ Once(HandledCaps(Tail(s)))
         /\ Members(HandledCaps(Tail(s))) = Members(HandledCaps(s)) \ {c}
         /\ c # NoPromise => c \in Members(HandledCaps(s))
<1> DEFINE t == Tail(s)
           f == s[1]
<1>1. s = Push(f, t) /\ f \in Frames /\ t \in Seq(Frames)
  BY HeadAndTail DEF Push
<1>2. NoPromise \notin Members(HandledCaps(t))
  BY <1>1, HandledTypes, MembersTypes
<1> HIDE DEF t, f
<1>3. /\ Members(HandledCaps(s)) = Members(HandledCaps(t)) \cup ({c} \ {NoPromise})
      /\ Once(HandledCaps(t)) /\ c \notin Members(HandledCaps(t))
  <2>1. c = FrameCap(f)
    BY DEF f
  <2>2. /\ Members(HandledCaps(Push(f, t))) = Members(HandledCaps(t)) \cup ({c} \ {NoPromise})
        /\ Once(HandledCaps(Push(f, t))) <=>
             Once(HandledCaps(t)) /\ c \notin Members(HandledCaps(t))
    BY <1>1, <2>1, Pushed
  <2>. QED
    BY <1>1, <2>2
<1>. QED
  BY <1>2, <1>3 DEF t

LEMMA Cut ==
  ASSUME NEW s \in Seq(Frames), NEW k \in 1 .. Len(s), Once(HandledCaps(s))
  PROVE  LET t == SubSeq(s, k + 1, Len(s))
         IN Once(HandledCaps(t)) /\ Members(HandledCaps(t)) \subseteq Members(HandledCaps(s))
<1> DEFINE t == SubSeq(s, k + 1, Len(s))
<1>1. /\ t \in Seq(Frames) /\ Len(t) = Len(s) - k /\ Len(s) \in Nat
      /\ \A i \in 1 .. Len(s) - k : t[i] = s[k + i]
  BY SuffixProperties, LenProperties
<1> HIDE DEF t
<1>2. \A i \in 1 .. Len(t) : k + i \in 1 .. Len(s) /\ t[i] = s[k + i]
  BY <1>1
<1> DEFINE a == HandledCaps(s)
           b == HandledCaps(t)
<1>3. /\ Len(a) = Len(s) /\ Len(b) = Len(t)
      /\ \A i \in 1 .. Len(t) : k + i \in 1 .. Len(s) /\ b[i] = a[k + i]
  BY <1>1, <1>2, HandledTypes
<1> HIDE DEF a, b
<1>4. Members(b) \subseteq Members(a)
  BY <1>3 DEF Members
<1>5. Once(b)
  <2> SUFFICES ASSUME NEW i \in 1 .. Len(b), NEW j \in 1 .. Len(b), b[i] = b[j], b[i] # NoPromise
               PROVE  i = j
    BY DEF Once
  <2>1. k + i = k + j
    BY <1>3 DEF Once, a
  <2>. QED
    BY <1>1, <1>3, <2>1
<1>. QED
  BY <1>4, <1>5 DEF t, a, b

(* A list of reactions is in the order of their registration.                *)
Rising(caps) ==
  \A i, j \in 1 .. Len(caps) :
    i < j /\ caps[i] # NoPromise /\ caps[j] # NoPromise => caps[i] < caps[j]

LEMMA RisingOrder ==
  ASSUME NEW a \in Seq(Caps), Rising(a)
  PROVE  /\ Once(a)
         /\ Precedence(a) = {pair \in Members(a) \X Members(a) : pair[1] < pair[2]}
<1>1. /\ Len(a) \in Nat /\ \A i \in 1 .. Len(a) : a[i] \in Nat
      /\ \A i, j \in 1 .. Len(a) : i < j \/ i = j \/ j < i
  BY LenProperties, ElementOfSeq, BoundsAssumption DEF Caps, Promises, NoPromise
<1>2. Once(a)
  <2> SUFFICES ASSUME NEW i \in 1 .. Len(a), NEW j \in 1 .. Len(a), a[i] = a[j], a[i] # NoPromise
               PROVE  i = j
    BY DEF Once
  <2>1. a[i] \in Nat /\ a[j] \in Nat /\ ~(a[i] < a[j]) /\ ~(a[j] < a[i])
    BY <1>1
  <2>2. ~(i < j) /\ ~(j < i)
    BY <2>1 DEF Rising
  <2>. QED
    BY <1>1, <2>2
<1>3. ASSUME NEW pair \in Members(a) \X Members(a)
      PROVE  pair \in Precedence(a) <=> pair[1] < pair[2]
  <2>1. PICK x, y : x = pair[1] /\ y = pair[2] /\ x \in Members(a) /\ y \in Members(a)
    BY <1>3
  <2>2. PICK i \in 1 .. Len(a) : a[i] = x /\ x # NoPromise
    BY <2>1 DEF Members
  <2>3. PICK j \in 1 .. Len(a) : a[j] = y /\ y # NoPromise
    BY <2>1 DEF Members
  <2>4. x \in Nat /\ y \in Nat
    BY <1>1, <2>2, <2>3
  <2>5. \A l \in 1 .. Len(a) : (a[l] = x => l = i) /\ (a[l] = y => l = j)
    BY <1>2, <2>2, <2>3 DEF Once
  <2>6. pair \in Precedence(a) <=> i < j
    BY <2>1, <2>2, <2>3, <2>5 DEF Precedence
  <2>7. (i < j => x < y) /\ (j < i => y < x) /\ (i = j => x = y)
    BY <2>2, <2>3 DEF Rising
  <2>8. i < j <=> x < y
    BY <1>1, <2>4, <2>7
  <2>. QED
    BY <2>1, <2>6, <2>8
<1>4. Precedence(a) \subseteq Members(a) \X Members(a)
  BY MembersTypes
<1>. QED
  BY <1>2, <1>3, <1>4

LEMMA RegisteredOne ==
  ASSUME NEW l \in Seq(Reactions), NEW r \in Reactions, Rising(RegisteredCaps(l)),
         \A c \in Members(RegisteredCaps(l)) : r.cap # NoPromise => c < r.cap
  PROVE  LET more == RegisteredCaps(Append(l, r))
         IN /\ Rising(more)
            /\ Members(more) = Members(RegisteredCaps(l)) \cup ({r.cap} \ {NoPromise})
<1> DEFINE k == Append(l, r)
           a == RegisteredCaps(l)
           b == RegisteredCaps(k)
           n == Len(l)
<1>1. /\ k \in Seq(Reactions) /\ Len(k) = n + 1 /\ n \in Nat
      /\ \A i \in 1 .. n : k[i] = l[i]
      /\ k[n + 1] = r
  BY AppendProperties, LenProperties
<1>2. /\ Len(a) = n /\ Len(b) = Len(k)
      /\ \A i \in 1 .. n : a[i] = l[i].cap
      /\ \A i \in 1 .. Len(k) : b[i] = k[i].cap
  BY <1>1, RegisteredTypes
<1> HIDE DEF k, a, b
<1>3. /\ \A i \in 1 .. n : i \in 1 .. n + 1 /\ b[i] = a[i]
      /\ b[n + 1] = r.cap /\ n + 1 \in 1 .. n + 1 /\ Len(b) = n + 1 /\ Len(a) = n
      /\ \A i \in 1 .. n + 1 : i \in 1 .. n \/ i = n + 1
      /\ \A i, j \in 1 .. n + 1 : i < j => i \in 1 .. n /\ i # n + 1
  BY <1>1, <1>2
<1>4. Members(b) = Members(a) \cup ({r.cap} \ {NoPromise})
  <2>1. \A x : x \in Members(b) <=> x # NoPromise /\ \E i \in 1 .. n + 1 : x = b[i]
    BY <1>3 DEF Members
  <2>2. \A x : x \in Members(a) <=> x # NoPromise /\ \E i \in 1 .. n : x = a[i]
    BY <1>3 DEF Members
  <2>. QED
    BY <1>3, <2>1, <2>2
<1>5. Rising(b)
  <2> SUFFICES ASSUME NEW i \in 1 .. n + 1, NEW j \in 1 .. n + 1, i < j,
                      b[i] # NoPromise, b[j] # NoPromise
               PROVE  b[i] < b[j]
    BY <1>3 DEF Rising
  <2>1. i \in 1 .. n /\ b[i] = a[i]
    BY <1>3
  <2>2. CASE j = n + 1
    <3>1. a[i] \in Members(a)
      BY <1>3, <2>1 DEF Members
    <3>. QED
      BY <1>3, <2>1, <2>2, <3>1 DEF a
  <2>3. CASE j \in 1 .. n
    BY <1>3, <2>1, <2>3 DEF Rising, a
  <2>. QED
    BY <1>3, <2>2, <2>3
<1>. QED
  BY <1>4, <1>5 DEF k, a, b

(* Settling hands a whole list to the queue, in its order.                    *)
LEMMA TriggeredCaps ==
  ASSUME NEW l \in Seq(Reactions), NEW kind \in {"Fulfill", "Reject"}, NEW v \in Values
  PROVE  /\ TriggerPromiseReactions(kind, l, v) \in Seq(Jobs)
         /\ QueuedCaps(TriggerPromiseReactions(kind, l, v)) = RegisteredCaps(l)
<1> DEFINE t == TriggerPromiseReactions(kind, l, v)
<1>1. Len(l) \in Nat /\ \A i \in 1 .. Len(l) : ReactionJob(kind, l[i], v) \in Jobs
  BY LenProperties, ElementOfSeq, RecordTypes
<1>2. /\ t \in Seq(Jobs) /\ Len(t) = Len(l)
      /\ \A i \in 1 .. Len(l) : t[i] = ReactionJob(kind, l[i], v)
  BY <1>1 DEF TriggerPromiseReactions
<1> HIDE DEF t
<1>3. \A i \in 1 .. Len(l) : JobCap(t[i]) = l[i].cap
  <2>1. \A r : /\ ReactionJob(kind, r, v).kind # "Thenable"
               /\ ReactionJob(kind, r, v).cap = r.cap
    BY DEF ReactionJob
  <2>. QED
    BY <1>2, <2>1 DEF JobCap
<1>4. QueuedCaps(t) = RegisteredCaps(l)
  BY <1>2, <1>3 DEF QueuedCaps, RegisteredCaps
<1>. QED
  BY <1>2, <1>4 DEF t

-----------------------------------------------------------------------------
(* Each reaction is in one place.                                             *)

Placed ==
  /\ Once(QueuedCaps(queue)) /\ Once(HandledCaps(stack))
  /\ \A q \in Promises : Rising(RegisteredCaps(fulfillReactions[q]))
  /\ Ready \subseteq Derived /\ Running \subseteq Derived /\ Ready \cap Running = {}
  /\ \A q \in Promises : Waiting[q] \cap (Ready \cup Running) = {}

LEMMA WaitingFacts ==
  ASSUME Facts
  PROVE  \A q \in Promises :
           /\ fulfillReactions[q] \in Seq(Reactions) /\ rejectReactions[q] \in Seq(Reactions)
           /\ RegisteredCaps(rejectReactions[q]) = RegisteredCaps(fulfillReactions[q])
           /\ Waiting[q] = Members(RegisteredCaps(fulfillReactions[q]))
           /\ \A d \in Waiting[q] : d \in Derived /\ d \in 1 .. created /\ origin[d].source = q
<1> SUFFICES ASSUME NEW q \in Promises
             PROVE  /\ fulfillReactions[q] \in Seq(Reactions) /\ rejectReactions[q] \in Seq(Reactions)
                    /\ RegisteredCaps(rejectReactions[q]) = RegisteredCaps(fulfillReactions[q])
                    /\ Waiting[q] = Members(RegisteredCaps(fulfillReactions[q]))
                    /\ \A d \in Waiting[q] : d \in Derived /\ d \in 1 .. created /\ origin[d].source = q
  OBVIOUS
<1> DEFINE f == fulfillReactions[q]
           r == rejectReactions[q]
<1>1. f \in Seq(Reactions) /\ r \in Seq(Reactions)
  BY DEF Facts, Inv, TypeOK
<1>2. Len(f) = Len(r) /\ \A i \in 1 .. Len(f) : ReactionsOK(q, f[i], r[i])
  BY DEF Facts, Shape, Lists
<1>3. Waiting[q] = Members(RegisteredCaps(f))
  BY DEF Waiting
<1> HIDE DEF f, r
<1>4. RegisteredCaps(r) = RegisteredCaps(f)
  BY <1>2, Zenon DEF RegisteredCaps, ReactionsOK
<1>5. \A i \in 1 .. Len(f) : f[i].cap = NoPromise \/ (f[i].cap \in 1 .. created /\ origin[f[i].cap].source = q)
  BY <1>2 DEF ReactionsOK
<1>6. ASSUME NEW d \in Members(RegisteredCaps(f))
      PROVE  d \in Derived /\ d \in 1 .. created /\ origin[d].source = q
  <2>1. PICK i \in 1 .. Len(f) : d = f[i].cap /\ d # NoPromise
    BY <1>1, RegisteredTypes DEF Members
  <2>2. d \in 1 .. created /\ origin[d].source = q
    BY <1>5, <2>1
  <2>3. d \in Promises /\ q # NoPromise
    BY <2>2, BoundsAssumption DEF Facts, Inv, TypeOK, Promises, NoPromise
  <2>. QED
    BY <2>2, <2>3 DEF Derived
<1>. QED
  BY <1>1, <1>3, <1>4, <1>6 DEF f, r

-----------------------------------------------------------------------------
(* Calls of resolving functions.  q and s are what is left of the queue and   *)
(* the stack without the job or the frame that calls.                         *)

Rest(q, s) ==
  /\ q \in Seq(Jobs) /\ Once(QueuedCaps(q)) /\ Members(QueuedCaps(q)) \subseteq Ready
  /\ s \in Seq(Frames) /\ Once(HandledCaps(s)) /\ Members(HandledCaps(s)) \subseteq Running
Wakes(Q, q, s) ==
  /\ Lifecycle!Trigger(Q, Members(QueuedCaps(q)), Precedence(QueuedCaps(q)))
  /\ Once(QueuedCaps(queue')) /\ Once(HandledCaps(stack'))
  /\ Running' = Members(HandledCaps(s))
  /\ \A r \in Promises : Rising(RegisteredCaps(fulfillReactions'[r]))

LEMMA SameWaiting ==
  ASSUME UNCHANGED <<state, fulfillReactions>>
  PROVE  /\ Waiting' = Waiting /\ Settled' = Settled
         /\ Placed => \A r \in Promises : Rising(RegisteredCaps(fulfillReactions'[r]))
BY DEF Waiting, Settled, Placed

LEMMA NobodyWakes ==
  ASSUME Placed, NEW q, NEW s, Rest(q, s), UNCHANGED <<state, fulfillReactions>>,
         Members(QueuedCaps(queue')) = Members(QueuedCaps(q)), Once(QueuedCaps(queue')),
         Precedence(QueuedCaps(queue')) = Precedence(QueuedCaps(q)),
         Members(HandledCaps(stack')) = Members(HandledCaps(s)), Once(HandledCaps(stack'))
  PROVE  Wakes({}, q, s)
<1>1. Lifecycle!Woken({}) = {}
  BY DEF Lifecycle!Woken
<1>2. Waiting = [r \in Promises |-> Waiting[r]]
  BY DEF Waiting
<1>3. Waiting' = [r \in Promises |-> IF r \in {} THEN {} ELSE Waiting[r]]
  BY <1>2, SameWaiting
<1>4. Ready' = Members(QueuedCaps(q)) /\ Ahead' = Precedence(QueuedCaps(q))
  BY DEF Ready, Ahead
<1>5. Lifecycle!Trigger({}, Members(QueuedCaps(q)), Precedence(QueuedCaps(q)))
  BY <1>1, <1>3, <1>4, SameWaiting DEF Lifecycle!Trigger
<1>. QED
  BY <1>5, SameWaiting DEF Wakes, Running

LEMMA SettleWakes ==
  ASSUME Facts, Placed, NEW p \in Promises, state[p] = "Pending", NEW v \in Values,
         NEW outcome \in {"Fulfilled", "Rejected"}, NEW kind \in {"Fulfill", "Reject"},
         NEW l \in {fulfillReactions[p], rejectReactions[p]},
         NEW q, NEW s, Rest(q, s), Settle(p, outcome, kind, l, v, q), stack' = s
  PROVE  Wakes({p}, q, s)
<1> DEFINE c == RegisteredCaps(l)
           t == TriggerPromiseReactions(kind, l, v)
           a == QueuedCaps(q)
           W == Waiting[p]
<1>1. /\ fulfillReactions' = [fulfillReactions EXCEPT ![p] = <<>>]
      /\ queue' = q \o t
  BY DEF Settle
<1>2. l \in Seq(Reactions) /\ c = RegisteredCaps(fulfillReactions[p]) /\ W = Members(c)
  BY WaitingFacts
<1>3. c \in Seq(Caps) /\ Rising(c)
  BY <1>2, RegisteredTypes DEF Placed
<1>4. t \in Seq(Jobs) /\ QueuedCaps(t) = c /\ q \in Seq(Jobs) /\ a \in Seq(Caps)
  BY <1>2, TriggeredCaps, QueuedTypes DEF Rest
<1> HIDE DEF c, t, a
<1>5. QueuedCaps(queue') = a \o c
  BY <1>1, <1>4, QueuedJoin DEF a
<1>6. Once(c) /\ Precedence(c) = {pair \in W \X W : pair[1] < pair[2]}
  BY <1>2, <1>3, RisingOrder
<1>7. Once(a) /\ Members(a) \cap W = {}
  BY DEF Rest, Placed, a
<1>8. /\ Members(QueuedCaps(queue')) = Members(a) \cup W
      /\ Precedence(QueuedCaps(queue')) = Precedence(a) \cup (Members(a) \X W)
                                          \cup {pair \in W \X W : pair[1] < pair[2]}
      /\ Once(QueuedCaps(queue'))
  <2>1. /\ Members(a \o c) = Members(a) \cup Members(c)
        /\ Precedence(a \o c) = Precedence(a) \cup Precedence(c) \cup (Members(a) \X Members(c))
        /\ Once(a \o c) <=> Once(a) /\ Once(c) /\ Members(a) \cap Members(c) = {}
    BY <1>3, <1>4, JoinCaps
  <2>. QED
    BY <1>2, <1>5, <1>6, <1>7, <2>1
<1>9. /\ \A r \in Promises : r # p => fulfillReactions'[r] = fulfillReactions[r]
      /\ fulfillReactions'[p] = <<>>
  BY <1>1 DEF Facts, Inv, TypeOK
<1>10. Members(RegisteredCaps(<<>>)) = {} /\ Rising(RegisteredCaps(<<>>))
  BY DEF Members, RegisteredCaps, Rising
<1>11. \A r \in Promises : Rising(RegisteredCaps(fulfillReactions'[r]))
  BY <1>9, <1>10 DEF Placed
<1>12. Waiting' = [r \in Promises |-> IF r \in {p} THEN {} ELSE Waiting[r]]
  BY <1>9, <1>10 DEF Waiting
<1>13. Lifecycle!Woken({p}) = W
  BY DEF Lifecycle!Woken
<1>14. {p} \cap Settled = {} /\ Settled' = Settled \cup {p}
  <2>1. state' = [state EXCEPT ![p] = outcome] /\ state \in [Promises -> {"Pending", "Fulfilled", "Rejected"}]
    BY DEF Settle, Facts, Inv, TypeOK
  <2>. QED
    BY <2>1 DEF Settled
<1>15. Lifecycle!Trigger({p}, Members(a), Precedence(a))
  BY <1>8, <1>12, <1>13, <1>14 DEF Lifecycle!Trigger, Ready, Ahead
<1>16. Running' = Members(HandledCaps(s)) /\ Once(HandledCaps(stack'))
  BY DEF Running, Rest
<1>. QED
  BY <1>8, <1>11, <1>15, <1>16 DEF Wakes, a

LEMMA NoCap ==
  ASSUME NEW a \in Seq(Caps), NEW b, b = <<NoPromise>>
  PROVE  /\ Members(a \o b) = Members(a) /\ Precedence(a \o b) = Precedence(a)
         /\ Once(a \o b) <=> Once(a)
<1>1. NoPromise \in Caps
  BY DEF Caps
<1>2. b \in Seq(Caps) /\ Once(b) /\ Members(b) = {} /\ Precedence(b) = {}
  BY <1>1, OneCap
<1>3. /\ Members(a \o b) = Members(a) \cup Members(b)
      /\ Precedence(a \o b) = Precedence(a) \cup Precedence(b) \cup (Members(a) \X Members(b))
      /\ Once(a \o b) <=> Once(a) /\ Once(b) /\ Members(a) \cap Members(b) = {}
  BY <1>2, JoinCaps
<1>4. Members(a) \X {} = {}
  OBVIOUS
<1>. QED
  BY <1>2, <1>3, <1>4

LEMMA EnqueueWakes ==
  ASSUME Placed, NEW p \in Promises, NEW x \in Promises \cup Objects, NEW q, NEW s, Rest(q, s),
         EnqueueThenableJob(p, x, q), stack' = s
  PROVE  Wakes({}, q, s)
<1> DEFINE job == ThenableJob(p, x)
           a == QueuedCaps(q)
<1>1. job \in Jobs /\ JobCap(job) = NoPromise
  BY RecordTypes DEF ThenableJob, JobCap
<1>2. queue' = Append(q, job) /\ UNCHANGED <<state, fulfillReactions>>
  BY DEF EnqueueThenableJob, promiseVars
<1> HIDE DEF job
<1>3. QueuedCaps(queue') = a \o <<NoPromise>> /\ a \in Seq(Caps)
  BY <1>1, <1>2, QueuedAppend, QueuedTypes DEF Rest
<1>4. /\ Members(QueuedCaps(queue')) = Members(a) /\ Precedence(QueuedCaps(queue')) = Precedence(a)
      /\ Once(QueuedCaps(queue'))
  BY <1>3, NoCap DEF Rest
<1>. QED
  BY <1>2, <1>4, NobodyWakes DEF Rest

LEMMA PushWakes ==
  ASSUME Placed, NEW q, NEW s, Rest(q, s), NEW f \in Frames, f.kind # "handler",
         queue' = q, stack' = Push(f, s), UNCHANGED <<state, fulfillReactions>>
  PROVE  Wakes({}, q, s)
<1>1. FrameCap(f) = NoPromise
  BY DEF FrameCap
<1>2. NoPromise \notin Members(HandledCaps(s))
  BY DEF Members
<1>3. Members(HandledCaps(stack')) = Members(HandledCaps(s)) /\ Once(HandledCaps(stack'))
  <2>1. s \in Seq(Frames) /\ Once(HandledCaps(s))
    BY DEF Rest
  <2>2. /\ Members(HandledCaps(Push(f, s))) = Members(HandledCaps(s)) \cup ({NoPromise} \ {NoPromise})
        /\ Once(HandledCaps(Push(f, s))) <=>
             Once(HandledCaps(s)) /\ NoPromise \notin Members(HandledCaps(s))
    BY <1>1, <2>1, Pushed
  <2>. QED
    BY <1>2, <2>1, <2>2
<1>. QED
  BY <1>3, NobodyWakes DEF Rest

LEMMA SameWakes ==
  ASSUME Placed, NEW q, NEW s, Rest(q, s), queue' = q, stack' = s, UNCHANGED <<state, fulfillReactions>>
  PROVE  Wakes({}, q, s)
BY NobodyWakes DEF Rest

LEMMA ResolveWakes ==
  ASSUME Facts, Placed, NEW p \in Promises, state[p] = "Pending", NEW x \in Values,
         NEW q, NEW s, Rest(q, s), Resolve(p, x, q, s)
  PROVE  \E Q \in Lifecycle!AtMostOne : Wakes(Q, q, s)
<1>0. {} \in Lifecycle!AtMostOne /\ {p} \in Lifecycle!AtMostOne
  BY DEF Lifecycle!AtMostOne
<1>1. CASE x = p /\ RejectPromise(p, SelfResolution, q) /\ stack' = s
  <2>1. SelfResolution \in Values
    BY DEF Values
  <2>. QED
    BY <1>0, <1>1, <2>1, SettleWakes DEF RejectPromise
<1>2. CASE x \in Plain \cup {SelfResolution} /\ FulfillPromise(p, x, q) /\ stack' = s
  BY <1>0, <1>2, SettleWakes DEF FulfillPromise
<1>3. CASE x \in Promises \ {p} /\ EnqueueThenableJob(p, x, q) /\ stack' = s
  BY <1>0, <1>3, EnqueueWakes
<1>4. CASE /\ x \in Objects
           /\ stack' = Push(Frame("getthen", p, 0, x), s)
           /\ queue' = q
           /\ UNCHANGED <<promiseVars, faulted>>
  <2> DEFINE f == Frame("getthen", p, 0, x)
  <2>1. f \in Frames /\ f.kind = "getthen"
    BY <1>4, RecordTypes DEF Frame
  <2>2. stack' = Push(f, s) /\ queue' = q /\ UNCHANGED <<state, fulfillReactions>>
    BY <1>4 DEF promiseVars
  <2> HIDE DEF f
  <2>. QED
    BY <1>0, <2>1, <2>2, PushWakes
<1>. QED
  BY <1>1, <1>2, <1>3, <1>4 DEF Resolve

LEMMA CallWakes ==
  ASSUME Facts, Placed, NEW pair, NEW x \in Values, NEW q, NEW s, Rest(q, s),
         CallResolve(pair, x, q, s) \/ CallReject(pair, x, q, s)
  PROVE  \E Q \in Lifecycle!AtMostOne : Wakes(Q, q, s)
<1>1. CASE pair \notin live
  <2>1. queue' = q /\ stack' = s /\ UNCHANGED <<state, fulfillReactions>>
    BY <1>1 DEF CallResolve, CallReject, AlreadyResolved, promiseVars
  <2>2. {} \in Lifecycle!AtMostOne
    BY DEF Lifecycle!AtMostOne
  <2>. QED
    BY <2>1, <2>2, SameWakes
<1>2. CASE pair \in live
  <2>1. pair[1] \in Promises /\ state[pair[1]] = "Pending"
    BY <1>2, LiveTypes
  <2>2. \/ Resolve(pair[1], x, q, s)
        \/ RejectPromise(pair[1], x, q) /\ stack' = s
    BY <1>2 DEF CallResolve, CallReject
  <2>3. {pair[1]} \in Lifecycle!AtMostOne
    BY <2>1 DEF Lifecycle!AtMostOne
  <2>4. RejectPromise(pair[1], x, q) /\ stack' = s => Wakes({pair[1]}, q, s)
    BY <2>1, SettleWakes DEF RejectPromise
  <2>. QED
    BY <2>1, <2>2, <2>3, <2>4, ResolveWakes
<1>. QED
  BY <1>1, <1>2

LEMMA WakesPlaced ==
  ASSUME Facts, Placed, NEW q, NEW s, Rest(q, s), NEW Q \in Lifecycle!AtMostOne, Wakes(Q, q, s),
         UNCHANGED origin
  PROVE  Placed'
<1> DEFINE U == UNION {Waiting[p] : p \in Q}
           M == Members(QueuedCaps(q))
<1>1. Q \subseteq Promises /\ \A a, b \in Q : a = b
  BY DEF Lifecycle!AtMostOne
<1>2. /\ Ready' = M \cup U
      /\ \A p \in Promises : Waiting'[p] = IF p \in Q THEN {} ELSE Waiting[p]
      /\ Running' = Members(HandledCaps(s))
      /\ Once(QueuedCaps(queue')) /\ Once(HandledCaps(stack'))
      /\ \A r \in Promises : Rising(RegisteredCaps(fulfillReactions'[r]))
  BY DEF Wakes, Lifecycle!Trigger, Lifecycle!Woken
<1>3. Derived' = Derived /\ M \subseteq Ready /\ Running' \subseteq Running
  BY <1>2 DEF Derived, Rest
<1>4. \A p \in Promises : Waiting[p] \subseteq Derived /\ \A d \in Waiting[p] : origin[d].source = p
  BY WaitingFacts
<1>5. Ready' \subseteq Derived' /\ Running' \subseteq Derived'
  BY <1>1, <1>2, <1>3, <1>4 DEF Placed
<1>6. Ready' \cap Running' = {}
  BY <1>1, <1>2, <1>3 DEF Placed
<1>7. \A p \in Promises : Waiting'[p] \cap (Ready' \cup Running') = {}
  <2> SUFFICES ASSUME NEW p \in Promises, NEW d \in Waiting'[p], d \in Ready' \cup Running'
               PROVE  FALSE
    OBVIOUS
  <2>1. p \notin Q /\ d \in Waiting[p] /\ d \notin Ready /\ d \notin Running
    BY <1>2 DEF Placed
  <2>2. d \in U
    BY <1>2, <1>3, <2>1
  <2>3. PICK r \in Q : d \in Waiting[r]
    BY <2>2
  <2>. QED
    BY <1>1, <1>4, <2>1, <2>3
<1>. QED
  BY <1>2, <1>5, <1>6, <1>7 DEF Placed

-----------------------------------------------------------------------------
(* Steps of the lifecycle.                                                    *)

Lives == Placed' /\ [Lifecycle!Next]_Lifecycle!vars

LEMMA IdleLives ==
  ASSUME Placed, UNCHANGED <<origin, Settled, Waiting, Ready, Ahead, Running>>,
         Once(QueuedCaps(queue')), Once(HandledCaps(stack')),
         \A r \in Promises : Rising(RegisteredCaps(fulfillReactions'[r]))
  PROVE  Lives
<1>1. Derived' = Derived
  BY DEF Derived
<1>2. UNCHANGED Over
  BY <1>1 DEF Over
<1>3. Placed'
  BY <1>1 DEF Placed
<1>. QED
  BY <1>2, <1>3 DEF Lives, Lifecycle!vars

LEMMA WakesOver ==
  ASSUME Placed, NEW q, NEW s, NEW Q \in Lifecycle!AtMostOne, Wakes(Q, q, s), UNCHANGED origin
  PROVE  Over' = Derived \ ((UNION {Waiting[p] : p \in Promises})
                            \cup Members(QueuedCaps(q)) \cup Members(HandledCaps(s)))
<1> DEFINE U == UNION {Waiting[p] : p \in Q}
           M == Members(QueuedCaps(q))
           A == UNION {Waiting[p] : p \in Promises}
           B == UNION {Waiting'[p] : p \in Promises}
<1>1. Q \subseteq Promises
  BY DEF Lifecycle!AtMostOne
<1>2. /\ Ready' = M \cup U
      /\ \A p \in Promises : Waiting'[p] = IF p \in Q THEN {} ELSE Waiting[p]
      /\ Running' = Members(HandledCaps(s))
  BY DEF Wakes, Lifecycle!Trigger, Lifecycle!Woken
<1>3. B \cup Ready' = A \cup M
  <2>1. \A x : x \in A => x \in B \cup U
    <3> SUFFICES ASSUME NEW p \in Promises, NEW x \in Waiting[p] PROVE x \in B \cup U
      OBVIOUS
    <3>1. CASE p \in Q
      BY <3>1
    <3>2. CASE p \notin Q
      BY <1>2, <3>2
    <3>. QED
      BY <3>1, <3>2
  <2>2. \A x : x \in B => x \in A
    BY <1>2
  <2>3. \A x : x \in U => x \in A
    BY <1>1
  <2> HIDE DEF A, B, U, M
  <2>. QED
    BY <1>2, <2>1, <2>2, <2>3
<1>4. Derived' = Derived
  BY DEF Derived
<1>5. Over' = Derived' \ (B \cup Ready' \cup Running')
  BY DEF Over
<1> HIDE DEF A, B, M
<1>6. Over' = Derived \ (A \cup M \cup Members(HandledCaps(s)))
  BY <1>2, <1>3, <1>4, <1>5
<1>. QED
  BY <1>6 DEF A, M

(* Somebody settles a promise, or nothing that matters here happens.          *)
LEMMA SettleLives ==
  ASSUME Facts, Placed, NEW q, NEW s, Rest(q, s), NEW Q \in Lifecycle!AtMostOne, Wakes(Q, q, s),
         UNCHANGED origin, Members(QueuedCaps(q)) = Ready, Precedence(QueuedCaps(q)) = Ahead,
         Members(HandledCaps(s)) = Running
  PROVE  Lives
<1>1. Placed'
  BY WakesPlaced
<1>2. Over' = Over
  BY WakesOver DEF Over
<1>3. Running' = Running /\ Lifecycle!Trigger(Q, Ready, Ahead)
  BY DEF Wakes
<1>4. CASE Q = {}
  <2>1. Lifecycle!Woken({}) = {}
    BY DEF Lifecycle!Woken
  <2>2. Waiting = [r \in Promises |-> Waiting[r]]
    BY DEF Waiting
  <2>3. Ready' = Ready /\ Waiting' = Waiting /\ Settled' = Settled
    BY <1>3, <1>4, <2>1, <2>2 DEF Lifecycle!Trigger
  <2>4. Ahead' = Ahead
    <3>1. Ready \X {} = {} /\ {pair \in {} \X {} : pair[1] < pair[2]} = {}
      OBVIOUS
    <3>. QED
      BY <1>3, <1>4, <2>1, <3>1 DEF Lifecycle!Trigger
  <2>. QED
    BY <1>1, <1>2, <1>3, <2>3, <2>4 DEF Lives, Lifecycle!vars
<1>5. ASSUME NEW p \in Promises, Q = {p}
      PROVE  Lives
  <2>1. Lifecycle!Settle(p)
    BY <1>2, <1>3, <1>5 DEF Lifecycle!Settle
  <2>. QED
    BY <1>1, <2>1 DEF Lives, Lifecycle!Next
<1>. QED
  BY <1>4, <1>5 DEF Lifecycle!AtMostOne

LEMMA EndLives ==
  ASSUME Facts, Placed, NEW q, NEW s, Rest(q, s), NEW Q \in Lifecycle!AtMostOne, Wakes(Q, q, s),
         UNCHANGED origin, Members(QueuedCaps(q)) = Ready, Precedence(QueuedCaps(q)) = Ahead,
         NEW r \in Running, Members(HandledCaps(s)) = Running \ {r}
  PROVE  Lives
<1> DEFINE A == UNION {Waiting[p] : p \in Promises}
<1>1. Placed'
  BY WakesPlaced
<1>2. r \in Derived /\ r \notin Ready /\ r \notin A /\ r \in Promises
  BY DEF Placed, Derived
<1>3. Over' = Derived \ (A \cup Ready \cup (Running \ {r}))
  BY WakesOver
<1>4. Over = Derived \ (A \cup Ready \cup Running)
  BY DEF Over
<1> HIDE DEF A
<1>5. Over' = Over \cup {r}
  BY <1>2, <1>3, <1>4
<1>6. Running' = Running \ {r} /\ Lifecycle!Trigger(Q, Ready, Ahead)
  BY DEF Wakes
<1>7. Lifecycle!End(r, Q)
  BY <1>5, <1>6 DEF Lifecycle!End
<1>. QED
  BY <1>1, <1>2, <1>7 DEF Lives, Lifecycle!Next

LEMMA PassOnLives ==
  ASSUME Facts, Placed, NEW q, NEW s, Rest(q, s), NEW Q \in Lifecycle!AtMostOne, Wakes(Q, q, s),
         UNCHANGED origin, NEW r, Lifecycle!HasTurn(r), Members(QueuedCaps(q)) = Ready \ {r},
         Precedence(QueuedCaps(q)) = Lifecycle!AheadWithout(r), Members(HandledCaps(s)) = Running
  PROVE  Lives
<1> DEFINE A == UNION {Waiting[p] : p \in Promises}
<1>1. Placed'
  BY WakesPlaced
<1>2. r \in Derived /\ r \in Ready /\ r \notin Running /\ r \notin A /\ r \in Promises
  BY DEF Placed, Derived, Lifecycle!HasTurn
<1>3. Over' = Derived \ (A \cup (Ready \ {r}) \cup Running)
  BY WakesOver
<1>4. Over = Derived \ (A \cup Ready \cup Running)
  BY DEF Over
<1> HIDE DEF A
<1>5. Over' = Over \cup {r}
  BY <1>2, <1>3, <1>4
<1>6. Running' = Running /\ Lifecycle!Trigger(Q, Ready \ {r}, Lifecycle!AheadWithout(r))
  BY DEF Wakes
<1>7. Lifecycle!PassOn(r, Q)
  BY <1>5, <1>6 DEF Lifecycle!PassOn
<1>. QED
  BY <1>1, <1>2, <1>7 DEF Lives, Lifecycle!Next

-----------------------------------------------------------------------------
(* What is left of the queue and the stack.                                   *)

LEMMA RestAll ==
  ASSUME Facts, Placed
  PROVE  Rest(queue, stack)
BY DEF Rest, Ready, Running, Placed, Facts, Inv, TypeOK

LEMMA RestQueue ==
  ASSUME Facts, Placed, NextJob, NEW r, r = JobCap(Head(queue))
  PROVE  /\ Rest(Tail(queue), stack)
         /\ Members(QueuedCaps(Tail(queue))) = Ready \ {r}
         /\ Precedence(QueuedCaps(Tail(queue))) = Lifecycle!AheadWithout(r)
         /\ r # NoPromise => Lifecycle!HasTurn(r)
         /\ r = NoPromise => /\ Members(QueuedCaps(Tail(queue))) = Ready
                             /\ Precedence(QueuedCaps(Tail(queue))) = Ahead
<1>1. queue \in Seq(Jobs) /\ queue # <<>> /\ Once(QueuedCaps(queue)) /\ Tail(queue) \in Seq(Jobs)
  BY JobFacts DEF Facts, Inv, TypeOK, NextJob, Placed
<1> DEFINE caps == QueuedCaps(queue)
           rest == QueuedCaps(Tail(queue))
<1>2. /\ Once(rest) /\ Members(rest) = Members(caps) \ {r}
      /\ Precedence(rest) = {pair \in Precedence(caps) : pair[1] # r /\ pair[2] # r}
      /\ r # NoPromise => r \in Members(caps) /\ \A pair \in Precedence(caps) : pair[2] # r
  BY <1>1, Dequeued
<1>3. /\ NoPromise \notin Members(caps)
      /\ \A pair \in Precedence(caps) : pair[1] # NoPromise /\ pair[2] # NoPromise
  BY <1>1, QueuedTypes, MembersTypes
<1>4. Ready = Members(caps) /\ Ahead = Precedence(caps)
  BY DEF Ready, Ahead
<1>5. Rest(Tail(queue), stack)
  BY <1>1, <1>2, <1>4, RestAll DEF Rest
<1> HIDE DEF caps, rest
<1>6. /\ Members(rest) = Ready \ {r} /\ Precedence(rest) = Lifecycle!AheadWithout(r)
      /\ r # NoPromise => Lifecycle!HasTurn(r)
  BY <1>2, <1>4 DEF Lifecycle!AheadWithout, Lifecycle!HasTurn
<1>7. r = NoPromise => Members(rest) = Ready /\ Precedence(rest) = Ahead
  BY <1>2, <1>3, <1>4
<1>. QED
  BY <1>5, <1>6, <1>7 DEF rest

LEMMA RestStack ==
  ASSUME Facts, Placed, stack # <<>>, NEW c, c = FrameCap(Top)
  PROVE  /\ Rest(queue, Tail(stack))
         /\ Members(HandledCaps(Tail(stack))) = Running \ {c}
         /\ c # NoPromise => c \in Running
         /\ c = NoPromise => Members(HandledCaps(Tail(stack))) = Running
<1>1. stack \in Seq(Frames) /\ Once(HandledCaps(stack)) /\ Tail(stack) \in Seq(Frames)
  BY HeadAndTail DEF Facts, Inv, TypeOK, Placed
<1>2. /\ Once(HandledCaps(Tail(stack))) /\ Running = Members(HandledCaps(stack))
      /\ Members(HandledCaps(Tail(stack))) = Running \ {c}
      /\ c # NoPromise => c \in Running
  BY <1>1, Popped DEF Top, Running
<1>3. NoPromise \notin Running
  BY DEF Running, Members
<1>. QED
  BY <1>1, <1>2, <1>3, RestAll DEF Rest

LEMMA RestPush ==
  ASSUME NEW q, NEW s, Rest(q, s), NEW f \in Frames, f.kind # "handler"
  PROVE  Rest(q, Push(f, s)) /\ Members(HandledCaps(Push(f, s))) = Members(HandledCaps(s))
<1>1. FrameCap(f) = NoPromise /\ NoPromise \notin Members(HandledCaps(s))
  BY DEF FrameCap, Members
<1>2. s \in Seq(Frames) /\ Once(HandledCaps(s)) /\ Push(f, s) \in Seq(Frames)
  BY PushProperties DEF Rest
<1>3. /\ Members(HandledCaps(Push(f, s))) = Members(HandledCaps(s)) \cup ({NoPromise} \ {NoPromise})
      /\ Once(HandledCaps(Push(f, s))) <=>
           Once(HandledCaps(s)) /\ NoPromise \notin Members(HandledCaps(s))
  BY <1>1, <1>2, Pushed
<1>4. Members(HandledCaps(Push(f, s))) = Members(HandledCaps(s))
  BY <1>3
<1>. QED
  BY <1>1, <1>2, <1>3, <1>4 DEF Rest

-----------------------------------------------------------------------------
(* The steps, by what they do to the queue and the stack.                     *)

LEMMA SameLives ==
  ASSUME Facts, Placed, UNCHANGED <<queue, stack, state, fulfillReactions, origin>>
  PROVE  Lives
<1>1. {} \in Lifecycle!AtMostOne
  BY DEF Lifecycle!AtMostOne
<1>2. Wakes({}, queue, stack)
  BY RestAll, SameWakes
<1>. QED
  BY <1>1, <1>2, RestAll, SettleLives DEF Ready, Ahead, Running

LEMMA PushLives ==
  ASSUME Facts, Placed, NEW f \in Frames, f.kind # "handler", stack' = Push(f, stack),
         UNCHANGED <<queue, state, fulfillReactions, origin>>
  PROVE  Lives
<1>1. {} \in Lifecycle!AtMostOne
  BY DEF Lifecycle!AtMostOne
<1>2. Wakes({}, queue, stack)
  BY RestAll, PushWakes
<1>. QED
  BY <1>1, <1>2, RestAll, SettleLives DEF Ready, Ahead, Running

LEMMA PopLives ==
  ASSUME Facts, Placed, stack # <<>>, Top.kind # "handler",
         \/ stack' = Tail(stack)
         \/ \E f \in Frames : f.kind # "handler" /\ stack' = Push(f, Tail(stack)),
         UNCHANGED <<queue, state, fulfillReactions, origin>>
  PROVE  Lives
<1>1. {} \in Lifecycle!AtMostOne
  BY DEF Lifecycle!AtMostOne
<1>2. FrameCap(Top) = NoPromise
  BY DEF FrameCap
<1>3. Rest(queue, Tail(stack)) /\ Members(HandledCaps(Tail(stack))) = Running
  BY <1>2, RestStack
<1>4. Wakes({}, queue, Tail(stack))
  BY <1>3, SameWakes, PushWakes
<1>. QED
  BY <1>1, <1>3, <1>4, SettleLives DEF Ready, Ahead

(* A call of a resolving function by the host, by user code or by an adopting *)
(* job, and by a frame that is no handler.                                    *)
LEMMA CallLives ==
  ASSUME Facts, Placed, NEW pair, NEW x \in Values, NEW q, NEW s, Rest(q, s),
         CallResolve(pair, x, q, s) \/ CallReject(pair, x, q, s),
         UNCHANGED origin, Members(QueuedCaps(q)) = Ready, Precedence(QueuedCaps(q)) = Ahead,
         Members(HandledCaps(s)) = Running
  PROVE  Lives
BY CallWakes, SettleLives

(* A handler returns or throws. *)
LEMMA ReturnLives ==
  ASSUME Facts, Placed, stack # <<>>, NEW pair, NEW x \in Values,
         CallResolve(pair, x, queue, Tail(stack)) \/ CallReject(pair, x, queue, Tail(stack)),
         UNCHANGED origin
  PROVE  Lives
<1>0. PICK c : c = FrameCap(Top)
  OBVIOUS
<1>1. /\ Rest(queue, Tail(stack))
      /\ Members(HandledCaps(Tail(stack))) = Running \ {c}
      /\ c # NoPromise => c \in Running
      /\ c = NoPromise => Members(HandledCaps(Tail(stack))) = Running
  BY <1>0, RestStack
<1>2. PICK Q \in Lifecycle!AtMostOne : Wakes(Q, queue, Tail(stack))
  BY <1>1, CallWakes
<1>3. CASE c = NoPromise
  BY <1>1, <1>2, <1>3, SettleLives DEF Ready, Ahead
<1>4. CASE c # NoPromise
  BY <1>1, <1>2, <1>4, EndLives DEF Ready, Ahead
<1>. QED
  BY <1>3, <1>4

(* A "then" getter is done. *)
LEMMA GetterLives ==
  ASSUME Facts, Placed, UserOnTop, Top.kind = "getthen", stack' = Tail(stack), UNCHANGED origin,
         \/ EnqueueThenableJob(Top.p, Top.x, queue)
         \/ FulfillPromise(Top.p, Top.x, queue)
         \/ \E v \in Plain : RejectPromise(Top.p, v, queue)
  PROVE  Lives
<1>1. /\ stack \in Seq(Frames) /\ stack # <<>>
      /\ Top.p \in Promises /\ Top.x \in Objects
  BY TopTypes DEF Facts, Inv, TypeOK, UserOnTop
<1>2. 1 \in 1 .. Len(stack)
  BY <1>1, LenProperties
<1>3. state[Top.p] = "Pending"
  BY <1>2 DEF Facts, Inv, OneSettler, SettleRights, Top
<1>4. FrameCap(Top) = NoPromise
  BY DEF FrameCap
<1>5. Rest(queue, Tail(stack)) /\ Members(HandledCaps(Tail(stack))) = Running
  BY <1>1, <1>4, RestStack
<1>6. /\ {} \in Lifecycle!AtMostOne /\ {Top.p} \in Lifecycle!AtMostOne
      /\ Top.x \in Values /\ Plain \subseteq Values
  BY <1>1 DEF Lifecycle!AtMostOne, Values
<1>7. \E Q \in Lifecycle!AtMostOne : Wakes(Q, queue, Tail(stack))
  <2>1. CASE EnqueueThenableJob(Top.p, Top.x, queue)
    BY <1>1, <1>5, <1>6, <2>1, EnqueueWakes
  <2>2. CASE FulfillPromise(Top.p, Top.x, queue)
    BY <1>1, <1>3, <1>5, <1>6, <2>2, SettleWakes DEF FulfillPromise
  <2>3. ASSUME NEW v \in Plain, RejectPromise(Top.p, v, queue)
        PROVE  \E Q \in Lifecycle!AtMostOne : Wakes(Q, queue, Tail(stack))
    BY <1>1, <1>3, <1>5, <1>6, <2>3, SettleWakes DEF RejectPromise
  <2>. QED
    BY <2>1, <2>2, <2>3
<1>. QED
  BY <1>5, <1>7, SettleLives DEF Ready, Ahead

(* The loop starts a handler. *)
LEMMA StartLives ==
  ASSUME Facts, Facts', Placed, RunHandler
  PROVE  Lives
<1> DEFINE job == Head(queue)
           r == job.cap
           f == Frame("handler", r, 1, job.arg)
           A == UNION {Waiting[p] : p \in Promises}
<1>1. /\ NextJob /\ job.kind # "Thenable" /\ job.handler.kind = "user"
      /\ queue' = Tail(queue) /\ stack' = Push(f, stack)
      /\ UNCHANGED <<state, fulfillReactions, origin>>
  BY DEF RunHandler, promiseVars, history
<1>2. JobCap(job) = r /\ r \in 1 .. created /\ r # NoPromise
  BY <1>1, JobFacts DEF JobCap, JobOK, NoPromise
<1>3. f \in Frames /\ FrameCap(f) = r
  BY <1>1, HeadTypes, RecordTypes DEF Facts, Inv, Frame, FrameCap
<1> HIDE DEF f
<1>4. /\ Rest(Tail(queue), stack)
      /\ Members(QueuedCaps(Tail(queue))) = Ready \ {r}
      /\ Precedence(QueuedCaps(Tail(queue))) = Lifecycle!AheadWithout(r)
      /\ Lifecycle!HasTurn(r)
  BY <1>1, <1>2, RestQueue
<1>5. /\ Ready' = Ready \ {r} /\ Ahead' = Lifecycle!AheadWithout(r)
      /\ Once(QueuedCaps(queue'))
  BY <1>1, <1>4 DEF Ready, Ahead, Rest
<1>6. r \in Ready /\ r \notin Running /\ r \in Derived /\ r \notin A /\ r \in Promises
  BY <1>4 DEF Lifecycle!HasTurn, Placed, Derived
<1>7. Running' = Running \cup {r} /\ Once(HandledCaps(stack'))
  <2>1. /\ Members(HandledCaps(Push(f, stack))) = Members(HandledCaps(stack)) \cup ({r} \ {NoPromise})
        /\ Once(HandledCaps(Push(f, stack))) <=>
             Once(HandledCaps(stack)) /\ r \notin Members(HandledCaps(stack))
    BY <1>3, Pushed DEF Facts, Inv, TypeOK
  <2>. QED
    BY <1>1, <1>2, <1>6, <2>1 DEF Running, Placed
<1>8. /\ Waiting' = Waiting /\ Settled' = Settled
      /\ \A p \in Promises : Rising(RegisteredCaps(fulfillReactions'[p]))
  BY <1>1, SameWaiting
<1>9. Derived' = Derived
  BY <1>1 DEF Derived
<1>10. Over' = Over
  <2>1. Over' = Derived \ (A \cup Ready' \cup Running')
    BY <1>8, <1>9 DEF Over
  <2>2. Over = Derived \ (A \cup Ready \cup Running)
    BY DEF Over
  <2> HIDE DEF A
  <2>. QED
    BY <1>5, <1>6, <1>7, <2>1, <2>2
<1>11. Placed'
  BY <1>5, <1>6, <1>7, <1>8, <1>9 DEF Placed
<1>12. Lifecycle!Start(r)
  BY <1>4, <1>5, <1>7, <1>8, <1>10 DEF Lifecycle!Start
<1>. QED
  BY <1>6, <1>11, <1>12 DEF Lives, Lifecycle!Next

(* An exception unwinds. *)
LEMMA DropLives ==
  ASSUME Facts, Placed, Unwind
  PROVE  Lives
<1> DEFINE A == UNION {Waiting[p] : p \in Promises}
           D == Running \ Running'
<1>1. PICK k \in 1 .. Len(stack) :
        /\ stack' = SubSeq(stack, k + 1, Len(stack))
        /\ UNCHANGED <<promiseVars, queue, origin>>
  BY DEF Unwind
<1>2. UNCHANGED <<state, fulfillReactions, queue, origin>>
  BY <1>1 DEF promiseVars
<1>3. Once(HandledCaps(stack')) /\ Running' \subseteq Running
  BY <1>1, Cut DEF Facts, Inv, TypeOK, Placed, Running
<1>4. /\ Waiting' = Waiting /\ Settled' = Settled
      /\ \A p \in Promises : Rising(RegisteredCaps(fulfillReactions'[p]))
  BY <1>2, SameWaiting
<1>5. /\ Ready' = Ready /\ Ahead' = Ahead /\ Derived' = Derived
      /\ Once(QueuedCaps(queue'))
  BY <1>2 DEF Ready, Ahead, Derived, Placed
<1>6. Placed'
  BY <1>3, <1>4, <1>5 DEF Placed
<1>7. D \subseteq Derived /\ D \cap Ready = {} /\ D \cap A = {}
  BY DEF Placed
<1>8. Over' = Over \cup D
  <2>1. Over' = Derived \ (A \cup Ready \cup Running')
    BY <1>4, <1>5 DEF Over
  <2>2. Over = Derived \ (A \cup Ready \cup Running)
    BY DEF Over
  <2> HIDE DEF A
  <2>. QED
    BY <1>3, <1>7, <2>1, <2>2
<1>9. Lifecycle!Drop(D) /\ D \in SUBSET Running
  BY <1>3, <1>4, <1>5, <1>8 DEF Lifecycle!Drop
<1>. QED
  BY <1>6, <1>9 DEF Lives, Lifecycle!Next

(* then(): the reaction is registered, or queued at once.                     *)
LEMMA ThenPlaces ==
  ASSUME Facts, Placed, NEW p \in Promises, NEW onF \in Handlers, NEW onR \in Handlers,
         NEW c \in Caps, NEW q, NEW s, Rest(q, s), PerformPromiseThen(p, onF, onR, c, q),
         \A d \in Waiting[p] : c # NoPromise => d < c
  PROVE  /\ \A r \in Promises : Rising(RegisteredCaps(fulfillReactions'[r]))
         /\ Settled' = Settled
         /\ \/ /\ p \notin Settled
               /\ Waiting' = [Waiting EXCEPT ![p] = @ \cup ({c} \ {NoPromise})]
               /\ queue' = q
            \/ /\ p \in Settled
               /\ Waiting' = Waiting
               /\ QueuedCaps(queue') = QueuedCaps(q) \o <<c>>
<1> DEFINE f == [cap |-> c, handler |-> onF]
           r == [cap |-> c, handler |-> onR]
<1>1. f \in Reactions /\ f.cap = c /\ r \in Reactions /\ r.cap = c
  BY RecordTypes
<1>2. \/ /\ state[p] = "Pending"
         /\ fulfillReactions' = [fulfillReactions EXCEPT ![p] = Append(@, f)]
         /\ queue' = q /\ UNCHANGED state
      \/ /\ state[p] = "Fulfilled"
         /\ queue' = Append(q, ReactionJob("Fulfill", f, value[p]))
         /\ UNCHANGED <<state, fulfillReactions>>
      \/ /\ state[p] = "Rejected"
         /\ queue' = Append(q, ReactionJob("Reject", r, value[p]))
         /\ UNCHANGED <<state, fulfillReactions>>
  BY Zenon DEF PerformPromiseThen
<1> HIDE DEF f, r
<1>3. CASE /\ state[p] = "Pending"
           /\ fulfillReactions' = [fulfillReactions EXCEPT ![p] = Append(@, f)]
           /\ queue' = q /\ UNCHANGED state
  <2>1. /\ fulfillReactions[p] \in Seq(Reactions)
        /\ Waiting[p] = Members(RegisteredCaps(fulfillReactions[p]))
    BY WaitingFacts
  <2>2. /\ Rising(RegisteredCaps(Append(fulfillReactions[p], f)))
        /\ Members(RegisteredCaps(Append(fulfillReactions[p], f))) = Waiting[p] \cup ({c} \ {NoPromise})
    BY <1>1, <2>1, RegisteredOne DEF Placed
  <2>3. /\ fulfillReactions'[p] = Append(fulfillReactions[p], f)
        /\ \A b \in Promises : b # p => fulfillReactions'[b] = fulfillReactions[b]
    BY <1>3 DEF Facts, Inv, TypeOK
  <2>4. \A b \in Promises : Rising(RegisteredCaps(fulfillReactions'[b]))
    BY <2>2, <2>3 DEF Placed
  <2>5. Waiting' = [Waiting EXCEPT ![p] = @ \cup ({c} \ {NoPromise})]
    BY <2>2, <2>3 DEF Waiting
  <2>6. Settled' = Settled /\ p \notin Settled
    BY <1>3 DEF Settled
  <2>. QED
    BY <1>3, <2>4, <2>5, <2>6
<1>4. ASSUME NEW kind \in {"Fulfill", "Reject"}, NEW e \in {f, r}, state[p] # "Pending",
             queue' = Append(q, ReactionJob(kind, e, value[p])), UNCHANGED <<state, fulfillReactions>>
      PROVE  /\ \A b \in Promises : Rising(RegisteredCaps(fulfillReactions'[b]))
             /\ Settled' = Settled /\ p \in Settled /\ Waiting' = Waiting
             /\ QueuedCaps(queue') = QueuedCaps(q) \o <<c>>
  <2> DEFINE job == ReactionJob(kind, e, value[p])
  <2>1. value[p] \in Values /\ q \in Seq(Jobs)
    BY <1>4 DEF Facts, Inv, TypeOK, Rest
  <2>2. job \in Jobs
    BY <1>1, <2>1, RecordTypes
  <2>3. job.kind # "Thenable" /\ job.cap = c
    BY <1>1 DEF ReactionJob
  <2>4. JobCap(job) = c
    BY <2>3 DEF JobCap
  <2> HIDE DEF job
  <2>5. QueuedCaps(queue') = QueuedCaps(q) \o <<c>>
    BY <1>4, <2>1, <2>2, <2>4, QueuedAppend DEF job
  <2>6. p \in Settled
    BY <1>4 DEF Settled
  <2>. QED
    BY <1>4, <2>5, <2>6, SameWaiting
<1>. QED
  BY <1>2, <1>3, <1>4

LEMMA RegisterLives ==
  ASSUME Facts, Facts', Placed, NEW q \in Handed, NEW onF \in BOOLEAN, NEW onR \in BOOLEAN,
         Then(q, onF, onR)
  PROVE  Lives
<1> DEFINE hF == Plainly(IF onF THEN "user" ELSE "none")
           hR == Plainly(IF onR THEN "user" ELSE "none")
           A == UNION {Waiting[p] : p \in Promises}
           B == UNION {Waiting'[p] : p \in Promises}
<1>0. PICK c : c = created + 1
  OBVIOUS
<1>1. /\ NewPromise /\ PerformPromiseThen(q, hF, hR, c, queue)
      /\ origin' = [origin EXCEPT ![c] = [source |-> q, onF |-> onF, onR |-> onR]]
      /\ UNCHANGED stack
  BY <1>0 DEF Then
<1>2. hF \in Handlers /\ hR \in Handlers
  BY RecordTypes
<1> HIDE DEF hF, hR
<1>3. q \in Promises /\ c \in Caps /\ c \in Promises /\ created \in Nat /\ c # NoPromise
  BY <1>0, <1>1, InputTypes, NewPromiseTypes DEF Facts, Inv, TypeOK, Promises, NoPromise
<1>4. /\ c \notin Derived /\ Derived' = Derived \cup {c}
  <2>1. origin[c].source = NoPromise
    BY <1>0, <1>3 DEF Facts, Shape, Origins
  <2>2. origin'[c].source = q /\ \A p \in Promises : p # c => origin'[p] = origin[p]
    BY <1>1, <1>3 DEF Facts, Inv, TypeOK
  <2>3. q # NoPromise
    BY <1>3 DEF Promises, NoPromise
  <2>. QED
    BY <1>3, <2>1, <2>2, <2>3 DEF Derived
<1>5. \A p \in Promises : Waiting[p] \subseteq Derived /\ \A d \in Waiting[p] : d < c
  BY <1>0, <1>3, WaitingFacts
<1>6. A \subseteq Derived /\ Ready \subseteq Derived /\ Running \subseteq Derived
  BY <1>5 DEF Placed
<1>7. /\ \A r \in Promises : Rising(RegisteredCaps(fulfillReactions'[r]))
      /\ Settled' = Settled
      /\ \/ /\ q \notin Settled
            /\ Waiting' = [Waiting EXCEPT ![q] = @ \cup {c}]
            /\ queue' = queue
         \/ /\ q \in Settled
            /\ Waiting' = Waiting
            /\ QueuedCaps(queue') = QueuedCaps(queue) \o <<c>>
  <2>1. {c} \ {NoPromise} = {c}
    BY <1>3
  <2>. QED
    BY <1>1, <1>2, <1>3, <1>5, <2>1, RestAll, ThenPlaces
<1>8. Running' = Running /\ Once(HandledCaps(stack'))
  BY <1>1 DEF Running, Placed
<1>9. Over = Derived \ (A \cup Ready \cup Running) /\ Over' = Derived' \ (B \cup Ready' \cup Running')
  BY DEF Over
<1>10. c \notin Lifecycle!Registered
  BY <1>4, <1>6, <1>9 DEF Lifecycle!Registered
<1>11. CASE /\ q \notin Settled
            /\ Waiting' = [Waiting EXCEPT ![q] = @ \cup {c}]
            /\ queue' = queue
  <2>1. Ready' = Ready /\ Ahead' = Ahead /\ Once(QueuedCaps(queue'))
    BY <1>11 DEF Ready, Ahead, Placed
  <2>2. \A p \in Promises : Waiting'[p] = IF p = q THEN Waiting[p] \cup {c} ELSE Waiting[p]
    BY <1>3, <1>11 DEF Waiting
  <2>3. B = A \cup {c}
    <3>1. \A x : x \in B <=> \E p \in Promises : x \in Waiting'[p]
      OBVIOUS
    <3>2. \A x : x \in A <=> \E p \in Promises : x \in Waiting[p]
      OBVIOUS
    <3> HIDE DEF A, B
    <3>3. \A x : x \in B <=> x \in A \/ x = c
      BY <1>3, <2>2, <3>1, <3>2
    <3>. QED
      BY <3>3
  <2>4. Over' = Over
    <3> HIDE DEF A, B
    <3>. QED
      BY <1>4, <1>6, <1>8, <1>9, <2>1, <2>3
  <2>5. Placed'
    <3>1. \A p \in Promises : Waiting[p] \cap (Ready \cup Running) = {}
      BY DEF Placed
    <3>2. \A p \in Promises : Waiting'[p] \cap (Ready' \cup Running') = {}
      BY <1>4, <1>6, <1>8, <2>1, <2>2, <3>1
    <3>. QED
      BY <1>4, <1>6, <1>7, <1>8, <2>1, <3>2 DEF Placed
  <2>6. Lifecycle!Register(c, q)
    BY <1>7, <1>8, <1>10, <1>11, <2>1, <2>4 DEF Lifecycle!Register
  <2>. QED
    BY <1>3, <2>5, <2>6 DEF Lives, Lifecycle!Next
<1>12. CASE /\ q \in Settled
            /\ Waiting' = Waiting
            /\ QueuedCaps(queue') = QueuedCaps(queue) \o <<c>>
  <2>1. /\ Ready' = Ready \cup {c} /\ Ahead' = Ahead \cup (Ready \X {c})
        /\ Once(QueuedCaps(queue'))
    <3> DEFINE a == QueuedCaps(queue)
               b == <<c>>
    <3>1. a \in Seq(Caps) /\ Once(a) /\ c \notin Members(a) /\ Members(a) = Ready /\ Precedence(a) = Ahead
      BY <1>4, <1>6, QueuedTypes DEF Facts, Inv, TypeOK, Placed, Ready, Ahead
    <3>2. b \in Seq(Caps) /\ Once(b) /\ Members(b) = {c} /\ Precedence(b) = {}
      BY <1>3, OneCap
    <3> HIDE DEF a, b
    <3>3. /\ Members(a \o b) = Members(a) \cup Members(b)
          /\ Precedence(a \o b) = Precedence(a) \cup Precedence(b) \cup (Members(a) \X Members(b))
          /\ Once(a \o b) <=> Once(a) /\ Once(b) /\ Members(a) \cap Members(b) = {}
      BY <3>1, <3>2, JoinCaps
    <3>4. QueuedCaps(queue') = a \o b
      BY <1>12 DEF a, b
    <3>. QED
      BY <3>1, <3>2, <3>3, <3>4 DEF Ready, Ahead
  <2>2. B = A
    BY <1>12
  <2>3. Over' = Over
    <3> HIDE DEF A, B
    <3>. QED
      BY <1>4, <1>6, <1>8, <1>9, <2>1, <2>2
  <2>4. Placed'
    BY <1>4, <1>5, <1>6, <1>7, <1>8, <1>12, <2>1 DEF Placed
  <2>5. Lifecycle!Register(c, q)
    BY <1>7, <1>8, <1>10, <1>12, <2>1, <2>3 DEF Lifecycle!Register
  <2>. QED
    BY <1>3, <2>4, <2>5 DEF Lives, Lifecycle!Next
<1>. QED
  BY <1>7, <1>11, <1>12

(* A thenable job adds no reaction that a program can see. *)
LEMMA ThenableLives ==
  ASSUME Facts, Placed, RunPromiseThenable \/ RunUserThenable
  PROVE  Lives
<1> DEFINE job == Head(queue)
<1>1. NextJob /\ job.kind = "Thenable" /\ UNCHANGED origin
  BY DEF RunPromiseThenable, RunUserThenable, history
<1>2. JobCap(job) = NoPromise
  BY <1>1 DEF JobCap
<1>3. /\ Rest(Tail(queue), stack)
      /\ Members(QueuedCaps(Tail(queue))) = Ready /\ Precedence(QueuedCaps(Tail(queue))) = Ahead
  BY <1>1, <1>2, RestQueue
<1>4. CASE RunPromiseThenable
  <2>0. PICK pair : pair = <<job.cap, pairs[job.cap] + 1>>
    OBVIOUS
  <2> DEFINE onF == [kind |-> "resolve", pair |-> pair]
             onR == [kind |-> "reject", pair |-> pair]
  <2>1. /\ job.arg \in Promises /\ UNCHANGED stack
        /\ PerformPromiseThen(job.arg, onF, onR, NoPromise, Tail(queue))
    BY <1>4, <2>0 DEF RunPromiseThenable
  <2>2. pair \in Pairs
    BY <1>1, <2>0, ThenableTypes DEF Pairs
  <2>3. onF \in Handlers /\ onR \in Handlers /\ NoPromise \in Caps
    BY <2>2 DEF Handlers, Caps
  <2> HIDE DEF onF, onR
  <2>4. PICK p \in Promises : p = job.arg
    BY <2>1
  <2>5. /\ \A r \in Promises : Rising(RegisteredCaps(fulfillReactions'[r]))
        /\ Settled' = Settled
        /\ \/ /\ Waiting' = [Waiting EXCEPT ![p] = @ \cup ({NoPromise} \ {NoPromise})]
              /\ queue' = Tail(queue)
           \/ /\ Waiting' = Waiting
              /\ QueuedCaps(queue') = QueuedCaps(Tail(queue)) \o <<NoPromise>>
    BY <1>3, <2>1, <2>3, <2>4, ThenPlaces
  <2>6. Waiting' = Waiting
    <3>1. [Waiting EXCEPT ![p] = @ \cup ({NoPromise} \ {NoPromise})] = Waiting
      BY DEF Waiting
    <3>. QED
      BY <2>5, <3>1
  <2>7. Ready' = Ready /\ Ahead' = Ahead /\ Once(QueuedCaps(queue'))
    <3>1. QueuedCaps(Tail(queue)) \in Seq(Caps) /\ Once(QueuedCaps(Tail(queue)))
      BY <1>3, QueuedTypes DEF Rest
    <3>. QED
      BY <1>3, <2>5, <3>1, NoCap DEF Ready, Ahead
  <2>8. Running' = Running /\ Once(HandledCaps(stack'))
    BY <2>1 DEF Running, Placed
  <2>. QED
    BY <1>1, <2>5, <2>6, <2>7, <2>8, IdleLives
<1>5. CASE RunUserThenable
  <2>0. PICK pair : pair = <<job.cap, pairs[job.cap] + 1>>
    OBVIOUS
  <2>1. PICK f : f = Frame("thencall", pair[1], pair[2], job.arg)
    OBVIOUS
  <2>2. /\ job.arg \in Objects /\ queue' = Tail(queue) /\ stack' = Push(f, stack)
        /\ UNCHANGED <<state, fulfillReactions>>
    BY <1>5, <2>0, <2>1 DEF RunUserThenable, promiseVars
  <2>3. pair[1] \in Caps /\ pair[2] \in Nat
    BY <1>1, <2>0, ThenableTypes DEF Caps
  <2>4. f \in Frames /\ f.kind # "handler"
    <3>1. job.arg \in Values
      BY <2>2 DEF Values
    <3>2. f \in Frames
      BY <2>1, <2>3, <3>1, RecordTypes
    <3>. QED
      BY <2>1, <3>2 DEF Frame
  <2>5. Wakes({}, Tail(queue), stack)
    BY <1>3, <2>2, <2>4, PushWakes
  <2>6. {} \in Lifecycle!AtMostOne
    BY DEF Lifecycle!AtMostOne
  <2>. QED
    BY <1>1, <1>3, <2>5, <2>6, SettleLives DEF Running
<1>. QED
  BY <1>4, <1>5

(* A job without a user handler. *)
LEMMA JobLives ==
  ASSUME Facts, Placed, RunAdoption \/ RunPassThrough
  PROVE  Lives
<1> DEFINE job == Head(queue)
<1>1. /\ NextJob /\ UNCHANGED origin /\ job.kind # "Thenable"
      /\ \E pair : \/ CallResolve(pair, job.arg, Tail(queue), stack)
                   \/ CallReject(pair, job.arg, Tail(queue), stack)
  BY DEF RunAdoption, RunPassThrough, history
<1>2. PICK pair : \/ CallResolve(pair, job.arg, Tail(queue), stack)
                  \/ CallReject(pair, job.arg, Tail(queue), stack)
  BY <1>1
<1>3. job.arg \in Values
  BY <1>1, HeadTypes DEF Facts, Inv
<1>4. PICK r : r = JobCap(job)
  OBVIOUS
<1>5. /\ Rest(Tail(queue), stack)
      /\ Members(QueuedCaps(Tail(queue))) = Ready \ {r}
      /\ Precedence(QueuedCaps(Tail(queue))) = Lifecycle!AheadWithout(r)
      /\ r # NoPromise => Lifecycle!HasTurn(r)
      /\ r = NoPromise => /\ Members(QueuedCaps(Tail(queue))) = Ready
                          /\ Precedence(QueuedCaps(Tail(queue))) = Ahead
  BY <1>1, <1>4, RestQueue
<1>6. PICK Q \in Lifecycle!AtMostOne : Wakes(Q, Tail(queue), stack)
  BY <1>2, <1>3, <1>5, CallWakes
<1>7. CASE r = NoPromise
  BY <1>1, <1>5, <1>6, <1>7, SettleLives DEF Running
<1>8. CASE r # NoPromise
  BY <1>1, <1>5, <1>6, <1>8, PassOnLives DEF Running
<1>. QED
  BY <1>7, <1>8

-----------------------------------------------------------------------------
(* Every step of the engine is one of the lifecycle's, or leaves it alone.    *)

LEMMA HostLives ==
  ASSUME Facts, Placed, HostCall
  PROVE  Lives
<1>0. UserValues \subseteq Values /\ Plain \subseteq Values
  BY InputTypes DEF Facts, Inv
<1>1. CASE Execute \/ Invoke
  <2>1. PICK k \in {"script", "invoke"} :
          stack' = Push(Entry(k), stack) /\ UNCHANGED <<queue, state, fulfillReactions, origin>>
    BY <1>1 DEF Execute, Invoke, promiseVars, history
  <2>2. Entry(k) \in Frames /\ Entry(k).kind # "handler"
    BY RecordTypes DEF Entry, Frame
  <2>. QED
    BY <2>1, <2>2, PushLives
<1>2. CASE RegisterPromise
  BY <1>2, SameLives DEF RegisterPromise, promiseVars, history
<1>3. ASSUME NEW pair, NEW x \in Values, UNCHANGED origin,
             \/ CallResolve(pair, x, queue, Push(Entry("drain"), stack))
             \/ CallReject(pair, x, queue, Push(Entry("drain"), stack))
      PROVE  Lives
  <2>1. Entry("drain") \in Frames /\ Entry("drain").kind # "handler"
    BY RecordTypes DEF Entry, Frame
  <2>2. /\ Rest(queue, Push(Entry("drain"), stack))
        /\ Members(HandledCaps(Push(Entry("drain"), stack))) = Running
    BY <2>1, RestAll, RestPush DEF Running
  <2>. QED
    BY <1>3, <2>2, CallLives DEF Ready, Ahead
<1>4. ASSUME NEW pair \in manual, NEW x \in UserValues, HostResolve(pair, x)
      PROVE  Lives
  BY <1>0, <1>3, <1>4 DEF HostResolve, history
<1>5. ASSUME NEW pair \in manual, NEW v \in Plain, HostReject(pair, v)
      PROVE  Lives
  BY <1>0, <1>3, <1>5 DEF HostReject, history
<1>. QED
  BY <1>1, <1>2, <1>4, <1>5 DEF HostCall

LEMMA UserLives ==
  ASSUME Facts, Facts', Placed, UserCall
  PROVE  Lives
<1>0. UserValues \subseteq Values /\ Plain \subseteq Values
  BY InputTypes DEF Facts, Inv
<1>1. CASE Construct
  BY <1>1, SameLives DEF Construct, promiseVars, history
<1>2. CASE CallAsync
  <2>0. PICK f : f = Frame("async", created + 1, 1, NoValue)
    OBVIOUS
  <2>1. /\ NewPromise /\ stack' = Push(f, stack)
        /\ UNCHANGED <<queue, state, fulfillReactions, origin>>
    BY <1>2, <2>0 DEF CallAsync, promiseVars, history
  <2>2. f \in Frames /\ f.kind # "handler"
    BY <2>0, <2>1, NewPromiseTypes, RecordTypes DEF Facts, Inv, Frame
  <2>. QED
    BY <2>1, <2>2, PushLives
<1>3. CASE Import
  <2>0. PICK f : f = Frame("import", NoPromise, 0, NoValue)
    OBVIOUS
  <2>1. stack' = Push(f, stack) /\ UNCHANGED <<queue, state, fulfillReactions, origin>>
    BY <1>3, <2>0 DEF Import, promiseVars, history
  <2>2. f \in Frames /\ f.kind # "handler"
    BY <2>0, RecordTypes DEF Frame, Caps
  <2>. QED
    BY <2>1, <2>2, PushLives
<1>4. ASSUME NEW x \in UserValues, Await(x)
      PROVE  Lives
  <2>0. PICK f : f = Frame("await", NoPromise, 0, x)
    OBVIOUS
  <2>1. stack' = Push(f, stack) /\ UNCHANGED <<queue, state, fulfillReactions, origin>>
    BY <1>4, <2>0 DEF Await, promiseVars, history
  <2>2. f \in Frames /\ f.kind # "handler"
    BY <1>0, <2>0, RecordTypes DEF Frame, Caps
  <2>. QED
    BY <2>1, <2>2, PushLives
<1>5. ASSUME NEW pair \in exposed, NEW x \in UserValues, UserResolve(pair, x)
      PROVE  Lives
  BY <1>0, <1>5, RestAll, CallLives DEF UserResolve, history, Ready, Ahead, Running
<1>6. ASSUME NEW pair \in exposed, NEW v \in Plain, UserReject(pair, v)
      PROVE  Lives
  BY <1>0, <1>6, RestAll, CallLives DEF UserReject, history, Ready, Ahead, Running
<1>. QED
  BY <1>1, <1>2, <1>3, <1>4, <1>5, <1>6, RegisterLives DEF UserCall

LEMMA DoneLives ==
  ASSUME Facts, Placed, UserDone
  PROVE  Lives
<1>0. UserValues \subseteq Values /\ Plain \subseteq Values
  BY InputTypes DEF Facts, Inv
<1>1. CASE ReturnToHost \/ ThrowToHost \/ ReturnFromThen
  <2>1. /\ stack # <<>> /\ Top.kind # "handler"
        /\ stack' = Tail(stack) \/ stack' = Push(Entry("drain"), Tail(stack))
        /\ UNCHANGED <<queue, state, fulfillReactions, origin>>
    BY <1>1 DEF ReturnToHost, ThrowToHost, ReturnFromThen, UserOnTop, promiseVars, history
  <2>2. Entry("drain") \in Frames /\ Entry("drain").kind # "handler"
    BY RecordTypes DEF Entry, Frame
  <2>. QED
    BY <2>1, <2>2, PopLives
<1>2. ASSUME NEW x \in UserValues, ReturnToCapability(x)
      PROVE  Lives
  <2>1. /\ stack # <<>> /\ CallResolve(<<Top.p, 1>>, x, queue, Tail(stack))
        /\ x \in Values /\ UNCHANGED origin
    BY <1>0, <1>2 DEF ReturnToCapability, UserOnTop, history
  <2>. QED
    BY <2>1, ReturnLives
<1>3. ASSUME NEW v \in Plain, ThrowToCapability(v)
      PROVE  Lives
  <2>1. /\ stack # <<>> /\ CallReject(<<Top.p, 1>>, v, queue, Tail(stack))
        /\ v \in Values /\ UNCHANGED origin
    BY <1>0, <1>3 DEF ThrowToCapability, UserOnTop, history
  <2>. QED
    BY <2>1, ReturnLives
<1>4. ASSUME NEW v \in Plain, ThrowFromThen(v)
      PROVE  Lives
  <2>1. /\ stack # <<>> /\ CallReject(<<Top.p, Top.n>>, v, queue, Tail(stack))
        /\ v \in Values /\ UNCHANGED origin
    BY <1>0, <1>4 DEF ThrowFromThen, UserOnTop, history
  <2>. QED
    BY <2>1, ReturnLives
<1>5. ASSUME NEW v \in Plain, GotCallableThen \/ GotOtherThen \/ ThrowFromGetThen(v)
      PROVE  Lives
  BY <1>5, GetterLives DEF GotCallableThen, GotOtherThen, ThrowFromGetThen, history
<1>6. CASE GotCallableThen \/ GotOtherThen
  BY <1>6, GetterLives DEF GotCallableThen, GotOtherThen, history
<1>. QED
  BY <1>1, <1>2, <1>3, <1>4, <1>5, <1>6 DEF UserDone

LEMMA LoopLives ==
  ASSUME Facts, Facts', Placed, Loop
  PROVE  Lives
<1>1. CASE DrainDone \/ AwaitResumes
  <2>1. /\ stack # <<>> /\ Top.kind # "handler" /\ stack' = Tail(stack)
        /\ UNCHANGED <<queue, state, fulfillReactions, origin>>
    BY <1>1 DEF DrainDone, AwaitResumes, LoopOnTop, promiseVars, history
  <2>. QED
    BY <2>1, PopLives
<1>2. AwaitPending => Unwind
  BY DEF AwaitPending
<1>. QED
  BY <1>1, <1>2, StartLives, JobLives, ThenableLives, DropLives DEF Loop

LEMMA StepLives == Facts /\ Facts' /\ Placed /\ [Next]_vars => Lives
<1> SUFFICES ASSUME Facts, Facts', Placed, [Next]_vars PROVE Lives
  OBVIOUS
<1>1. CASE UNCHANGED vars
  BY <1>1, SameLives DEF vars
<1>2. CASE Next
  BY <1>2, HostLives, UserLives, DoneLives, LoopLives, DropLives DEF Next, ConstraintFails
<1>. QED
  BY <1>1, <1>2

LEMMA LivesInit == Init => Placed /\ Lifecycle!Init
<1> SUFFICES ASSUME Init PROVE Placed /\ Lifecycle!Init
  OBVIOUS
<1>1. /\ queue = <<>> /\ stack = <<>>
      /\ fulfillReactions = [p \in Promises |-> <<>>]
      /\ \A p \in Promises : origin[p].source = NoPromise /\ state[p] = "Pending"
  BY DEF Init
<1>2. Derived = {}
  BY <1>1 DEF Derived
<1>3. /\ Waiting = [p \in Promises |-> {}] /\ Ready = {} /\ Ahead = {} /\ Running = {}
      /\ Once(QueuedCaps(queue)) /\ Once(HandledCaps(stack))
      /\ \A p \in Promises : Rising(RegisteredCaps(fulfillReactions[p]))
  BY <1>1 DEF Waiting, Ready, Ahead, Running, Members, Precedence, RegisteredCaps, QueuedCaps,
              HandledCaps, Once, Rising
<1>4. Over = {} /\ Settled = {}
  BY <1>1, <1>2 DEF Over, Settled
<1>. QED
  BY <1>2, <1>3, <1>4 DEF Placed, Lifecycle!Init

(* The event loop implements the life of reactions: a reaction of a then()     *)
(* waits while its source has not settled and no longer, so that no wake-up is *)
(* lost; when the source settles, which it does once, its reactions get ready  *)
(* in the order of their registration; they start in the order they got ready, *)
(* each once, and end, or are dropped by an exception, never to start again.   *)
(* However calls, jobs, getters and nested loops interleave, a step of the     *)
(* engine is one of those or leaves all reactions where they are.              *)
THEOREM LifecycleImplemented == Spec => ImplementsLifecycle
<1>1. Init => Facts /\ Placed /\ Lifecycle!Init
  BY FactsInit, LivesInit
<1>2. Facts /\ Placed /\ [Next]_vars => Facts' /\ Placed' /\ [Lifecycle!Next]_Lifecycle!vars
  BY FactsStep, StepLives DEF Lives
<1>. QED
  BY <1>1, <1>2, PTL DEF Spec, ImplementsLifecycle, Lifecycle!Spec

=============================================================================
