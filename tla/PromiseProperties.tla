-------------------------- MODULE PromiseProperties --------------------------
(***************************************************************************)
(* What PromiseJobs promises: every property the runs check, with the      *)
(* definitions they share.                                                 *)
(***************************************************************************)
EXTENDS PromiseJobs

(* Every variable has its type; a settled promise has a value. *)
TypeOK ==
  /\ created \in 0 .. NumPromises
  /\ state \in [Promises -> {"Pending", "Fulfilled", "Rejected"}]
  /\ value \in [Promises -> Values \cup {NoValue}]
  /\ fulfillReactions \in [Promises -> Seq(Reactions)]
  /\ rejectReactions \in [Promises -> Seq(Reactions)]
  /\ pairs \in [Promises -> Nat]
  /\ live \subseteq Pairs /\ exposed \subseteq Pairs /\ manual \subseteq Pairs
  /\ queue \in Seq(Jobs)
  /\ stack \in Seq(Frames)
  /\ ops \in 0 .. MaxOps
  /\ faulted \in BOOLEAN
  /\ origin \in [Promises -> [source : Caps, onF : BOOLEAN, onR : BOOLEAN]]
  /\ lost \subseteq Caps
  /\ unwound \in BOOLEAN
  /\ \A p \in Promises : state[p] # "Pending" => value[p] \in Values

(* "Promise should be in Pending state" (PromiseInstance.cs) is never thrown: *)
(* however calls, jobs, getters and nested loops interleave, nobody settles a *)
(* promise twice.                                                             *)
NoDoubleSettle == ~faulted

-----------------------------------------------------------------------------
(* The right to settle a promise: a resolving function not used yet, a queued *)
(* thenable job, or a "then" getter that is running for it.  The parts of the *)
(* state are parameters, since one step takes the right from one part and     *)
(* gives it to another.                                                       *)

HasThenable(q, p) == \E i \in 1 .. Len(q) : q[i].kind = "Thenable" /\ q[i].cap = p
HasGetter(s, p) == \E i \in 1 .. Len(s) : s[i].kind = "getthen" /\ s[i].p = p
Nobody(lv, q, s, p) ==
  (\A a \in lv : a[1] # p) /\ ~HasThenable(q, p) /\ ~HasGetter(s, p)

SettleRights(cr, lv, q, s, st) ==
  /\ \A a, b \in lv : a[1] = b[1] => a = b
  /\ \A i, j \in 1 .. Len(q) :
       q[i].kind = "Thenable" /\ q[j].kind = "Thenable" /\ q[i].cap = q[j].cap => i = j
  /\ \A i, j \in 1 .. Len(s) :
       s[i].kind = "getthen" /\ s[j].kind = "getthen" /\ s[i].p = s[j].p => i = j
  /\ \A a \in lv : /\ ~HasThenable(q, a[1]) /\ ~HasGetter(s, a[1])
                    /\ a[1] <= cr /\ st[a[1]] = "Pending"
  /\ \A i \in 1 .. Len(q) : q[i].kind = "Thenable" =>
       ~HasGetter(s, q[i].cap) /\ q[i].cap <= cr /\ st[q[i].cap] = "Pending"
  /\ \A i \in 1 .. Len(s) : s[i].kind = "getthen" =>
       s[i].p <= cr /\ st[s[i].p] = "Pending"
  /\ \A p \in Promises : p > cr => st[p] = "Pending"

(* At most one holder has the right to settle a promise, and only while it is *)
(* pending: each pair of CreateResolvingFunctions has its own alreadyResolved,*)
(* so it is the order of the calls that keeps two pairs from being live.      *)
OneSettler == SettleRights(created, live, queue, stack, state)

-----------------------------------------------------------------------------
(* The promises that then() derived. *)

Derived == {d \in Promises : origin[d].source # NoPromise}

(* A rejection nobody handles reaches the end of its chain with its reason: a *)
(* derived promise without an onRejected handler mirrors its rejected source. *)
RejectionPropagates ==
  \A d \in Derived :
    LET q == origin[d].source
    IN (state[q] = "Rejected" /\ ~origin[d].onR /\ state[d] # "Pending")
         => (state[d] = "Rejected" /\ value[d] = value[q])

-----------------------------------------------------------------------------
(* Who may still settle a pending promise. *)

HandlerHolds(h, pair) == h.kind \in {"resolve", "reject"} /\ h.pair = pair
HeldByJob(pair) ==
  \E i \in 1 .. Len(queue) :
    /\ queue[i].kind # "Thenable"
    /\ (queue[i].cap = pair[1] /\ pair[2] = 1) \/ HandlerHolds(queue[i].handler, pair)
HeldByReaction(pair) ==
  \E q \in Promises : \E i \in 1 .. Len(fulfillReactions[q]) :
    LET r == fulfillReactions[q][i]
    IN state[q] = "Pending"
       /\ ((r.cap = pair[1] /\ pair[2] = 1) \/ HandlerHolds(r.handler, pair))
HeldByFrame(pair) ==
  \E i \in 1 .. Len(stack) :
    stack[i].kind \in {"handler", "async"} /\ <<stack[i].p, stack[i].n>> = pair
BeingResolved(p) ==
  \/ \E i \in 1 .. Len(queue) : queue[i].kind = "Thenable" /\ queue[i].cap = p
  \/ \E i \in 1 .. Len(stack) : stack[i].kind = "getthen" /\ stack[i].p = p

(* No promise is orphaned: as long as it is pending somebody can still settle *)
(* it, be it a holder of live resolving functions, a thenable job, or code on *)
(* the stack; except when an exception unwound the code that would have.      *)
PendingHasOwner ==
  \A p \in 1 .. created :
    \/ state[p] # "Pending" \/ p \in lost \/ BeingResolved(p)
    \/ \E pair \in live :
         /\ pair[1] = p
         /\ \/ pair \in exposed \cup manual
            \/ HeldByJob(pair) \/ HeldByReaction(pair) \/ HeldByFrame(pair)

-----------------------------------------------------------------------------
(* "Should be called only in Settled state" (JsValueExtensions.UnwrapIfPromise): *)
(* await unwraps its operand only when the operand is settled.                   *)
AwaitUnwrapsSettled ==
  LoopOnTop /\ Top.kind = "await" /\ queue = <<>> /\ Top.x \in Promises
    => state[Top.x] # "Pending"

(* A drain that begins (a script ran to its end, or the host settled a manual *)
(* promise) runs every job, those enqueued meanwhile included, or ends by an  *)
(* exception that unwinds it.                                                 *)
Draining == \E i \in 1 .. Len(stack) : stack[i].kind = "drain"
DrainCompletes == Draining ~> (queue = <<>> \/ unwound)
-----------------------------------------------------------------------------
(* The event loop implements ReactionLifecycle: the reactions of the user's   *)
(* then() calls wait, get ready, start and end as it says.                    *)

\* The derived promise of a reaction that is queued or running, and those of a
\* list, the queue or the stack, place by place.
JobCap(job) == IF job.kind = "Thenable" THEN NoPromise ELSE job.cap
FrameCap(f) == IF f.kind = "handler" THEN f.p ELSE NoPromise
RegisteredCaps(reactions) == [i \in 1 .. Len(reactions) |-> reactions[i].cap]
QueuedCaps(q) == [i \in 1 .. Len(q) |-> JobCap(q[i])]
HandledCaps(s) == [i \in 1 .. Len(s) |-> FrameCap(s[i])]

Members(caps) == {caps[i] : i \in 1 .. Len(caps)} \ {NoPromise}
Precedence(caps) ==
  {pair \in Members(caps) \X Members(caps) :
     \E i, j \in 1 .. Len(caps) : i < j /\ caps[i] = pair[1] /\ caps[j] = pair[2]}

Settled == {q \in Promises : state[q] # "Pending"}
Waiting == [q \in Promises |-> Members(RegisteredCaps(fulfillReactions[q]))]
Ready == Members(QueuedCaps(queue))
Ahead == Precedence(QueuedCaps(queue))
Running == Members(HandledCaps(stack))
Over == Derived \ ((UNION {Waiting[q] : q \in Promises}) \cup Ready \cup Running)

Lifecycle == INSTANCE ReactionLifecycle WITH
  Reactions <- Promises, Sources <- Promises,
  settled <- Settled, waiting <- Waiting, ready <- Ready, ahead <- Ahead,
  running <- Running, over <- Over

(* Every step of the engine is a step of the lifecycle or leaves it alone. *)
ImplementsLifecycle == Lifecycle!Spec
=============================================================================
