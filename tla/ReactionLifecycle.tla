-------------------------- MODULE ReactionLifecycle --------------------------
(***************************************************************************)
(* What the event loop promises to a program, without promises, jobs or a  *)
(* stack.  A source settles once.  A reaction that then() registers waits  *)
(* while its source has not settled, and no longer: when it settles, its   *)
(* reactions get ready together, in the order of their registration, and   *)
(* one that is registered later is ready at once.  Ready reactions start   *)
(* in the order they got ready, each once, and end or are dropped by an    *)
(* exception.                                                              *)
(***************************************************************************)
EXTENDS Naturals

CONSTANTS
  Reactions,   \* reactions, numbered in the order of their registration
  Sources      \* what they wait for

VARIABLES
  settled,   \* the sources that have settled
  waiting,   \* per source, the reactions that wait for it
  ready,     \* the reactions to run next
  ahead,     \* pairs of ready reactions: whose turn comes before whose
  running,   \* started, not ended
  over       \* ended or dropped

vars == <<settled, waiting, ready, ahead, running, over>>

Registered == (UNION {waiting[q] : q \in Sources}) \cup ready \cup running \cup over

Init ==
  /\ settled = {} /\ waiting = [q \in Sources |-> {}]
  /\ ready = {} /\ ahead = {} /\ running = {} /\ over = {}

Register(r, q) ==
  /\ r \notin Registered
  /\ \/ /\ q \notin settled
        /\ waiting' = [waiting EXCEPT ![q] = @ \cup {r}]
        /\ UNCHANGED <<ready, ahead>>
     \/ /\ q \in settled
        /\ ready' = ready \cup {r}
        /\ ahead' = ahead \cup (ready \X {r})
        /\ UNCHANGED waiting
  /\ UNCHANGED <<settled, running, over>>

HasTurn(r) == r \in ready /\ \A pair \in ahead : pair[2] # r
AheadWithout(r) == {pair \in ahead : pair[1] # r /\ pair[2] # r}

\* The sources in Q settle. Their reactions get their turns after those that
\* are still ready, whose turns are in the given order.
Woken(Q) == UNION {waiting[q] : q \in Q}
Trigger(Q, still, order) ==
  /\ Q \cap settled = {} /\ settled' = settled \cup Q
  /\ ready' = still \cup Woken(Q)
  /\ ahead' = order \cup (still \X Woken(Q))
                    \cup {pair \in Woken(Q) \X Woken(Q) : pair[1] < pair[2]}
  /\ waiting' = [q \in Sources |-> IF q \in Q THEN {} ELSE waiting[q]]

Settle(q) == Trigger({q}, ready, ahead) /\ UNCHANGED <<running, over>>

Start(r) ==
  /\ HasTurn(r)
  /\ ready' = ready \ {r} /\ ahead' = AheadWithout(r)
  /\ running' = running \cup {r}
  /\ UNCHANGED <<settled, waiting, over>>

\* A reaction ends; its own promise may settle with it.
End(r, Q) ==
  /\ r \in running
  /\ running' = running \ {r}
  /\ over' = over \cup {r}
  /\ Trigger(Q, ready, ahead)

\* A reaction without a handler starts and ends at once.
PassOn(r, Q) ==
  /\ HasTurn(r)
  /\ over' = over \cup {r}
  /\ Trigger(Q, ready \ {r}, AheadWithout(r))
  /\ UNCHANGED running

Drop(D) ==
  /\ running' = running \ D
  /\ over' = over \cup D
  /\ UNCHANGED <<settled, waiting, ready, ahead>>

AtMostOne == {{}} \cup {{q} : q \in Sources}

Next ==
  \/ \E r \in Reactions :
       \/ \E q \in Sources : Register(r, q)
       \/ Start(r)
       \/ \E Q \in AtMostOne : End(r, Q) \/ PassOn(r, Q)
  \/ \E q \in Sources : Settle(q)
  \/ \E D \in SUBSET running : Drop(D)

Spec == Init /\ [][Next]_vars
=============================================================================
