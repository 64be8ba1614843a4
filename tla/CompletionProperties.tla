------------------------- MODULE CompletionProperties -------------------------
(***************************************************************************)
(* What StatementCompletions promises: every property the runs check.      *)
(***************************************************************************)
EXTENDS StatementCompletions

Environments == {"block", "loop", "tdz", "iteration", "catch", Mark}
Completions == [type : Abrupt \cup {"Run", "Normal", "Exception"},
                label : Labels \cup {None}, home : 0 .. MaxDepth]

(* Every variable has its type; only a try that finalizes and a for-of that     *)
(* closes hold a completion, and only a for-of has an iterator.                 *)
TypeOK ==
  /\ Height <= MaxDepth
  /\ \A i \in Positions :
       /\ stack[i].kind \in Loops \cup Lists \cup {"try", "labeled", "switch"}
       /\ stack[i].label \in Labels \cup {None}
       /\ stack[i].held \in Completions
       /\ stack[i].held # Normal => stack[i].phase \in {"finally", "closing"}
       /\ stack[i].scope \in Seq(Environments)
       /\ stack[i].iterator # "none" => stack[i].kind = "forOf"
  /\ reg \in Completions
  /\ target \in Labels \cup {None}
  /\ scope \in Seq(Environments)

-----------------------------------------------------------------------------
\* A switch with a label does not take a break without one, and a while with a
\* label no continue without one.
Understands(f, c) ==
  c.label = None /\ f.label # None =>
    /\ f.kind # "switch"
    /\ f.kind = "while" => c.type = "Break"
OnItsWay == Jumps(reg) /\ reg.home \in Positions
Delayed == \E i \in DOMAIN stack' : i <= 2 /\ stack'[i].held = reg

(* A break or continue ends what it names and nothing else: the statements in   *)
(* between hand it on or delay it for a finalizer or return(), and the one it   *)
(* means is left or goes on to its next round.  The code finds that statement   *)
(* by comparing one label, kept for the whole engine, at every statement on the *)
(* way.  There are two exceptions: code a finalizer or return() runs may leave  *)
(* another label, by forgetting it or by a jump in a function it calls, and the *)
(* delayed jump is then lost (home 0); and a statement that does not understand *)
(* the jump hands it on like those in between.                                  *)
JumpsArrive ==
  [][ OnItsWay =>
        IF reg.home < Height \/ ~Understands(Top, reg) THEN reg' = reg \/ Delayed
        ELSE /\ reg' \in {Run, Normal}
             /\ (reg.type = "Continue") =
                  (Len(stack') = Height /\ stack'[1].phase # "closing") ]_vars

(* A try statement that has a finalizer is left through it only, whatever ended *)
(* its block or its catch clause, and with what it held or what the finalizer   *)
(* made of it; the exception is a catch parameter that cannot be bound.         *)
FinalizersRun ==
  [][ (stack # <<>> /\ Top.kind = "try" /\ Top.finally /\ Len(stack') < Height) =>
        \/ Top.phase = "finally" /\ reg'.type = (IF reg = Normal THEN Top.held ELSE reg).type
        \/ Top.phase = "block" /\ Top.catch /\ reg' = Exception ]_vars

(* for-of is left with its iterator closed, however its body, the binding of a  *)
(* value or a jump further out ends it, once it has been given a value; what    *)
(* it had to hand on then comes out unless return() throws, and an exception    *)
(* comes out even so.                                                           *)
IteratorsClosed ==
  [][ (stack # <<>> /\ Top.kind = "forOf" /\ Len(stack') < Height) =>
        /\ Top.phase = "closing" \/ Top.iterator = "none"
        /\ Top.phase = "closing" =>
             \/ reg'.type = Top.held.type
             \/ reg' = Exception /\ Top.held.type # "Throw" ]_vars

-----------------------------------------------------------------------------
\* The environment a statement has put on the chain for what it executes.
Adds(f) ==
  CASE f.kind = "block" -> <<"block">>
    [] f.kind = "switch" -> <<"block">>
    [] f.kind = "for" -> <<"loop">>
    [] f.kind = "forOf" /\ f.phase = "head" -> <<"tdz">>
    [] f.kind = "forOf" /\ f.phase = "body" -> <<"iteration">>
    [] f.kind = "try" /\ f.phase = "catch" -> <<"catch">>
    [] OTHER -> <<>>

\* The environments in sc are those in base and some an exception has left behind.
Continues(base, sc) ==
  /\ Len(base) <= Len(sc)
  /\ \A i \in DOMAIN base : sc[i] = base[i]
  /\ \A i \in Len(base) + 1 .. Len(sc) : sc[i] = Mark
\* The chain a statement finds is the one its surroundings found and what they add.
Given(s, i) == IF i = Len(s) THEN <<>> ELSE s[i + 1].scope \o Adds(s[i + 1])
Found(s, sc, i) == IF i = 0 THEN sc ELSE s[i].scope

(* Names are looked up in the environments of the statements that are being     *)
(* executed: whatever has ended on the way, by a jump, an exception or normally,*)
(* each statement has found the environments of those around it, and so will    *)
(* the next, but for an environment an exception has left behind (a catch       *)
(* parameter, the head of a for-of, a selector of a switch).                    *)
ScopeRestored == \A i \in 0 .. Height : Continues(Given(stack, i), Found(stack, scope, i))
=============================================================================
