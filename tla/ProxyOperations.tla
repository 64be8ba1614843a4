--------------------------- MODULE ProxyOperations ---------------------------
(* Objects, their prototypes and the proxies over them: the internal methods  *)
(* of ObjectInstance (Native/Object/ObjectInstance.cs) and ProxyInstance      *)
(* (Native/Proxy/ProxyInstance.cs) as a machine of requests.                  *)
(*                                                                            *)
(* A request of a script works its way along prototypes, from a proxy to its  *)
(* target and, for an assignment, to its receiver. The engine does that in    *)
(* one go until it calls a trap of a proxy: the handler is user code, which   *)
(* makes other requests and may revoke the proxy before the trap answers.     *)
EXTENDS PropertyDescriptors, Naturals, Sequences, FiniteSets

CONSTANTS
  Ordinary, Proxies, Null,
  Target,        \* the target of each proxy, an ordinary object
  Keys, RevokeKey, NoKey,
  Definitions,   \* the descriptors scripts ask for
  Reports,       \* the descriptors getOwnPropertyDescriptor traps report
  MaxRequests, MaxDepth

ASSUME ObjectsAssumption ==
  /\ Ordinary \cap Proxies = {} /\ Null \notin Ordinary \cup Proxies
  /\ Target \in [Proxies -> Ordinary]
  /\ NoKey \notin Keys
  /\ Definitions \subseteq Descriptors /\ Reports \subseteq Descriptors
  \* ToPropertyDescriptor throws otherwise.
  /\ \A d \in Definitions \cup Reports : ~(IsAccessorDescriptor(d) /\ IsDataDescriptor(d))

VARIABLES
  props,        \* _properties of each ordinary object
  extensible,   \* Extensible
  proto,        \* _prototype
  revoked,      \* the proxies whose _target and _handler are null
  requests,     \* the requests in progress, the innermost first
  answered,     \* the request that has ended since a script made one, with its answer
  seen,         \* what scripts have been told that must stay true
  count         \* how many requests scripts have made
objects == <<props, extensible, proto>>
vars == <<props, extensible, proto, revoked, requests, answered, seen, count>>

Objects == Ordinary \cup Proxies
Base(x) == IF x \in Proxies THEN Target[x] ELSE x

\* on: where the request has got to; then: what its answer is for; program: the
\* integrity function it is part of, with the keys that are left; trap: whether
\* user code runs for it.
Request(op, x, key) ==
  [op |-> op, origin |-> x, on |-> x, key |-> key, desc |-> Empty, value |-> Undefined,
   proto |-> Null, receiver |-> x, then |-> "script", program |-> "none", rest |-> {}, trap |-> FALSE]
Top == Head(requests)
Advance(f) == requests' = <<f>> \o Tail(requests)

Answer == [status |-> "ok", yes |-> FALSE, desc |-> Missing, value |-> Undefined, keys |-> {}, proto |-> Null]
Says(b) == [Answer EXCEPT !.yes = b]
Reads(v) == [Answer EXCEPT !.value = v]
Describes(d) == [Answer EXCEPT !.desc = d]
Lists(ks) == [Answer EXCEPT !.keys = ks]
Inherits(x) == [Answer EXCEPT !.proto = x]
TypeError == [Answer EXCEPT !.status = "TypeError"]
Crash == [Answer EXCEPT !.status = "crash"]     \* a .NET exception, no JavaScript one

-----------------------------------------------------------------------------
(* What an answer tells a script for ever *)

Facts(f, a) ==
  LET o == Base(f.origin)
      d == Completed(a.desc)
  IN IF a.status # "ok" \/ f.then # "script" THEN {}
     ELSE CASE f.op = "getOwn" /\ a.desc # Missing ->
                 IF d.configurable THEN {} ELSE {[about |-> o, key |-> f.key, fact |-> "fixed", desc |-> d]}
            [] f.op = "getOwn" /\ a.desc = Missing ->
                 IF [about |-> o, key |-> NoKey, fact |-> "closed", desc |-> Empty] \in seen
                 THEN {[about |-> o, key |-> f.key, fact |-> "gone", desc |-> Empty]} ELSE {}
            [] f.op = "isExtensible" ->
                 IF a.yes THEN {} ELSE {[about |-> o, key |-> NoKey, fact |-> "closed", desc |-> Empty]}
            [] f.op = "preventExtensions" ->
                 IF a.yes THEN {[about |-> o, key |-> NoKey, fact |-> "closed", desc |-> Empty]} ELSE {}
            [] OTHER -> {}

NoAnswer == [request |-> Request("none", Null, NoKey), answer |-> Answer]

\* The innermost request ends.
Finish(f, a) ==
  /\ requests' = Tail(requests)
  /\ answered' = [request |-> f, answer |-> a]
  /\ seen' = seen \cup Facts(f, a)

\* Its answer may also be a step of an assignment (OrdinarySetWithOwnDescriptor)
\* or of a program of the engine: SetIntegrityLevel and TestIntegrityLevel.
Becomes(f, op, key, desc, then) ==
  /\ Advance([f EXCEPT !.op = op, !.key = key, !.desc = desc, !.then = then, !.on = f.receiver, !.trap = FALSE])
  /\ UNCHANGED <<answered, seen>>
Concludes(f, answer) ==
  Finish([f EXCEPT !.op = IF f.program = "none" THEN "set" ELSE f.program, !.then = "script"], answer)

AfterAssign(f, a) ==
  IF a.desc = Missing THEN Becomes(f, "define", f.key, Plain(f.value), "script")
  ELSE IF IsAccessorDescriptor(a.desc) \/ ~On(a.desc.writable) THEN Concludes(f, Says(FALSE))
  ELSE Becomes(f, "define", f.key, OnlyValue(f.value), "script")

\* The next of the keys that are left.
Locking == [Empty EXCEPT !.configurable = FALSE]
Freezing == [Locking EXCEPT !.writable = FALSE]
NextKey(f) ==
  IF f.rest = {} THEN Concludes(f, Says(TRUE))
  ELSE \E k \in f.rest :
    LET g == [f EXCEPT !.rest = @ \ {k}]
    IN CASE f.program = "seal" -> Becomes(g, "define", k, Locking, "lock")
         [] f.program = "freeze" -> Becomes(g, "getOwn", k, Empty, "view")
         [] f.program \in {"isSealed", "isFrozen"} -> Becomes(g, "getOwn", k, Empty, "inspect")

AfterView(f, a) ==
  IF a.desc = Missing THEN NextKey(f)
  ELSE Becomes(f, "define", f.key, IF IsAccessorDescriptor(a.desc) THEN Locking ELSE Freezing, "lock")

InspectConfigurable(f, a) ==
  IF a.desc # Missing /\ On(a.desc.configurable) THEN Concludes(f, Says(FALSE)) ELSE NextKey(f)

AfterInspect(f, a) ==
  IF a.desc # Missing
       /\ (On(a.desc.configurable)
            \/ (f.program = "isFrozen" /\ IsDataDescriptor(a.desc) /\ On(a.desc.writable)))
  THEN Concludes(f, Says(FALSE)) ELSE NextKey(f)

Deliver(f, a) ==
  IF a.status # "ok" THEN Finish(f, a)
  ELSE CASE f.then = "script" -> Finish(f, a)
         [] f.then = "assign" -> AfterAssign(f, a)
         [] f.then = "close" ->
              IF a.yes THEN Becomes(f, "ownKeys", NoKey, Empty, "list") ELSE Concludes(f, Says(FALSE))
         [] f.then = "open" ->
              IF a.yes THEN Concludes(f, Says(FALSE)) ELSE Becomes(f, "ownKeys", NoKey, Empty, "list")
         [] f.then = "list" -> NextKey([f EXCEPT !.rest = a.keys])
         [] f.then = "view" -> AfterView(f, a)
         [] f.then = "lock" -> IF a.yes THEN NextKey(f) ELSE Concludes(f, TypeError)
         [] f.then = "inspect" -> AfterInspect(f, a)

-----------------------------------------------------------------------------
(* Ordinary objects *)

InProgress(op) == requests # <<>> /\ Top.op = op /\ ~Top.trap
OnOrdinary(op) == InProgress(op) /\ Top.on \in Ordinary
Own == props[Top.on][Top.key]
Untouched == UNCHANGED <<objects, revoked, count>>
Store(property) == props' = [props EXCEPT ![Top.on][Top.key] = property]

\* No own property: the request goes on to the prototype, or ends.
Climb(default) ==
  IF proto[Top.on] = Null THEN Deliver(Top, default)
  ELSE Advance([Top EXCEPT !.on = proto[Top.on]]) /\ UNCHANGED <<answered, seen>>

OwnGetOwn == OnOrdinary("getOwn") /\ Deliver(Top, Describes(Own)) /\ Untouched

OwnDefine ==
  /\ OnOrdinary("define")
  /\ LET r == ValidateAndApply(extensible[Top.on], Top.desc, Own)
     IN Store(r.property) /\ Deliver(Top, Says(r.ok))
  /\ UNCHANGED <<extensible, proto, revoked, count>>

OwnDelete ==
  /\ OnOrdinary("delete")
  /\ IF Own = Missing THEN Deliver(Top, Says(TRUE)) /\ UNCHANGED props
     ELSE IF On(Own.configurable) THEN Store(Missing) /\ Deliver(Top, Says(TRUE))
     ELSE Deliver(Top, Says(FALSE)) /\ UNCHANGED props
  /\ UNCHANGED <<extensible, proto, revoked, count>>

OwnHas ==
  /\ OnOrdinary("has")
  /\ IF Own # Missing THEN Deliver(Top, Says(TRUE)) ELSE Climb(Says(FALSE))
  /\ Untouched

\* A getter is user code after which the engine has nothing left to do: it
\* answers anything.
OwnGet ==
  /\ OnOrdinary("get")
  /\ IF Own = Missing THEN Climb(Reads(Undefined))
     ELSE IF ~IsAccessorDescriptor(Own) THEN Deliver(Top, Reads(OrElse(Own.value, Undefined)))
     ELSE IF OrElse(Own.get, Undefined) = Undefined THEN Deliver(Top, Reads(Undefined))
     ELSE \E v \in Values : Deliver(Top, Reads(v))
  /\ Untouched

\* Set: a writable own property of the receiver is written in place, any other
\* data property sends the request to the receiver.
OwnSet ==
  /\ OnOrdinary("set")
  /\ LET toReceiver == Becomes(Top, "getOwn", Top.key, Empty, "assign")
     IN IF Own # Missing /\ On(Own.writable) /\ Top.receiver = Top.on
        THEN Store([Own EXCEPT !.value = Top.value]) /\ Deliver(Top, Says(TRUE))
        ELSE /\ UNCHANGED props
             /\ IF Own = Missing
                THEN IF proto[Top.on] # Null
                     THEN Advance([Top EXCEPT !.on = proto[Top.on]]) /\ UNCHANGED <<answered, seen>>
                     ELSE toReceiver
                ELSE IF IsDataDescriptor(Own)
                THEN IF On(Own.writable) THEN toReceiver
                     ELSE Deliver(Top, Says(FALSE))
                ELSE Deliver(Top, Says(Own.set \in Functions))
  /\ UNCHANGED <<extensible, proto, revoked, count>>

OwnPreventExtensions ==
  /\ OnOrdinary("preventExtensions")
  /\ extensible' = [extensible EXCEPT ![Top.on] = FALSE]
  /\ Deliver(Top, Says(TRUE))
  /\ UNCHANGED <<props, proto, revoked, count>>

OwnIsExtensible == OnOrdinary("isExtensible") /\ Deliver(Top, Says(extensible[Top.on])) /\ Untouched

PresentKeys(o) == {k \in Keys : props[o][k] # Missing}
OwnOwnKeys == OnOrdinary("ownKeys") /\ Deliver(Top, Lists(PresentKeys(Top.on))) /\ Untouched

OwnGetPrototypeOf == OnOrdinary("getPrototypeOf") /\ Deliver(Top, Inherits(proto[Top.on])) /\ Untouched

\* SetPrototypeOf walks _prototype from the new one; that of a proxy leads
\* straight to the end of the chain.
Reaches(x, o) ==
  \E n \in 1 .. Cardinality(Ordinary) : \E path \in [1 .. n -> Ordinary] :
    path[1] = x /\ path[n] = o /\ \A i \in 1 .. n - 1 : proto[path[i]] = path[i + 1]

OwnSetPrototypeOf ==
  /\ OnOrdinary("setPrototypeOf")
  /\ LET o == Top.on
         allowed == extensible[o] /\ ~Reaches(Top.proto, o)
     IN /\ proto' = [proto EXCEPT ![o] = IF allowed THEN Top.proto ELSE @]
        /\ Deliver(Top, Says(allowed \/ proto[o] = Top.proto))
  /\ UNCHANGED <<props, extensible, revoked, count>>

OrdinaryStep ==
  \/ OwnGetOwn \/ OwnDefine \/ OwnDelete \/ OwnHas \/ OwnGet \/ OwnSet
  \/ OwnPreventExtensions \/ OwnIsExtensible \/ OwnOwnKeys
  \/ OwnGetPrototypeOf \/ OwnSetPrototypeOf

-----------------------------------------------------------------------------
(* Proxies: what becomes of the answer of a trap. t is the target.            *)

Accept(condition, answer) == IF condition THEN answer ELSE TypeError
IsLocked(p) == p # Missing /\ ~On(p.configurable)
IsConstant(p) == IsLocked(p) /\ IsDataDescriptor(p) /\ ~On(p.writable)

\* IsCompatiblePropertyDescriptor.
IsCompatible(t, desc, p) == ValidateAndApply(extensible[t], desc, p).ok

CheckGetOwnLoosely(t, p, d) ==
  IF d = Missing THEN Accept(p = Missing \/ (On(p.configurable) /\ extensible[t]), Describes(Missing))
  ELSE LET result == Completed(d)
       IN Accept(IsCompatible(t, result, p) /\ (~result.configurable => IsLocked(p)), Describes(result))

CheckGetOwn(t, p, d) ==
  IF d = Missing THEN Accept(p = Missing \/ (On(p.configurable) /\ extensible[t]), Describes(Missing))
  ELSE LET result == Completed(d)
       IN Accept(/\ IsCompatible(t, result, p)
                 /\ ~result.configurable =>
                      IsLocked(p) /\ (result.writable = FALSE => ~On(p.writable)), Describes(result))

CheckDefine(t, p, desc, yes) ==
  LET unconfigurable == desc.configurable = FALSE
  IN IF ~yes THEN Says(FALSE)
     ELSE IF p = Missing THEN Accept(extensible[t] /\ ~unconfigurable, Says(TRUE))
     ELSE Accept(/\ IsCompatible(t, desc, p)
                 /\ ~(On(p.configurable) /\ unconfigurable)
                 /\ ~(IsDataDescriptor(p) /\ IsLocked(p) /\ On(p.writable) /\ desc.writable = FALSE),
                 Says(TRUE))

CheckHas(t, p, yes) ==
  Accept(yes \/ p = Missing \/ (On(p.configurable) /\ extensible[t]), Says(yes))

CheckGetOfAccessors(t, p, v, same) ==
  Accept(IsLocked(p) /\ IsAccessorDescriptor(p) /\ OrElse(p.get, Undefined) = Undefined => v = Undefined,
         Reads(v))

\* Get compares references: an equal value that is another .NET object is not
\* the value.
CheckGet(t, p, v, same) ==
  Accept(/\ IsConstant(p) => v = p.value /\ same
         /\ IsLocked(p) /\ IsAccessorDescriptor(p) /\ OrElse(p.get, Undefined) = Undefined => v = Undefined,
         Reads(v))

CheckSet(t, p, v, yes) ==
  IF ~yes THEN Says(FALSE)
  ELSE Accept(/\ IsConstant(p) => Equal(p.value, v)
              /\ IsLocked(p) /\ IsAccessorDescriptor(p) => OrElse(p.set, Undefined) # Undefined, Says(TRUE))

CheckDeleteOfLocked(t, p, yes) ==
  IF ~yes THEN Says(FALSE) ELSE Accept(p = Missing \/ On(p.configurable), Says(TRUE))

CheckDelete(t, p, yes) ==
  IF ~yes THEN Says(FALSE)
  ELSE Accept(p = Missing \/ (On(p.configurable) /\ extensible[t]), Says(TRUE))

CheckOwnKeys(t, keys) ==
  LET locked == {k \in PresentKeys(t) : IsLocked(props[t][k])}
  IN Accept(locked \subseteq keys /\ (extensible[t] \/ keys = PresentKeys(t)), Lists(keys))

CheckPreventExtensions(t, yes) == Accept(~(yes /\ extensible[t]), Says(yes))
CheckIsExtensible(t, yes) == Accept(yes = extensible[t], Says(yes))

\* The answer null is cast to an object, and is never the target's prototype.
CheckGetPrototypeOf(t, x) ==
  IF extensible[t] THEN IF x = Null THEN Crash ELSE Inherits(x)
  ELSE Accept(x # Null /\ x = proto[t], Inherits(x))
CheckSetPrototypeOf(t, x, yes) ==
  IF ~yes THEN Says(FALSE)
  ELSE Accept(extensible[t] \/ (x # Null /\ x = proto[t]), Says(TRUE))

-----------------------------------------------------------------------------
(* Proxies: calling traps *)

OnProxy == requests # <<>> /\ Top.on \in Proxies /\ ~Top.trap

\* AssertNotRevoked, and the handler is asked for the trap. Get skips the trap
\* for one name.
CallTrap ==
  /\ OnProxy
  /\ IF Top.on \in revoked THEN Deliver(Top, TypeError)
     ELSE /\ Advance(IF Top.op = "get" /\ Top.key = RevokeKey THEN [Top EXCEPT !.on = Target[Top.on]]
                     ELSE [Top EXCEPT !.trap = TRUE])
          /\ UNCHANGED <<answered, seen>>
  /\ Untouched

Waiting(op) == requests # <<>> /\ Top.trap /\ Top.op = op
Through == Target[Top.on]
Sought == props[Through][Top.key]

RereadsAlways(op) == TRUE

\* All but Get read _target again after user code has run: revoked meanwhile,
\* it is null.
Rereads(op) == op # "get"
Settle(answer) == Deliver(Top, IF Top.on \in revoked /\ Rereads(Top.op) THEN Crash ELSE answer)

\* The handler has no such trap: the target answers.
TrapAbsent ==
  /\ requests # <<>> /\ Top.trap
  /\ IF Top.on \in revoked /\ Rereads(Top.op) THEN Deliver(Top, Crash)
     ELSE Advance([Top EXCEPT !.on = Through, !.trap = FALSE]) /\ UNCHANGED <<answered, seen>>
  /\ Untouched

TrapThrows == requests # <<>> /\ Top.trap /\ Deliver(Top, TypeError) /\ Untouched

TrapGetOwn == Waiting("getOwn") /\ Untouched /\
  \E d \in Reports \cup {Missing} : Settle(CheckGetOwn(Through, Sought, d))
TrapGet == Waiting("get") /\ Untouched /\
  \E v \in Values, same \in BOOLEAN : Settle(CheckGet(Through, Sought, v, same))
TrapOwnKeys == Waiting("ownKeys") /\ Untouched /\
  \E keys \in SUBSET Keys : Settle(CheckOwnKeys(Through, keys))
TrapIsExtensible == Waiting("isExtensible") /\ Untouched /\
  \E yes \in BOOLEAN : Settle(CheckIsExtensible(Through, yes))
TrapGetPrototypeOf == Waiting("getPrototypeOf") /\ Untouched /\
  \E x \in Objects \cup {Null} : Settle(CheckGetPrototypeOf(Through, x))

\* The traps that answer yes or no look at the target for one answer only.
TrapHas == Waiting("has") /\ Untouched /\
  \/ Deliver(Top, Says(TRUE))
  \/ Settle(CheckHas(Through, Sought, FALSE))
Refusal(op) == Waiting(op) /\ Deliver(Top, Says(FALSE)) /\ Untouched
TrapDefine == Refusal("define") \/
  (Waiting("define") /\ Settle(CheckDefine(Through, Sought, Top.desc, TRUE)) /\ Untouched)
TrapSet == Refusal("set") \/
  (Waiting("set") /\ Settle(CheckSet(Through, Sought, Top.value, TRUE)) /\ Untouched)
TrapDelete == Refusal("delete") \/
  (Waiting("delete") /\ Settle(CheckDelete(Through, Sought, TRUE)) /\ Untouched)
TrapPreventExtensions == Refusal("preventExtensions") \/
  (Waiting("preventExtensions") /\ Settle(CheckPreventExtensions(Through, TRUE)) /\ Untouched)
TrapSetPrototypeOf == Refusal("setPrototypeOf") \/
  (Waiting("setPrototypeOf") /\ Settle(CheckSetPrototypeOf(Through, Top.proto, TRUE)) /\ Untouched)

ProxyStep ==
  \/ CallTrap \/ TrapAbsent \/ TrapThrows
  \/ TrapGetOwn \/ TrapGet \/ TrapOwnKeys \/ TrapIsExtensible \/ TrapGetPrototypeOf \/ TrapHas
  \/ TrapDefine \/ TrapSet \/ TrapDelete \/ TrapPreventExtensions \/ TrapSetPrototypeOf

-----------------------------------------------------------------------------
(* Scripts: at the top, and in the traps of a request *)

UserCode == requests # <<>> => Top.trap
Scripting == count < MaxRequests /\ UserCode /\ Len(requests) < MaxDepth
Make(f) ==
  /\ Scripting /\ count' = count + 1
  /\ requests' = <<f>> \o requests
  /\ answered' = NoAnswer
  /\ UNCHANGED <<objects, revoked, seen>>

AskKey == \E op \in {"getOwn", "has", "get", "delete"}, x \in Objects, k \in Keys : Make(Request(op, x, k))
AskObject == \E op \in {"isExtensible", "preventExtensions", "ownKeys", "getPrototypeOf"}, x \in Objects :
  Make(Request(op, x, NoKey))
AskDefine == \E x \in Objects, k \in Keys, d \in Definitions :
  Make([Request("define", x, k) EXCEPT !.desc = d])
AskSet == \E x \in Objects, k \in Keys, v \in Values : Make([Request("set", x, k) EXCEPT !.value = v])
AskSetPrototypeOf == \E x \in Objects, y \in Objects \cup {Null} :
  Make([Request("setPrototypeOf", x, NoKey) EXCEPT !.proto = y])

AskIntegrity == \E x \in Objects :
  \/ \E program \in {"seal", "freeze"} :
       Make([Request("preventExtensions", x, NoKey) EXCEPT !.then = "close", !.program = program])
  \/ \E program \in {"isSealed", "isFrozen"} :
       Make([Request("isExtensible", x, NoKey) EXCEPT !.then = "open", !.program = program])

\* Proxy.revocable's revoke, which user code may call while a trap runs.
Revoke ==
  /\ UserCode
  /\ \E p \in Proxies \ revoked : revoked' = revoked \cup {p}
  /\ UNCHANGED <<objects, requests, answered, seen, count>>

Init ==
  /\ props \in [Ordinary -> [Keys -> {Missing}]]
  /\ extensible = [o \in Ordinary |-> TRUE]
  /\ proto = [o \in Ordinary |-> Null]
  /\ revoked = {}
  /\ requests = <<>>
  /\ answered = NoAnswer
  /\ seen = {}
  /\ count = 0

ScriptStep == AskKey \/ AskObject \/ AskDefine \/ AskSet \/ AskSetPrototypeOf \/ AskIntegrity \/ Revoke

Next == OrdinaryStep \/ ProxyStep \/ ScriptStep

Spec == Init /\ [][Next]_vars
=============================================================================
