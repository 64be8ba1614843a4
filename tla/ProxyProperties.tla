--------------------------- MODULE ProxyProperties ---------------------------
(* What the object model promises scripts, whatever the handlers of its       *)
(* proxies answer and whatever they do before they answer.                    *)
EXTENDS ProxyOperations

Ecma == INSTANCE EcmaObjects

Operations == {"getOwn", "define", "delete", "has", "get", "set", "preventExtensions", "isExtensible",
               "ownKeys", "getPrototypeOf", "setPrototypeOf"}
Requests ==
  [op : Operations, origin : Objects, on : Objects, key : Keys \cup {NoKey}, desc : Descriptors,
   value : Values, proto : Objects \cup {Null}, receiver : Objects,
   then : {"script", "assign", "close", "open", "list", "view", "lock", "inspect"},
   program : {"none", "seal", "freeze", "isSealed", "isFrozen"}, rest : SUBSET Keys, trap : BOOLEAN]
AllFacts == [about : Ordinary, key : Keys \cup {NoKey}, fact : {"fixed", "gone", "closed"}, desc : Descriptors]

\* A property as a script sees it.
Visible(p) == IF p = Missing THEN Missing ELSE Completed(p)

\* Objects store complete kinds of properties, requests stay well formed, and
\* only requests on proxies wait for user code.
TypeOK ==
  /\ props \in [Ordinary -> [Keys -> Descriptors \cup {Missing}]]
  /\ \A o \in Ordinary, k \in Keys : props[o][k] # Missing =>
       IsAccessorDescriptor(props[o][k]) # IsDataDescriptor(props[o][k])
         /\ (IsDataDescriptor(props[o][k]) => props[o][k].value # Absent)
  /\ extensible \in [Ordinary -> BOOLEAN]
  /\ proto \in [Ordinary -> Objects \cup {Null}]
  /\ revoked \subseteq Proxies
  /\ \A i \in DOMAIN requests :
       requests[i] \in Requests /\ (requests[i].trap => requests[i].on \in Proxies)
  /\ seen \subseteq AllFacts

-----------------------------------------------------------------------------
(* What has been seen stays true *)

Agree(p, d) ==
  /\ ~On(p.configurable) /\ On(p.enumerable) = d.enumerable
  /\ IsAccessorDescriptor(p) = IsAccessorDescriptor(d)
  /\ IsAccessorDescriptor(p) => OrElse(p.get, Undefined) = d.get /\ OrElse(p.set, Undefined) = d.set
  /\ ~IsAccessorDescriptor(p) /\ ~On(d.writable) => ~On(p.writable) /\ Equal(p.value, d.value)

FactsHold ==
  \A f \in seen :
    CASE f.fact = "closed" -> ~extensible[f.about]
      [] f.fact = "gone" -> ~extensible[f.about] /\ props[f.about][f.key] = Missing
      [] f.fact = "fixed" -> props[f.about][f.key] # Missing /\ Agree(props[f.about][f.key], f.desc)
IntegrityReal ==
  LET f == answered.request
      o == Base(f.origin)
  IN f.op \in {"seal", "freeze", "isSealed", "isFrozen"} /\ answered.answer.status = "ok" /\ answered.answer.yes
     => /\ ~extensible[o]
        /\ \A k \in PresentKeys(o) :
             /\ IsLocked(props[o][k])
             /\ f.op = "isFrozen" => IsAccessorDescriptor(props[o][k]) \/ IsConstant(props[o][k])

\* What scripts have been told of an object, directly or through a proxy, that
\* ECMAScript makes permanent is so for good: a property reported as not
\* configurable is there with these attributes, an object reported as closed
\* stays closed, and a property missing from it never appears. When isSealed or
\* isFrozen answers yes, and when seal has succeeded, the target is closed,
\* every property locked and, if frozen, every value constant. However its
\* handler lies, a proxy cannot promise what its target may still break
\* (ProxyInstance.cs:188-243, ObjectInstance.cs:711-905, 1444-1488).
ObservationsHold == FactsHold /\ IntegrityReal

Answered == answered' # answered /\ answered'.answer.status = "ok"
Known(f, fact) == \E s \in seen : s.about = Base(f.origin) /\ s.key = f.key /\ s.fact = fact
Fixed(f) == {s.desc : s \in {t \in seen : t.about = Base(f.origin) /\ t.key = f.key /\ t.fact = "fixed"}}

Here(f) == Base(f.on) = Base(f.origin)
\* The lookup goes on from the object it is about, to a prototype.
Passes ==
  /\ requests # <<>> /\ Len(requests') = Len(requests)
  /\ Here(Top) /\ ~Here(Head(requests'))

\* An answer and the facts about what the request was about.
Contradicts(f, a, d) ==
  LET constant == IsDataDescriptor(d) /\ ~d.writable
  IN \/ Here(f) /\ \/ f.op = "has" /\ ~a.yes
                   \/ f.op = "get" /\ constant /\ ~Equal(a.value, d.value)
                   \/ f.op = "get" /\ d.get = Undefined /\ a.value # Undefined
                   \/ f.op = "set" /\ constant /\ a.yes /\ ~Equal(f.value, d.value)
     \/ f.op = "delete" /\ a.yes
     \/ f.op = "getOwn" /\ f.then = "script" /\ ~(a.desc # Missing /\ Agree(a.desc, d))
Consistent(f, a) ==
  LET closed == \E s \in seen : s.fact = "closed" /\ s.about = Base(f.origin)
  IN /\ \A d \in Fixed(f) : ~Contradicts(f, a, d)
     /\ closed /\ f.op = "isExtensible" => ~a.yes
     /\ f.op = "getOwn" /\ Known(f, "gone") => a.desc = Missing
     /\ f.op = "ownKeys" =>
          \A s \in seen : s.about = Base(f.origin) =>
            /\ s.fact = "fixed" => s.key \in a.keys
            /\ s.fact = "gone" => s.key \notin a.keys

\* No later answer contradicts an earlier one: what was fixed is neither missing
\* nor read as another value, is not deleted and not overwritten with another
\* one, what was closed is not reported open, and its keys are what was seen
\* (the checks after each trap, ProxyInstance.cs:118-460). A lookup that has gone
\* on to a prototype knows nothing of what is fixed after that; none goes on past
\* a property that was seen fixed.
AnswersConsistent ==
  [][/\ Answered => Consistent(answered'.request, answered'.answer)
     /\ Passes => Fixed(Top) = {}]_vars

-----------------------------------------------------------------------------
(* The code decides as ECMAScript does *)

\* A value that == takes for the property's and that is another.
OtherZero(p, v) == p # Missing /\ v # p.value /\ Equal(v, p.value)

DefinitionConforms(open, desc, p) ==
  LET r == ValidateAndApply(open, desc, p)
  IN \/ p # Missing /\ NothingNew(desc, p) /\ desc.value # p.value
     \/ /\ r.ok = Ecma!Compatible(open, desc, Visible(p))
        /\ Visible(r.property) = IF r.ok THEN Ecma!Defined(desc, Visible(p)) ELSE Visible(p)
DefinitionsConform ==
  \A o \in Ordinary, k \in Keys, desc \in Definitions \cup Reports :
    DefinitionConforms(extensible[o], desc, props[o][k])

\* The checks after the traps of a proxy over t, p one of its properties.
Accepts(a) == a.status = "ok"
GetOwnConforms(t, p, d) ==
  \/ Accepts(CheckGetOwn(t, p, d)) = Ecma!GetOwnAccepted(extensible[t], Visible(p), Visible(d))
  \/ d # Missing /\ OtherZero(p, Completed(d).value)
DefineConforms(t, p, d) ==
  \/ Accepts(CheckDefine(t, p, d, TRUE)) = Ecma!DefineAccepted(extensible[t], Visible(p), d)
  \/ OtherZero(p, d.value)
LookupsConform(t, p) ==
  /\ Accepts(CheckHas(t, p, FALSE)) = Ecma!HasNotAccepted(extensible[t], Visible(p))
  /\ Accepts(CheckDelete(t, p, TRUE)) = Ecma!DeleteAccepted(extensible[t], Visible(p))
ValuesConform(t, p, v) ==
  /\ Accepts(CheckGet(t, p, v, TRUE)) = Ecma!GetAccepted(Visible(p), v)
  /\ Accepts(CheckSet(t, p, v, TRUE)) = Ecma!SetAccepted(Visible(p), v) \/ OtherZero(p, v)
KeysConform(t, keys) ==
  Accepts(CheckOwnKeys(t, keys)) =
    Ecma!OwnKeysAccepted(extensible[t], [k \in Keys |-> Visible(props[t][k])], keys)
PrototypesConform(t, x) ==
  /\ Accepts(CheckGetPrototypeOf(t, x)) = Ecma!PrototypeAccepted(extensible[t], proto[t], x)
  /\ Accepts(CheckSetPrototypeOf(t, x, TRUE)) = Ecma!PrototypeAccepted(extensible[t], proto[t], x)
AnswersConform ==
  \A t \in {Target[x] : x \in Proxies} :
    /\ \A k \in Keys :
         /\ \A d \in Reports \cup {Missing} : GetOwnConforms(t, props[t][k], d)
         /\ \A d \in Definitions : DefineConforms(t, props[t][k], d)
         /\ LookupsConform(t, props[t][k])
         /\ \A v \in Values : ValuesConform(t, props[t][k], v)
    /\ \A keys \in SUBSET Keys : KeysConform(t, keys)
    /\ \A x \in Objects : PrototypesConform(t, x)
CrashesKnown ==
  answered.answer.status = "crash" =>
    LET f == answered.request IN f.op # "get" /\ (f.on \in revoked \/ f.op = "getPrototypeOf")

\* The code decides as ECMAScript does. Whatever descriptor a script asks for is
\* accepted or refused and leaves the property that ECMAScript says, but for a
\* definition that names every field as it is and the other zero, which is taken
\* for no change (ObjectInstance.cs:711-905). Whatever a trap answers is accepted
\* exactly when ECMAScript accepts it, but for the other zero and an equal value
\* in another .NET object (ProxyInstance.cs:118-460). And a request ends with a
\* .NET exception only when the trap has revoked its proxy, or when
\* getPrototypeOf has answered null (ProxyInstance.cs:386).
DecisionsConform == CrashesKnown /\ (requests = <<>> => DefinitionsConform /\ AnswersConform)
=============================================================================
