---------------------------- MODULE ProxyProofs -----------------------------
(***************************************************************************)
(* What the object model promises holds for any objects, proxies, keys and *)
(* descriptors, any number of requests and any depth of traps.             *)
(*                                                                         *)
(* The argument has four parts. Each step of a request replies, moves on   *)
(* or becomes an assignment (Shape), and a reply is Truthful of the object *)
(* it is about and Effective: the checks of the traps are needed here, and *)
(* only here. Each step changes objects in one direction (Evolves): what   *)
(* is locked or closed stays so. The inductive invariant IInv adds to the  *)
(* facts that scripts have learnt what each request in progress is for,    *)
(* and what an integrity function has made sure of so far. And the checks  *)
(* agree with ECMAScript's for every property that an object may store.    *)
(***************************************************************************)
EXTENDS ProxyProperties, TLAPS

-----------------------------------------------------------------------------
(* Descriptors: what scripts ask for and what objects store. *)

Asked == {d \in Descriptors : ~(IsAccessorDescriptor(d) /\ IsDataDescriptor(d))}
Stored ==
  {p \in Descriptors : /\ IsAccessorDescriptor(p) # IsDataDescriptor(p)
                       /\ IsDataDescriptor(p) => p.value # Absent}

(* Flags that are absent are off.                                               *)
LEMMA FlagFacts ==
  /\ Absent \notin Values /\ Absent \notin Functions /\ Absent \notin BOOLEAN
  /\ Undefined \in Values /\ Undefined # Absent /\ Undefined \notin Functions
  /\ Undefined \in Callables
  /\ Zero \in Values /\ MinusZero \in Values
  /\ ~On(Absent) /\ ~On(FALSE) /\ On(TRUE)
  /\ Absent # TRUE /\ Absent # FALSE
  /\ Absent \in Flags /\ TRUE \in Flags /\ FALSE \in Flags
  BY ValuesAssumption, FunctionsAssumption, AbsentAssumption DEF On, Flags, Callables

(* No descriptor stands for a property that is missing.                         *)
LEMMA NotMissing == \A d \in Descriptors : d # Missing
  BY MissingAssumption

(* The descriptor without a field.                                              *)
LEMMA EmptyFacts ==
  /\ Empty \in Descriptors
  /\ Empty.value = Absent /\ Empty.get = Absent /\ Empty.set = Absent
  /\ Empty.writable = Absent /\ Empty.enumerable = Absent /\ Empty.configurable = Absent
  BY DEF Empty, Descriptors, Flags

(* What the engine and scripts ask for is never of both kinds.                  *)
LEMMA AskedFacts ==
  /\ Empty \in Asked /\ Locking \in Asked /\ Freezing \in Asked
  /\ Locking.configurable = FALSE /\ Freezing.configurable = FALSE
  /\ \A v \in Values : Plain(v) \in Asked /\ OnlyValue(v) \in Asked
  /\ Definitions \subseteq Asked /\ Reports \subseteq Asked
  <1>1. Empty \in Asked
    BY EmptyFacts DEF Asked, IsAccessorDescriptor
  <1>2. Locking \in Asked /\ Locking.configurable = FALSE
    BY FlagFacts DEF Asked, IsAccessorDescriptor, Locking, Empty, Descriptors
  <1>3. Freezing \in Asked /\ Freezing.configurable = FALSE
    BY FlagFacts DEF Asked, IsAccessorDescriptor, Locking, Freezing, Empty, Descriptors
  <1>4. ASSUME NEW v \in Values
        PROVE  Plain(v) \in Asked /\ OnlyValue(v) \in Asked
    BY FlagFacts DEF Asked, IsAccessorDescriptor, Plain, OnlyValue, Empty, Descriptors
  <1>5. Definitions \subseteq Asked /\ Reports \subseteq Asked
    BY ObjectsAssumption DEF Asked
  <1> QED BY <1>1, <1>2, <1>3, <1>4, <1>5

(* Applying a definition keeps the kind of property or converts it.             *)
LEMMA AppliedFacts ==
  ASSUME NEW desc \in Asked, NEW p \in Stored
  PROVE  LET q == Applied(desc, p)
         IN /\ q \in Descriptors
            /\ q.enumerable = OrElse(desc.enumerable, p.enumerable)
            /\ q.configurable = OrElse(desc.configurable, p.configurable)
            /\ ~OtherKind(desc, p) =>
                 /\ q.value = OrElse(desc.value, p.value)
                 /\ q.get = OrElse(desc.get, p.get)
                 /\ q.set = OrElse(desc.set, p.set)
                 /\ q.writable = OrElse(desc.writable, p.writable)
            /\ OtherKind(desc, p) /\ IsDataDescriptor(p) =>
                 /\ q.value = desc.value /\ q.writable = desc.writable
                 /\ q.get = OrElse(desc.get, Undefined) /\ q.set = OrElse(desc.set, Undefined)
            /\ OtherKind(desc, p) /\ ~IsDataDescriptor(p) =>
                 /\ q.value = OrElse(desc.value, Undefined) /\ q.writable = desc.writable
                 /\ q.get = desc.get /\ q.set = desc.set
  <1> DEFINE q == Applied(desc, p)
             base == IF OtherKind(desc, p) THEN Converted(p) ELSE p
  <1>1. p \in Descriptors /\ desc \in Descriptors
    BY DEF Asked, Stored
  <1>2. /\ Converted(p) \in Descriptors
        /\ Converted(p).enumerable = p.enumerable /\ Converted(p).configurable = p.configurable
        /\ Converted(p).writable = Absent
        /\ IsDataDescriptor(p) =>
             Converted(p).value = Absent /\ Converted(p).get = Undefined /\ Converted(p).set = Undefined
        /\ ~IsDataDescriptor(p) =>
             Converted(p).value = Undefined /\ Converted(p).get = Absent /\ Converted(p).set = Absent
    <2>1. CASE IsDataDescriptor(p)
      BY <1>1, <2>1, FlagFacts DEF Converted, Empty, Descriptors
    <2>2. CASE ~IsDataDescriptor(p)
      BY <1>1, <2>2, FlagFacts DEF Converted, Empty, Descriptors
    <2> QED BY <2>1, <2>2
  <1>3. q = [value |-> OrElse(desc.value, base.value), get |-> OrElse(desc.get, base.get),
             set |-> OrElse(desc.set, base.set), writable |-> OrElse(desc.writable, base.writable),
             enumerable |-> OrElse(desc.enumerable, base.enumerable),
             configurable |-> OrElse(desc.configurable, base.configurable)]
    BY Zenon DEF Applied
  <1>4. base \in Descriptors
    BY <1>1, <1>2
  <1>5. q \in Descriptors
    <2>1. \A S : \A x \in S \cup {Absent}, y \in S \cup {Absent} : OrElse(x, y) \in S \cup {Absent}
      BY DEF OrElse
    <2> HIDE DEF q, base
    <2>2. /\ OrElse(desc.value, base.value) \in Values \cup {Absent}
          /\ OrElse(desc.get, base.get) \in Callables \cup {Absent}
          /\ OrElse(desc.set, base.set) \in Callables \cup {Absent}
          /\ OrElse(desc.writable, base.writable) \in BOOLEAN \cup {Absent}
          /\ OrElse(desc.enumerable, base.enumerable) \in BOOLEAN \cup {Absent}
          /\ OrElse(desc.configurable, base.configurable) \in BOOLEAN \cup {Absent}
      BY <1>1, <1>4, <2>1 DEF Descriptors, Flags
    <2> QED BY <1>3, <2>2 DEF Descriptors, Flags
  <1>6. \A x : OrElse(x, Absent) = x
    BY DEF OrElse
  <1>7. CASE OtherKind(desc, p)
    <2>1. base = Converted(p)
      BY <1>7
    <2> HIDE DEF q, base
    <2> QED BY <1>2, <1>3, <1>5, <1>6, <1>7, <2>1 DEF q
  <1>8. CASE ~OtherKind(desc, p)
    <2>1. base = p
      BY <1>8
    <2> HIDE DEF q, base
    <2> QED BY <1>3, <1>5, <1>8, <2>1 DEF q
  <1> QED BY <1>7, <1>8

(* A field that may be absent, with a default.                                  *)
LEMMA OrElseFacts ==
  /\ \A x, y : OrElse(x, y) = Absent <=> x = Absent /\ y = Absent
  /\ \A y : OrElse(Absent, y) = y
  /\ \A x, y : x # Absent => OrElse(x, y) = x
  BY DEF OrElse

(* What a definition leaves behind is again a complete kind of property.        *)
LEMMA AppliedStored ==
  ASSUME NEW desc \in Asked, NEW p \in Stored
  PROVE  Applied(desc, p) \in Stored
  <1> DEFINE q == Applied(desc, p)
  <1>1. q \in Descriptors
    BY AppliedFacts
  <1>2. /\ IsAccessorDescriptor(p) # IsDataDescriptor(p)
        /\ IsDataDescriptor(p) => p.value # Absent
        /\ ~(IsAccessorDescriptor(desc) /\ IsDataDescriptor(desc))
    BY DEF Stored, Asked
  <1>3. CASE ~OtherKind(desc, p)
    <2>1. /\ q.value = OrElse(desc.value, p.value) /\ q.get = OrElse(desc.get, p.get)
          /\ q.set = OrElse(desc.set, p.set) /\ q.writable = OrElse(desc.writable, p.writable)
      BY <1>3, AppliedFacts
    <2> HIDE DEF q
    <2>2. (q.get = Absent <=> desc.get = Absent /\ p.get = Absent)
          /\ (q.set = Absent <=> desc.set = Absent /\ p.set = Absent)
          /\ (q.value = Absent <=> desc.value = Absent /\ p.value = Absent)
          /\ (q.writable = Absent <=> desc.writable = Absent /\ p.writable = Absent)
      BY <2>1, OrElseFacts
    <2> QED BY <1>1, <1>2, <1>3, <2>2
         DEF Stored, OtherKind, IsAccessorDescriptor, IsDataDescriptor, IsGenericDescriptor, q
  <1>4. CASE OtherKind(desc, p) /\ IsDataDescriptor(p)
    <2>1. /\ q.value = desc.value /\ q.writable = desc.writable
          /\ q.get = OrElse(desc.get, Undefined) /\ q.set = OrElse(desc.set, Undefined)
      BY <1>4, AppliedFacts
    <2>2. ~IsDataDescriptor(desc)
      BY <1>4 DEF OtherKind, IsDataDescriptor
    <2> HIDE DEF q
    <2>3. q.value = Absent /\ q.writable = Absent /\ q.get # Absent
      BY <2>1, <2>2, OrElseFacts, FlagFacts DEF IsDataDescriptor
    <2> QED BY <1>1, <2>3 DEF Stored, IsAccessorDescriptor, IsDataDescriptor, q
  <1>5. CASE OtherKind(desc, p) /\ ~IsDataDescriptor(p)
    <2>1. /\ q.value = OrElse(desc.value, Undefined) /\ q.writable = desc.writable
          /\ q.get = desc.get /\ q.set = desc.set
      BY <1>5, AppliedFacts
    <2>2. IsDataDescriptor(desc)
      BY <1>5 DEF OtherKind, IsDataDescriptor
    <2> HIDE DEF q
    <2>3. q.value # Absent /\ q.get = Absent /\ q.set = Absent
      BY <1>2, <2>1, <2>2, OrElseFacts, FlagFacts DEF IsAccessorDescriptor
    <2> QED BY <1>1, <2>3 DEF Stored, IsAccessorDescriptor, IsDataDescriptor, q
  <1> QED BY <1>3, <1>4, <1>5

(* So is what it stores where nothing was.                                      *)
LEMMA NewPropertyStored ==
  ASSUME NEW desc \in Asked
  PROVE  NewProperty(desc) \in Stored
  <1> DEFINE q == NewProperty(desc)
  <1>1. desc \in Descriptors /\ ~(IsAccessorDescriptor(desc) /\ IsDataDescriptor(desc))
    BY DEF Asked
  <1>2. \A x : On(x) \in BOOLEAN
    BY DEF On
  <1>3. CASE IsAccessorDescriptor(desc)
    <2>1. q = [desc EXCEPT !.enumerable = On(desc.enumerable), !.configurable = On(desc.configurable)]
      BY <1>3 DEF NewProperty
    <2>2. /\ q \in Descriptors /\ q.get = desc.get /\ q.set = desc.set
          /\ q.value = desc.value /\ q.writable = desc.writable
      BY <1>1, <1>2, <2>1 DEF Descriptors, Flags
    <2> HIDE DEF q
    <2> QED BY <1>1, <1>3, <2>2 DEF Stored, IsAccessorDescriptor, IsDataDescriptor, q
  <1> DEFINE value == OrElse(desc.value, Undefined)
  <1>4. value \in Values
    BY <1>1, FlagFacts DEF OrElse, Descriptors
  <1>5. CASE ~IsAccessorDescriptor(desc)
    <2> HIDE DEF value
    <2>1. \/ q = [desc EXCEPT !.value = value]
          \/ q = [Empty EXCEPT !.value = value, !.writable = FALSE, !.enumerable = FALSE, !.configurable = FALSE]
      BY <1>5 DEF NewProperty, value
    <2>2. q \in Descriptors /\ q.get = Absent /\ q.set = Absent /\ q.value = value
      <3>1. desc.get = Absent /\ desc.set = Absent
        BY <1>5 DEF IsAccessorDescriptor
      <3>2. CASE q = [desc EXCEPT !.value = value]
        BY <1>1, <1>4, <3>1, <3>2 DEF Descriptors
      <3>3. CASE q = [Empty EXCEPT !.value = value, !.writable = FALSE, !.enumerable = FALSE, !.configurable = FALSE]
        BY <1>4, <3>3, FlagFacts DEF Descriptors, Empty
      <3> QED BY <2>1, <3>2, <3>3
    <2> HIDE DEF q
    <2> QED BY <1>4, <2>2, FlagFacts DEF Stored, IsAccessorDescriptor, IsDataDescriptor, q
  <1> QED BY <1>3, <1>5

(* What validation answers, and what it stores.                                 *)
LEMMA ValidateStores ==
  ASSUME NEW e \in BOOLEAN, NEW desc \in Asked, NEW p \in Stored \cup {Missing}
  PROVE  LET r == ValidateAndApply(e, desc, p)
         IN r.ok \in BOOLEAN /\ r.property \in Stored \cup {Missing}
  <1>1. p = Missing => NewProperty(desc) \in Stored
    BY NewPropertyStored
  <1>2. p # Missing => p \in Stored /\ Applied(desc, p) \in Stored
    BY AppliedStored
  <1> QED BY <1>1, <1>2, Zenon DEF ValidateAndApply

(* A stored property has a field and is not missing.                            *)
LEMMA NotEmpty == \A p \in Stored : p # Empty /\ p # Missing /\ p \in Descriptors
  <1>1. \A p \in Stored : p # Empty
    BY EmptyFacts DEF Stored, IsAccessorDescriptor, IsDataDescriptor
  <1> QED BY <1>1, NotMissing DEF Stored

(* The three outcomes of a definition for a property that is there.             *)
LEMMA ValidateFacts ==
  ASSUME NEW e \in BOOLEAN, NEW desc \in Asked, NEW p \in Stored
  PROVE  LET r == ValidateAndApply(e, desc, p)
         IN \/ NothingNew(desc, p) /\ r.ok = TRUE /\ r.property = p
            \/ ~NothingNew(desc, p) /\ ~On(p.configurable) /\ Refused(desc, p) /\ r.ok = FALSE /\ r.property = p
            \/ ~NothingNew(desc, p) /\ (On(p.configurable) \/ ~Refused(desc, p))
               /\ r.ok = TRUE /\ r.property = Applied(desc, p)
  <1>1. p # Empty /\ p # Missing
    BY NotEmpty
  <1> QED BY <1>1, Zenon DEF ValidateAndApply

(* A property that is not configurable keeps its kind, whether it is            *)
(* enumerable, its accessors, and its value once it is read-only.               *)
Keeps(p, q) ==
  /\ q \in Stored /\ ~On(q.configurable)
  /\ On(q.enumerable) <=> On(p.enumerable)
  /\ IsAccessorDescriptor(q) <=> IsAccessorDescriptor(p)
  /\ IsAccessorDescriptor(p) =>
       OrElse(q.get, Undefined) = OrElse(p.get, Undefined) /\ OrElse(q.set, Undefined) = OrElse(p.set, Undefined)
  /\ ~IsAccessorDescriptor(p) /\ ~On(p.writable) => ~On(q.writable) /\ q.value = p.value

(* Nothing is lost when nothing changes,                                        *)
LEMMA KeepsSame ==
  ASSUME NEW p \in Stored, ~On(p.configurable)
  PROVE  Keeps(p, p)
  BY DEF Keeps

(* nor by a change that is not refused,                                         *)
LEMMA AppliedKeeps ==
  ASSUME NEW desc \in Asked, NEW p \in Stored, ~On(p.configurable), ~Refused(desc, p)
  PROVE  Keeps(p, Applied(desc, p))
  <1> DEFINE q == Applied(desc, p)
  <1>1. q \in Stored
    BY AppliedStored
  <1>2. ~OtherKind(desc, p)
    BY DEF Refused
  <1>3. /\ q.enumerable = OrElse(desc.enumerable, p.enumerable)
        /\ q.configurable = OrElse(desc.configurable, p.configurable)
        /\ q.value = OrElse(desc.value, p.value) /\ q.get = OrElse(desc.get, p.get)
        /\ q.set = OrElse(desc.set, p.set) /\ q.writable = OrElse(desc.writable, p.writable)
    BY <1>2, AppliedFacts
  <1> HIDE DEF q
  <1>4. ~On(q.configurable)
    <2>1. ~On(desc.configurable)
      BY DEF Refused
    <2> QED BY <1>3, <2>1 DEF OrElse
  <1>5. On(q.enumerable) <=> On(p.enumerable)
    <2>1. desc.enumerable # Absent => (On(desc.enumerable) <=> On(p.enumerable))
      BY DEF Refused, On
    <2> QED BY <1>3, <2>1 DEF OrElse
  <1>6. /\ IsAccessorDescriptor(p) <=> ~IsDataDescriptor(p)
        /\ ~IsDataDescriptor(desc) \/ ~IsAccessorDescriptor(desc)
        /\ IsDataDescriptor(desc) => IsDataDescriptor(p)
        /\ IsAccessorDescriptor(desc) => IsAccessorDescriptor(p)
    <2>1. IsAccessorDescriptor(p) # IsDataDescriptor(p)
      BY DEF Stored
    <2>2. ~(IsAccessorDescriptor(desc) /\ IsDataDescriptor(desc))
      BY DEF Asked
    <2> QED BY <1>2, <2>1, <2>2 DEF OtherKind, IsGenericDescriptor, IsAccessorDescriptor, IsDataDescriptor
  <1>7. IsAccessorDescriptor(q) <=> IsAccessorDescriptor(p)
    BY <1>3, <1>6, OrElseFacts DEF IsAccessorDescriptor
  <1>8. ASSUME IsAccessorDescriptor(p)
        PROVE  OrElse(q.get, Undefined) = OrElse(p.get, Undefined) /\ OrElse(q.set, Undefined) = OrElse(p.set, Undefined)
    <2>1. CASE IsAccessorDescriptor(desc)
      <3>1. \A f \in {"get", "set"} : desc[f] = Absent \/ desc[f] = OrElse(p[f], Undefined)
        BY <1>8, <2>1 DEF Refused
      <3>2. /\ desc.get = Absent \/ desc.get = OrElse(p.get, Undefined)
            /\ desc.set = Absent \/ desc.set = OrElse(p.set, Undefined)
        BY <3>1
      <3> QED BY <1>3, <3>2, OrElseFacts, FlagFacts
    <2>2. CASE ~IsAccessorDescriptor(desc)
      BY <1>3, <2>2, OrElseFacts DEF IsAccessorDescriptor
    <2> QED BY <2>1, <2>2
  <1>9. ASSUME ~IsAccessorDescriptor(p), ~On(p.writable)
        PROVE  ~On(q.writable) /\ q.value = p.value
    <2>1. CASE IsDataDescriptor(desc)
      <3>1. ~On(desc.writable) /\ (desc.value = Absent \/ desc.value = p.value)
        BY <1>6, <1>9, <2>1 DEF Refused
      <3> QED BY <1>3, <1>9, <3>1 DEF OrElse
    <2>2. CASE ~IsDataDescriptor(desc)
      BY <1>3, <1>9, <2>2, OrElseFacts DEF IsDataDescriptor
    <2> QED BY <2>1, <2>2
  <1> QED BY <1>1, <1>4, <1>5, <1>7, <1>8, <1>9 DEF Keeps, q

(* hence by no definition.                                                      *)
LEMMA ValidateKeeps ==
  ASSUME NEW e \in BOOLEAN, NEW desc \in Asked, NEW p \in Stored, ~On(p.configurable)
  PROVE  Keeps(p, ValidateAndApply(e, desc, p).property)
  BY ValidateFacts, KeepsSame, AppliedKeeps, Zenon

(* Two descriptions of a property that agree.                                   *)
LEMMA EqualFacts ==
  /\ \A x : Equal(x, x)
  /\ \A x, y : Equal(x, y) => Equal(y, x)
  /\ \A x, y, z : Equal(x, y) /\ Equal(y, z) => Equal(x, z)
  /\ \A x, y : Equal(x, y) /\ x # y => x \in {Zero, MinusZero} /\ y \in {Zero, MinusZero}
  BY DEF Equal

(* CompletePropertyDescriptor gives every field of the kind a value.            *)
LEMMA CompletedFacts ==
  ASSUME NEW d \in Asked
  PROVE  LET c == Completed(d)
         IN /\ c \in Asked /\ c \in Stored
            /\ c.enumerable = On(d.enumerable) /\ c.configurable = On(d.configurable)
            /\ IsAccessorDescriptor(c) <=> IsAccessorDescriptor(d)
            /\ IsAccessorDescriptor(d) =>
                 /\ c.get = OrElse(d.get, Undefined) /\ c.set = OrElse(d.set, Undefined)
                 /\ c.value = Absent /\ c.writable = Absent
            /\ ~IsAccessorDescriptor(d) =>
                 /\ c.value = OrElse(d.value, Undefined) /\ c.writable = On(d.writable)
                 /\ c.get = Absent /\ c.set = Absent
  <1> DEFINE c == Completed(d)
  <1>1. d \in Descriptors /\ ~(IsAccessorDescriptor(d) /\ IsDataDescriptor(d))
    BY DEF Asked
  <1>2. \A x : On(x) \in BOOLEAN
    BY DEF On
  <1>3. /\ OrElse(d.value, Undefined) \in Values /\ OrElse(d.get, Undefined) \in Callables
        /\ OrElse(d.set, Undefined) \in Callables
    BY <1>1, FlagFacts DEF OrElse, Descriptors, Callables
  <1> DEFINE flags == [d EXCEPT !.enumerable = On(d.enumerable), !.configurable = On(d.configurable)]
  <1>4. /\ flags \in Descriptors /\ flags.enumerable = On(d.enumerable)
        /\ flags.configurable = On(d.configurable) /\ flags.get = d.get /\ flags.set = d.set
        /\ flags.value = d.value /\ flags.writable = d.writable
    BY <1>1, <1>2 DEF Descriptors, Flags
  <1>5. CASE IsAccessorDescriptor(d)
    <2>1. c = [flags EXCEPT !.get = OrElse(d.get, Undefined), !.set = OrElse(d.set, Undefined)]
      BY <1>5 DEF Completed
    <2> HIDE DEF flags
    <2>2. /\ c \in Descriptors /\ c.enumerable = On(d.enumerable) /\ c.configurable = On(d.configurable)
          /\ c.get = OrElse(d.get, Undefined) /\ c.set = OrElse(d.set, Undefined)
          /\ c.value = d.value /\ c.writable = d.writable
      BY <1>3, <1>4, <2>1 DEF Descriptors
    <2> HIDE DEF c
    <2>3. c.get # Absent /\ c.value = Absent /\ c.writable = Absent
      BY <1>1, <1>5, <2>2, OrElseFacts, FlagFacts DEF IsDataDescriptor
    <2> QED BY <1>5, <2>2, <2>3 DEF Asked, Stored, IsAccessorDescriptor, IsDataDescriptor, c
  <1>6. CASE ~IsAccessorDescriptor(d)
    <2>1. c = [flags EXCEPT !.value = OrElse(d.value, Undefined), !.writable = On(d.writable)]
      BY <1>6 DEF Completed
    <2> HIDE DEF flags
    <2>2. /\ c \in Descriptors /\ c.enumerable = On(d.enumerable) /\ c.configurable = On(d.configurable)
          /\ c.get = d.get /\ c.set = d.set
          /\ c.value = OrElse(d.value, Undefined) /\ c.writable = On(d.writable)
      BY <1>2, <1>3, <1>4, <2>1 DEF Descriptors, Flags
    <2> HIDE DEF c
    <2>3. c.get = Absent /\ c.set = Absent /\ c.value # Absent
      BY <1>6, <2>2, OrElseFacts, FlagFacts DEF IsAccessorDescriptor
    <2> QED BY <1>6, <2>2, <2>3 DEF Asked, Stored, IsAccessorDescriptor, IsDataDescriptor, c
  <1> QED BY <1>5, <1>6

(* A description stays right while the property keeps what it fixes.            *)
LEMMA AgreeKept ==
  ASSUME NEW p \in Stored, NEW q, Keeps(p, q), NEW d, Agree(p, d)
  PROVE  Agree(q, d)
  <1>1. ~On(q.configurable) /\ On(q.enumerable) = d.enumerable
    <2>1. On(q.enumerable) = On(p.enumerable)
      BY DEF Keeps, On
    <2> QED BY <2>1, Zenon DEF Keeps, Agree
  <1>2. IsAccessorDescriptor(q) = IsAccessorDescriptor(d)
    <2>1. IsAccessorDescriptor(q) = IsAccessorDescriptor(p)
      BY DEF Keeps, IsAccessorDescriptor
    <2> QED BY <2>1, Zenon DEF Agree
  <1>3. IsAccessorDescriptor(q) <=> IsAccessorDescriptor(p)
    BY DEF Keeps
  <1>4. IsAccessorDescriptor(q) => OrElse(q.get, Undefined) = d.get /\ OrElse(q.set, Undefined) = d.set
    BY <1>3, Zenon DEF Keeps, Agree
  <1>5. ~IsAccessorDescriptor(q) /\ ~On(d.writable) => ~On(q.writable) /\ Equal(q.value, d.value)
    BY <1>3, Zenon DEF Keeps, Agree
  <1> QED BY <1>1, <1>2, <1>4, <1>5, Zenon DEF Agree

(* A stored property as a script is told of it.                                 *)
LEMMA AgreeSelf ==
  ASSUME NEW p \in Stored, ~On(p.configurable)
  PROVE  Agree(p, Completed(p))
  <1> DEFINE c == Completed(p)
  <1>1. p \in Asked
    BY DEF Stored, Asked, IsAccessorDescriptor, IsDataDescriptor
  <1>2. /\ c.enumerable = On(p.enumerable)
        /\ IsAccessorDescriptor(c) <=> IsAccessorDescriptor(p)
        /\ IsAccessorDescriptor(p) => c.get = OrElse(p.get, Undefined) /\ c.set = OrElse(p.set, Undefined)
        /\ ~IsAccessorDescriptor(p) => c.value = OrElse(p.value, Undefined) /\ c.writable = On(p.writable)
    BY <1>1, CompletedFacts
  <1> HIDE DEF c
  <1>3. IsAccessorDescriptor(p) = IsAccessorDescriptor(c)
    BY <1>2 DEF IsAccessorDescriptor
  <1>4. ~IsAccessorDescriptor(p) => p.value # Absent
    BY DEF Stored, IsAccessorDescriptor, IsDataDescriptor
  <1>5. ASSUME ~IsAccessorDescriptor(p), ~On(c.writable)
        PROVE  ~On(p.writable) /\ Equal(p.value, c.value)
    <2>1. p.value = c.value
      BY <1>2, <1>4, <1>5, OrElseFacts
    <2>2. ~On(p.writable)
      BY <1>2, <1>5 DEF On
    <2> QED BY <2>1, <2>2, EqualFacts
  <1>6. On(p.enumerable) = c.enumerable
    BY <1>2
  <1>7. IsAccessorDescriptor(p) => OrElse(p.get, Undefined) = c.get /\ OrElse(p.set, Undefined) = c.set
    BY <1>2
  <1> QED BY <1>3, <1>5, <1>6, <1>7, Zenon DEF Agree, c

(* What a trap has reported and the target does not refuse.                     *)
LEMMA Reported ==
  ASSUME NEW e \in BOOLEAN, NEW d \in Asked, NEW p \in Stored, ~On(p.configurable),
         ValidateAndApply(e, Completed(d), p).ok
  PROVE  LET c == Completed(d)
         IN /\ ~On(c.configurable)
            /\ On(c.enumerable) <=> On(p.enumerable)
            /\ IsAccessorDescriptor(c) <=> IsAccessorDescriptor(p)
            /\ IsAccessorDescriptor(p) =>
                 c.get = OrElse(p.get, Undefined) /\ c.set = OrElse(p.set, Undefined)
            /\ ~IsAccessorDescriptor(p) /\ ~On(p.writable) => ~On(c.writable) /\ Equal(c.value, p.value)
  <1> DEFINE c == Completed(d)
  <1>1. c \in Asked /\ c \in Stored
    BY CompletedFacts
  <1>2. /\ c.enumerable \in BOOLEAN
        /\ IsAccessorDescriptor(c) => c.get # Absent /\ c.set # Absent
        /\ ~IsAccessorDescriptor(c) => c.value # Absent
    <2>1. c.enumerable \in BOOLEAN
      BY CompletedFacts DEF On
    <2>2. IsAccessorDescriptor(c) => c.get # Absent /\ c.set # Absent
      BY CompletedFacts, OrElseFacts, FlagFacts
    <2>3. ~IsAccessorDescriptor(c) => c.value # Absent
      BY <1>1 DEF Stored, IsAccessorDescriptor, IsDataDescriptor
    <2> QED BY <2>1, <2>2, <2>3
  <1>3. NothingNew(c, p) \/ ~Refused(c, p)
    BY <1>1, ValidateFacts, Zenon
  <1> HIDE DEF c
  <1>4. CASE NothingNew(c, p)
    <2>1. /\ c.get = p.get /\ c.set = p.set /\ c.writable = p.writable
          /\ c.enumerable = p.enumerable /\ c.configurable = p.configurable
          /\ Equal(c.value, p.value)
      BY <1>4 DEF NothingNew
    <2>2. IsAccessorDescriptor(c) <=> IsAccessorDescriptor(p)
      BY <2>1 DEF IsAccessorDescriptor
    <2> QED BY <1>2, <2>1, <2>2, OrElseFacts DEF c
  <1>5. CASE ~Refused(c, p)
    <2>1. ~On(c.configurable)
      BY <1>5 DEF Refused
    <2>2. On(c.enumerable) <=> On(p.enumerable)
      <3>1. c.enumerable # Absent
        BY <1>2, FlagFacts
      <3> QED BY <1>5, <3>1 DEF Refused, On
    <2>3. IsAccessorDescriptor(c) <=> IsAccessorDescriptor(p)
      BY <1>1, <1>5 DEF Refused, OtherKind, IsGenericDescriptor, Stored, IsAccessorDescriptor, IsDataDescriptor
    <2>4. ASSUME IsAccessorDescriptor(p)
          PROVE  c.get = OrElse(p.get, Undefined) /\ c.set = OrElse(p.set, Undefined)
      <3>1. \A f \in {"get", "set"} : c[f] = Absent \/ c[f] = OrElse(p[f], Undefined)
        BY <1>5, <2>3, <2>4 DEF Refused
      <3>2. /\ c.get = Absent \/ c.get = OrElse(p.get, Undefined)
            /\ c.set = Absent \/ c.set = OrElse(p.set, Undefined)
        BY <3>1
      <3> QED BY <1>2, <2>3, <2>4, <3>2
    <2>5. ASSUME ~IsAccessorDescriptor(p), ~On(p.writable)
          PROVE  ~On(c.writable) /\ Equal(c.value, p.value)
      <3>1. IsDataDescriptor(c) /\ IsDataDescriptor(p) /\ c.value # Absent
        BY <1>1, <1>2, <2>3, <2>5 DEF Stored, IsAccessorDescriptor, IsDataDescriptor
      <3>2. ~On(c.writable) /\ c.value = p.value
        BY <1>5, <2>5, <3>1 DEF Refused
      <3> QED BY <3>2, EqualFacts
    <2> QED BY <2>1, <2>2, <2>3, <2>4, <2>5 DEF c
  <1> QED BY <1>3, <1>4, <1>5

(* It agrees with the target, and with whatever was seen of it before.          *)
LEMMA ReportedAgrees ==
  ASSUME NEW e \in BOOLEAN, NEW d \in Asked, NEW p \in Stored, ~On(p.configurable),
         ValidateAndApply(e, Completed(d), p).ok
  PROVE  /\ (Completed(d).writable = FALSE => ~On(p.writable)) => Agree(p, Completed(d))
         /\ \A s : Agree(p, s) => Agree(Completed(d), s)
  <1> DEFINE c == Completed(d)
  <1>1. /\ ~On(c.configurable)
        /\ On(c.enumerable) <=> On(p.enumerable)
        /\ IsAccessorDescriptor(c) <=> IsAccessorDescriptor(p)
        /\ IsAccessorDescriptor(p) =>
             c.get = OrElse(p.get, Undefined) /\ c.set = OrElse(p.set, Undefined)
        /\ ~IsAccessorDescriptor(p) /\ ~On(p.writable) => ~On(c.writable) /\ Equal(c.value, p.value)
    BY Reported
  <1>2. c.enumerable \in BOOLEAN /\ (~IsAccessorDescriptor(c) => c.writable \in BOOLEAN)
    BY CompletedFacts DEF On
  <1> HIDE DEF c
  <1>3. On(c.enumerable) = On(p.enumerable) /\ On(c.enumerable) = c.enumerable
    BY <1>1, <1>2 DEF On
  <1>4. IsAccessorDescriptor(c) = IsAccessorDescriptor(p)
    BY <1>1 DEF IsAccessorDescriptor
  <1>5. ASSUME c.writable = FALSE => ~On(p.writable)
        PROVE  Agree(p, c)
    <2>1. ASSUME ~IsAccessorDescriptor(p), ~On(c.writable)
          PROVE  ~On(p.writable) /\ Equal(p.value, c.value)
      <3>1. c.writable = FALSE
        BY <1>1, <1>2, <2>1 DEF On
      <3> QED BY <1>1, <1>5, <2>1, <3>1, EqualFacts
    <2> QED BY <1>1, <1>3, <1>4, <2>1, Zenon DEF Agree
  <1>6. ASSUME NEW s, Agree(p, s)
        PROVE  Agree(c, s)
    <2>1. /\ On(p.enumerable) = s.enumerable
          /\ IsAccessorDescriptor(p) = IsAccessorDescriptor(s)
          /\ IsAccessorDescriptor(p) => OrElse(p.get, Undefined) = s.get /\ OrElse(p.set, Undefined) = s.set
          /\ ~IsAccessorDescriptor(p) /\ ~On(s.writable) => ~On(p.writable) /\ Equal(p.value, s.value)
      BY <1>6, Zenon DEF Agree
    <2>2. ASSUME IsAccessorDescriptor(c)
          PROVE  OrElse(c.get, Undefined) = s.get /\ OrElse(c.set, Undefined) = s.set
      <3>1. c.get # Absent /\ c.set # Absent
        BY <2>2, CompletedFacts, OrElseFacts, FlagFacts DEF c
      <3> QED BY <1>1, <2>1, <2>2, <3>1, OrElseFacts
    <2>3. ASSUME ~IsAccessorDescriptor(c), ~On(s.writable)
          PROVE  ~On(c.writable) /\ Equal(c.value, s.value)
      BY <1>1, <2>1, <2>3, EqualFacts
    <2> QED BY <1>1, <1>3, <1>4, <2>1, <2>2, <2>3, Zenon DEF Agree
  <1> QED BY <1>5, <1>6 DEF c

-----------------------------------------------------------------------------
(* The inductive invariant. *)

KeyOperations == {"getOwn", "define", "delete", "has", "get", "set"}
Climbing == {"has", "get", "set"}

(* A request in progress: only a lookup leaves the object it is about, and a    *)
(* stage of an assignment or of an integrity function asks what the stage       *)
(* after it needs.                                                              *)
Stage(f) ==
  /\ f.then = "script" => f.program = "none"
  /\ f.then = "assign" => f.op = "getOwn" /\ f.program = "none"
  /\ f.then = "close" => f.op = "preventExtensions" /\ f.program \in {"seal", "freeze"}
  /\ f.then = "open" => f.op = "isExtensible" /\ f.program \in {"isSealed", "isFrozen"}
  /\ f.then = "list" => f.op = "ownKeys" /\ f.program # "none"
  /\ f.then = "view" => f.op = "getOwn" /\ f.program = "freeze"
  /\ f.then = "lock" => f.op = "define" /\ f.desc.configurable = FALSE /\ f.program \in {"seal", "freeze"}
  /\ f.then = "inspect" => f.op = "getOwn" /\ f.program \in {"isSealed", "isFrozen"}
RequestOK(f) ==
  /\ f \in Requests /\ f.desc \in Asked /\ f.receiver = f.origin
  /\ f.op \in KeyOperations => f.key \in Keys
  /\ f.op \notin Climbing => Here(f)
  /\ f.trap => f.on \in Proxies
  /\ Stage(f)

(* What an integrity function has found out of the keys it is done with.        *)
Secure(program, p) ==
  IsLocked(p) /\ (program = "isFrozen" => IsAccessorDescriptor(p) \/ IsConstant(p))
Covered(program, o, left) ==
  /\ ~extensible[o]
  /\ \A k \in PresentKeys(o) \ left : Secure(program, props[o][k])
Progress(f) ==
  LET o == Base(f.origin)
  IN /\ f.then = "list" => ~extensible[o]
     /\ f.then \in {"view", "lock", "inspect"} => Covered(f.program, o, f.rest \cup {f.key})

Fact(s) ==
  /\ s \in AllFacts
  /\ s.fact # "closed" => s.key \in Keys
  /\ s.fact = "fixed" => s.desc \in Stored /\ (IsDataDescriptor(s.desc) => s.desc.writable \in BOOLEAN)

Integrity == {"seal", "freeze", "isSealed", "isFrozen"}
Types ==
  /\ props \in [Ordinary -> [Keys -> Stored \cup {Missing}]]
  /\ extensible \in [Ordinary -> BOOLEAN]
  /\ proto \in [Ordinary -> Objects \cup {Null}]
  /\ revoked \subseteq Proxies
  /\ requests \in Seq(Requests)
  /\ \A s \in seen : Fact(s)
IInv ==
  /\ Types
  /\ \A i \in 1 .. Len(requests) : RequestOK(requests[i]) /\ Progress(requests[i])
  /\ FactsHold
  /\ answered.request.op \in Integrity => answered.request.origin \in Objects
  /\ IntegrityReal
  /\ CrashesKnown

-----------------------------------------------------------------------------
(* What a step does to the objects, and what becomes of its request. *)

(* Only an extensible object gets new properties, and one that is not           *)
(* configurable keeps what a script can tell of it for good.                    *)
PropertyEvolves(e, p, q) ==
  /\ p = Missing /\ ~e => q = Missing
  /\ IsLocked(p) => Keeps(p, q)
Evolves ==
  /\ props' \in [Ordinary -> [Keys -> Stored \cup {Missing}]]
  /\ extensible' \in [Ordinary -> BOOLEAN]
  /\ proto' \in [Ordinary -> Objects \cup {Null}]
  /\ \A o \in Ordinary : extensible'[o] => extensible[o]
  /\ \A o \in Ordinary, k \in Keys : PropertyEvolves(extensible[o], props[o][k], props'[o][k])

(* An answer agrees with the object it is about.                                *)
Describing(e, p, d) ==
  /\ d = Missing => ~IsLocked(p) /\ (p = Missing \/ e)
  /\ d # Missing =>
       /\ d \in Stored
       /\ p = Missing => e
       /\ ~On(d.configurable) => p # Missing /\ Agree(p, Completed(d))
       /\ \A s : p # Missing /\ Agree(p, s) => Agree(d, s)
Reading(p, v) ==
  /\ IsConstant(p) => v = p.value
  /\ IsLocked(p) /\ IsAccessorDescriptor(p) /\ OrElse(p.get, Undefined) = Undefined => v = Undefined
Truthful(f, a) ==
  LET o == Base(f.origin)
      p == props[o][f.key]
  IN /\ f.op = "getOwn" => Describing(extensible[o], p, a.desc)
     /\ f.op = "isExtensible" => (a.yes <=> extensible[o])
     /\ f.op = "ownKeys" =>
          /\ a.keys \subseteq Keys
          /\ \A k \in PresentKeys(o) : IsLocked(props[o][k]) => k \in a.keys
          /\ ~extensible[o] => a.keys = PresentKeys(o)
     /\ f.op = "delete" => ~(a.yes /\ IsLocked(p))
     /\ Here(f) /\ f.op = "has" => a.yes \/ ~IsLocked(p)
     /\ Here(f) /\ f.op = "get" => Reading(p, a.value)
     /\ Here(f) /\ f.op = "set" => (a.yes /\ IsConstant(p) => Equal(p.value, f.value))
(* What it says has been done is so afterwards.                                 *)
Effective(f, a) ==
  LET o == Base(f.origin)
  IN /\ f.op = "preventExtensions" /\ a.yes => ~extensible[o]
     /\ f.op = "define" /\ f.desc.configurable = FALSE /\ a.yes =>
          (props[o][f.key] # Missing => IsLocked(props[o][f.key]))

Replies(f, a) ==
  /\ Deliver(f, a)
  /\ a.status = "ok" => Truthful(f, a) /\ Effective(f, a)'
  /\ a.status = "crash" => f.op # "get" /\ (f.on \in revoked \/ f.op = "getPrototypeOf")
Moves(f) ==
  \E x \in Objects, b \in BOOLEAN :
    /\ Advance([f EXCEPT !.on = x, !.trap = b])
    /\ UNCHANGED <<answered, seen>>
    /\ b => x \in Proxies
    /\ Base(x) # Base(f.on) =>
         f.op \in Climbing /\ (Here(f) => props[Base(f.origin)][f.key] = Missing)
Assigns(f) == f.op = "set" /\ Becomes(f, "getOwn", f.key, Empty, "assign")
Shape(f) == (\E a : Replies(f, a)) \/ Moves(f) \/ Assigns(f)

(* Every object, proxy or not, is about an ordinary one.                        *)
LEMMA BaseFacts ==
  /\ \A x \in Objects : Base(x) \in Ordinary
  /\ \A x \in Ordinary : x \in Objects /\ x \notin Proxies /\ Base(x) = x
  /\ \A x \in Proxies : x \in Objects /\ Base(x) = Target[x] /\ Target[x] \in Ordinary
  BY ObjectsAssumption DEF Objects, Base

(* The answers by what they are about.                                          *)
LEMMA AnswerFacts ==
  /\ \A b : Says(b).status = "ok" /\ Says(b).yes = b
  /\ \A v : Reads(v).status = "ok" /\ Reads(v).value = v
  /\ \A d : Describes(d).status = "ok" /\ Describes(d).desc = d
  /\ \A ks : Lists(ks).status = "ok" /\ Lists(ks).keys = ks
  /\ \A x : Inherits(x).status = "ok"
  /\ TypeError.status = "TypeError" /\ Crash.status = "crash"
  BY DEF Answer, Says, Reads, Describes, Lists, Inherits, TypeError, Crash

(* Objects that are left alone evolve as they may.                              *)
LEMMA UntouchedEvolves ==
  ASSUME Types, UNCHANGED objects
  PROVE  Evolves
  <1>1. ASSUME NEW o \in Ordinary, NEW k \in Keys
        PROVE  PropertyEvolves(extensible[o], props[o][k], props'[o][k])
    <2>1. props[o][k] \in Stored \cup {Missing} /\ props' = props
      BY DEF Types, objects
    <2> QED BY <2>1, KeepsSame DEF PropertyEvolves, IsLocked
  <1> QED BY <1>1 DEF Types, Evolves, objects

-----------------------------------------------------------------------------
(* Ordinary objects. *)

(* A request that has reached an ordinary object.                               *)
LEMMA OnOrdinaryFacts ==
  ASSUME Types, NEW t, RequestOK(t), t.on \in Ordinary
  PROVE  /\ t.on \in Objects /\ Base(t.on) = t.on
         /\ t.origin \in Objects /\ Base(t.origin) \in Ordinary
         /\ (t.op \notin Climbing => Base(t.origin) = t.on)
         /\ (Here(t) <=> Base(t.origin) = t.on)
         /\ t.op \in KeyOperations =>
              /\ t.key \in Keys
              /\ props[t.on][t.key] \in Stored \cup {Missing}
              /\ props[Base(t.origin)][t.key] \in Stored \cup {Missing}
  <1>1. t.on \in Objects /\ t.origin \in Objects
    BY DEF RequestOK, Requests
  <1>2. Base(t.on) = t.on /\ Base(t.origin) \in Ordinary
    BY <1>1, BaseFacts
  <1>3. t.op \in KeyOperations => t.key \in Keys
    BY DEF RequestOK
  <1>4. props \in [Ordinary -> [Keys -> Stored \cup {Missing}]]
    BY DEF Types
  <1>5. Here(t) <=> Base(t.origin) = t.on
    BY <1>2 DEF Here
  <1>6. t.op \notin Climbing => Here(t)
    BY DEF RequestOK
  <1> QED BY <1>1, <1>2, <1>3, <1>4, <1>5, <1>6

(* An object describes its own properties as they are.                          *)
LEMMA OwnDescribed ==
  ASSUME NEW e \in BOOLEAN, NEW p \in Stored \cup {Missing}
  PROVE  Describing(e, p, p)
  <1>1. CASE p = Missing
    BY <1>1 DEF Describing, IsLocked
  <1>2. CASE p # Missing
    <2>1. p \in Stored
      BY <1>2
    <2>2. ~On(p.configurable) => Agree(p, Completed(p))
      BY <2>1, AgreeSelf
    <2> QED BY <1>2, <2>1, <2>2, Zenon DEF Describing
  <1> QED BY <1>1, <1>2

(* Each internal method of an ordinary object tells the truth of it.            *)
LEMMA GetOwnShape ==
  ASSUME Types, NEW t, t = Top, RequestOK(t), OwnGetOwn
  PROVE  Evolves /\ UNCHANGED revoked /\ Shape(t)
  <1>1. t.op = "getOwn" /\ t.on \in Ordinary
    BY DEF OwnGetOwn, OnOrdinary, InProgress
  <1>2. Base(t.origin) = t.on /\ t.key \in Keys /\ props[t.on][t.key] \in Stored \cup {Missing}
    BY <1>1, OnOrdinaryFacts DEF Climbing, KeyOperations
  <1>3. PICK p : p = props[t.on][t.key]
    OBVIOUS
  <1>4. PICK a : a = Describes(p)
    OBVIOUS
  <1>5. a.status = "ok" /\ a.desc = p
    BY <1>4, AnswerFacts
  <1>6. Deliver(t, a) /\ Untouched
    BY <1>3, <1>4 DEF OwnGetOwn, Own
  <1>7. Truthful(t, a)
    <2>1. Describing(extensible[t.on], p, p)
      BY <1>1, <1>2, <1>3, OwnDescribed DEF Types
    <2> QED BY <1>1, <1>2, <1>3, <1>5, <2>1 DEF Truthful
  <1>8. Effective(t, a)'
    BY <1>1 DEF Effective
  <1> QED BY <1>5, <1>6, <1>7, <1>8, UntouchedEvolves DEF Shape, Replies, Untouched

LEMMA IsExtensibleShape ==
  ASSUME Types, NEW t, t = Top, RequestOK(t), OwnIsExtensible
  PROVE  Evolves /\ UNCHANGED revoked /\ Shape(t)
  <1>1. t.op = "isExtensible" /\ t.on \in Ordinary
    BY DEF OwnIsExtensible, OnOrdinary, InProgress
  <1>2. Base(t.origin) = t.on
    BY <1>1, OnOrdinaryFacts DEF Climbing
  <1>3. PICK a : a = Says(extensible[t.on])
    OBVIOUS
  <1>4. a.status = "ok" /\ a.yes = extensible[t.on]
    BY <1>3, AnswerFacts
  <1>5. Deliver(t, a) /\ Untouched
    BY <1>3 DEF OwnIsExtensible
  <1>6. Truthful(t, a)
    BY <1>1, <1>2, <1>4 DEF Truthful
  <1>7. Effective(t, a)'
    BY <1>1 DEF Effective
  <1> QED BY <1>4, <1>5, <1>6, <1>7, UntouchedEvolves DEF Shape, Replies, Untouched

LEMMA OwnKeysShape ==
  ASSUME Types, NEW t, t = Top, RequestOK(t), OwnOwnKeys
  PROVE  Evolves /\ UNCHANGED revoked /\ Shape(t)
  <1>1. t.op = "ownKeys" /\ t.on \in Ordinary
    BY DEF OwnOwnKeys, OnOrdinary, InProgress
  <1>2. Base(t.origin) = t.on
    BY <1>1, OnOrdinaryFacts DEF Climbing
  <1>3. PICK a : a = Lists(PresentKeys(t.on))
    OBVIOUS
  <1>4. a.status = "ok" /\ a.keys = PresentKeys(t.on)
    BY <1>3, AnswerFacts
  <1>5. Deliver(t, a) /\ Untouched
    BY <1>3 DEF OwnOwnKeys
  <1>6. Truthful(t, a)
    BY <1>1, <1>2, <1>4 DEF Truthful, PresentKeys
  <1>7. Effective(t, a)'
    BY <1>1 DEF Effective
  <1> QED BY <1>4, <1>5, <1>6, <1>7, UntouchedEvolves DEF Shape, Replies, Untouched

LEMMA GetPrototypeOfShape ==
  ASSUME Types, NEW t, t = Top, RequestOK(t), OwnGetPrototypeOf
  PROVE  Evolves /\ UNCHANGED revoked /\ Shape(t)
  <1>1. t.op = "getPrototypeOf"
    BY DEF OwnGetPrototypeOf, OnOrdinary, InProgress
  <1>2. PICK a : a = Inherits(proto[t.on])
    OBVIOUS
  <1>3. a.status = "ok"
    BY <1>2, AnswerFacts
  <1>4. Deliver(t, a) /\ Untouched
    BY <1>2 DEF OwnGetPrototypeOf
  <1>5. Truthful(t, a)
    BY <1>1 DEF Truthful
  <1>6. Effective(t, a)'
    BY <1>1 DEF Effective
  <1> QED BY <1>3, <1>4, <1>5, <1>6, UntouchedEvolves DEF Shape, Replies, Untouched

LEMMA SetPrototypeOfShape ==
  ASSUME Types, NEW t, t = Top, RequestOK(t), OwnSetPrototypeOf
  PROVE  Evolves /\ UNCHANGED revoked /\ Shape(t)
  <1>1. t.op = "setPrototypeOf" /\ t.on \in Ordinary /\ t.proto \in Objects \cup {Null}
    BY DEF OwnSetPrototypeOf, OnOrdinary, InProgress, RequestOK, Requests
  <1>2. PICK allowed : allowed = (extensible[t.on] /\ ~Reaches(t.proto, t.on))
    OBVIOUS
  <1>3. PICK a : a = Says(allowed \/ proto[t.on] = t.proto)
    OBVIOUS
  <1>4. a.status = "ok"
    BY <1>3, AnswerFacts
  <1>5. /\ proto' = [proto EXCEPT ![t.on] = IF allowed THEN t.proto ELSE @]
        /\ Deliver(t, a) /\ UNCHANGED <<props, extensible, revoked>>
    BY <1>2, <1>3, Zenon DEF OwnSetPrototypeOf
  <1>6. Truthful(t, a)
    BY <1>1 DEF Truthful
  <1>7. Effective(t, a)'
    BY <1>1 DEF Effective
  <1>8. Evolves
    <2>1. proto' \in [Ordinary -> Objects \cup {Null}]
      BY <1>1, <1>5 DEF Types
    <2>2. ASSUME NEW o \in Ordinary, NEW k \in Keys
          PROVE  PropertyEvolves(extensible[o], props[o][k], props'[o][k])
      <3>1. props[o][k] \in Stored \cup {Missing} /\ props' = props
        BY <1>5 DEF Types
      <3> QED BY <3>1, KeepsSame DEF PropertyEvolves, IsLocked
    <2> QED BY <1>5, <2>1, <2>2 DEF Types, Evolves
  <1> QED BY <1>4, <1>5, <1>6, <1>7, <1>8 DEF Shape, Replies

LEMMA PreventExtensionsShape ==
  ASSUME Types, NEW t, t = Top, RequestOK(t), OwnPreventExtensions
  PROVE  Evolves /\ UNCHANGED revoked /\ Shape(t)
  <1>1. t.op = "preventExtensions" /\ t.on \in Ordinary
    BY DEF OwnPreventExtensions, OnOrdinary, InProgress
  <1>2. Base(t.origin) = t.on
    BY <1>1, OnOrdinaryFacts DEF Climbing
  <1>3. PICK a : a = Says(TRUE)
    OBVIOUS
  <1>4. a.status = "ok"
    BY <1>3, AnswerFacts
  <1>5. /\ extensible' = [extensible EXCEPT ![t.on] = FALSE]
        /\ Deliver(t, a) /\ UNCHANGED <<props, proto, revoked>>
    BY <1>3 DEF OwnPreventExtensions
  <1>6. Truthful(t, a)
    BY <1>1 DEF Truthful
  <1>7. extensible \in [Ordinary -> BOOLEAN]
    BY DEF Types
  <1>8. Effective(t, a)'
    <2>1. ~extensible'[t.on]
      BY <1>1, <1>5, <1>7
    <2> QED BY <1>1, <1>2, <2>1 DEF Effective
  <1>9. Evolves
    <2>1. /\ extensible' \in [Ordinary -> BOOLEAN]
          /\ \A o \in Ordinary : extensible'[o] => extensible[o]
      BY <1>1, <1>5, <1>7
    <2>2. ASSUME NEW o \in Ordinary, NEW k \in Keys
          PROVE  PropertyEvolves(extensible[o], props[o][k], props'[o][k])
      <3>1. props[o][k] \in Stored \cup {Missing} /\ props' = props
        BY <1>5 DEF Types
      <3> QED BY <3>1, KeepsSame DEF PropertyEvolves, IsLocked
    <2> QED BY <1>5, <2>1, <2>2 DEF Types, Evolves
  <1> QED BY <1>4, <1>5, <1>6, <1>8, <1>9 DEF Shape, Replies

(* A property of one object changes.                                            *)
LEMMA StoreEvolves ==
  ASSUME Types, NEW t, t = Top, t.on \in Ordinary, t.key \in Keys,
         NEW q \in Stored \cup {Missing},
         props' = [props EXCEPT ![t.on][t.key] = q],
         UNCHANGED <<extensible, proto>>,
         PropertyEvolves(extensible[t.on], props[t.on][t.key], q)
  PROVE  Evolves /\ props'[t.on][t.key] = q
  <1>1. props \in [Ordinary -> [Keys -> Stored \cup {Missing}]]
    BY DEF Types
  <1>2. /\ props' \in [Ordinary -> [Keys -> Stored \cup {Missing}]]
        /\ props'[t.on][t.key] = q
        /\ \A o \in Ordinary, k \in Keys : o # t.on \/ k # t.key => props'[o][k] = props[o][k]
    BY <1>1
  <1>3. ASSUME NEW o \in Ordinary, NEW k \in Keys
        PROVE  PropertyEvolves(extensible[o], props[o][k], props'[o][k])
    <2>1. CASE o = t.on /\ k = t.key
      BY <1>2, <2>1
    <2>2. CASE o # t.on \/ k # t.key
      <3>1. props'[o][k] = props[o][k] /\ props[o][k] \in Stored \cup {Missing}
        BY <1>1, <1>2, <2>2
      <3> QED BY <3>1, KeepsSame DEF PropertyEvolves, IsLocked
    <2> QED BY <2>1, <2>2
  <1> QED BY <1>2, <1>3 DEF Types, Evolves

(* A definition that is accepted and asks for no configurable property leaves none. *)
LEMMA DefinedLocked ==
  ASSUME NEW e \in BOOLEAN, NEW desc \in Asked, desc.configurable = FALSE,
         NEW p \in Stored \cup {Missing}, ValidateAndApply(e, desc, p).ok
  PROVE  LET q == ValidateAndApply(e, desc, p).property
         IN ~On(q.configurable)
  <1> DEFINE r == ValidateAndApply(e, desc, p)
  <1>1. desc \in Descriptors
    BY DEF Asked
  <1>2. CASE p = Missing
    <2>1. e /\ r.property = NewProperty(desc)
      BY <1>2, Zenon DEF ValidateAndApply
    <2>2. ~On(NewProperty(desc).configurable)
      <3>1. CASE IsAccessorDescriptor(desc)
        <4>1. NewProperty(desc) = [desc EXCEPT !.enumerable = On(desc.enumerable), !.configurable = On(desc.configurable)]
          BY <3>1 DEF NewProperty
        <4> QED BY <1>1, <4>1 DEF Descriptors, On
      <3> DEFINE value == OrElse(desc.value, Undefined)
      <3> HIDE DEF value
      <3>2. CASE ~IsAccessorDescriptor(desc)
        <4>1. \/ NewProperty(desc) = [desc EXCEPT !.value = value]
              \/ NewProperty(desc) = [Empty EXCEPT !.value = value, !.writable = FALSE, !.enumerable = FALSE,
                                                   !.configurable = FALSE]
          BY <3>2 DEF NewProperty, value
        <4> QED BY <1>1, <4>1 DEF Descriptors, On, Empty
      <3> QED BY <3>1, <3>2
    <2> QED BY <2>1, <2>2
  <1>3. CASE p # Missing
    <2>1. p \in Stored
      BY <1>3
    <2>2. \/ NothingNew(desc, p) /\ r.property = p
          \/ r.property = Applied(desc, p)
      BY <2>1, ValidateFacts, Zenon
    <2>3. NothingNew(desc, p) => ~On(p.configurable)
      BY DEF NothingNew, On
    <2>4. Applied(desc, p).configurable = OrElse(desc.configurable, p.configurable)
      BY <2>1, AppliedFacts
    <2>5. ~On(Applied(desc, p).configurable)
      BY <2>4, OrElseFacts, FlagFacts DEF On
    <2> QED BY <2>2, <2>3, <2>5
  <1> QED BY <1>2, <1>3

(* A definition answers whether it was accepted.                                *)
LEMMA DefineShape ==
  ASSUME Types, NEW t, t = Top, RequestOK(t), OwnDefine
  PROVE  Evolves /\ UNCHANGED revoked /\ Shape(t)
  <1>1. t.op = "define" /\ t.on \in Ordinary /\ t.desc \in Asked
    BY DEF OwnDefine, OnOrdinary, InProgress, RequestOK
  <1>2. Base(t.origin) = t.on /\ t.key \in Keys /\ props[t.on][t.key] \in Stored \cup {Missing}
    BY <1>1, OnOrdinaryFacts DEF Climbing, KeyOperations
  <1>3. PICK p \in Stored \cup {Missing}, e \in BOOLEAN : p = props[t.on][t.key] /\ e = extensible[t.on]
    BY <1>1, <1>2 DEF Types
  <1>4. PICK r : r = ValidateAndApply(e, t.desc, p)
    OBVIOUS
  <1>5. PICK a : a = Says(r.ok)
    OBVIOUS
  <1>6. a.status = "ok" /\ a.yes = r.ok
    BY <1>5, AnswerFacts
  <1>7. /\ props' = [props EXCEPT ![t.on][t.key] = r.property]
        /\ Deliver(t, a) /\ UNCHANGED <<extensible, proto, revoked>>
    BY <1>3, <1>4, <1>5 DEF OwnDefine, Own, Store
  <1>8. r.ok \in BOOLEAN /\ r.property \in Stored \cup {Missing}
    BY <1>1, <1>4, ValidateStores
  <1>9. PropertyEvolves(e, p, r.property)
    <2>1. p = Missing /\ ~e => r.property = Missing
      BY <1>4, Zenon DEF ValidateAndApply
    <2>2. ASSUME IsLocked(p)
          PROVE  Keeps(p, r.property)
      <3>1. p \in Stored /\ ~On(p.configurable)
        BY <2>2 DEF IsLocked
      <3> QED BY <1>1, <1>4, <3>1, ValidateKeeps
    <2> QED BY <2>1, <2>2 DEF PropertyEvolves
  <1>10. Evolves /\ props'[t.on][t.key] = r.property
    <2>1. PICK q \in Stored \cup {Missing} : q = r.property
      BY <1>8
    <2>2. /\ props' = [props EXCEPT ![t.on][t.key] = q]
          /\ PropertyEvolves(extensible[t.on], props[t.on][t.key], q)
          /\ UNCHANGED <<extensible, proto>>
      BY <1>3, <1>7, <1>9, <2>1
    <2>3. Evolves /\ props'[t.on][t.key] = q
      <3>1. /\ Types /\ t = Top /\ t.on \in Ordinary /\ t.key \in Keys /\ q \in Stored \cup {Missing}
            /\ props' = [props EXCEPT ![t.on][t.key] = q]
            /\ UNCHANGED <<extensible, proto>>
            /\ PropertyEvolves(extensible[t.on], props[t.on][t.key], q)
        BY <1>1, <1>2, <2>1, <2>2
      <3> QED BY ONLY <3>1, StoreEvolves
    <2> QED BY <2>1, <2>3
  <1>11. Truthful(t, a)
    BY <1>1 DEF Truthful
  <1>12. Effective(t, a)'
    <2>1. t.desc.configurable = FALSE /\ r.ok => ~On(r.property.configurable)
      BY <1>1, <1>4, DefinedLocked
    <2>2. PICK q : q = r.property
      OBVIOUS
    <2>3. props'[t.on][t.key] = q
      BY <1>10, <2>2
    <2>4. t.desc.configurable = FALSE /\ a.yes => ~On(q.configurable)
      BY <1>6, <2>1, <2>2
    <2> HIDE DEF On
    <2> QED BY <1>1, <1>2, <2>3, <2>4 DEF Effective, IsLocked
  <1> QED BY <1>6, <1>7, <1>10, <1>11, <1>12 DEF Shape, Replies

(* Only a configurable property goes.                                           *)
LEMMA DeleteShape ==
  ASSUME Types, NEW t, t = Top, RequestOK(t), OwnDelete
  PROVE  Evolves /\ UNCHANGED revoked /\ Shape(t)
  <1>1. t.op = "delete" /\ t.on \in Ordinary
    BY DEF OwnDelete, OnOrdinary, InProgress
  <1>2. Base(t.origin) = t.on /\ t.key \in Keys /\ props[t.on][t.key] \in Stored \cup {Missing}
    BY <1>1, OnOrdinaryFacts DEF Climbing, KeyOperations
  <1>3. PICK p \in Stored \cup {Missing} : p = props[t.on][t.key]
    BY <1>2
  <1>4. PICK a : a = Says(~IsLocked(p))
    OBVIOUS
  <1>5. a.status = "ok" /\ a.yes = ~IsLocked(p)
    BY <1>4, AnswerFacts
  <1>6. /\ Deliver(t, a) /\ UNCHANGED <<extensible, proto, revoked>>
        /\ \/ UNCHANGED props
           \/ ~IsLocked(p) /\ props' = [props EXCEPT ![t.on][t.key] = Missing]
    <2>1. CASE p = Missing
      <3>1. Deliver(t, Says(TRUE)) /\ UNCHANGED <<props, extensible, proto, revoked>>
        BY <1>3, <2>1 DEF OwnDelete, Own
      <3>2. a = Says(TRUE)
        BY <1>4, <2>1 DEF IsLocked
      <3> QED BY <3>1, <3>2
    <2>2. CASE p # Missing /\ On(p.configurable)
      <3>1. /\ Deliver(t, Says(TRUE)) /\ UNCHANGED <<extensible, proto, revoked>>
            /\ props' = [props EXCEPT ![t.on][t.key] = Missing]
        BY <1>3, <2>2 DEF OwnDelete, Own, Store
      <3>2. a = Says(TRUE) /\ ~IsLocked(p)
        BY <1>4, <2>2 DEF IsLocked
      <3> QED BY <3>1, <3>2
    <2>3. CASE p # Missing /\ ~On(p.configurable)
      <3>1. Deliver(t, Says(FALSE)) /\ UNCHANGED <<props, extensible, proto, revoked>>
        BY <1>3, <2>3 DEF OwnDelete, Own
      <3>2. a = Says(FALSE)
        BY <1>4, <2>3 DEF IsLocked
      <3> QED BY <3>1, <3>2
    <2> QED BY <2>1, <2>2, <2>3
  <1>7. Evolves
    <2>1. CASE UNCHANGED props
      BY <1>6, <2>1, UntouchedEvolves DEF objects
    <2>2. CASE ~IsLocked(p) /\ props' = [props EXCEPT ![t.on][t.key] = Missing]
      <3>1. PropertyEvolves(extensible[t.on], p, Missing)
        BY <2>2 DEF PropertyEvolves
      <3> QED BY <1>1, <1>2, <1>3, <1>6, <2>2, <3>1, StoreEvolves
    <2> QED BY <1>6, <2>1, <2>2
  <1>8. Truthful(t, a)
    BY <1>1, <1>2, <1>3, <1>5 DEF Truthful
  <1>9. Effective(t, a)'
    BY <1>1 DEF Effective
  <1> QED BY <1>5, <1>6, <1>7, <1>8, <1>9 DEF Shape, Replies

(* A lookup that finds nothing goes on to the prototype.                        *)
LEMMA SameTrap ==
  ASSUME NEW t \in Requests, t.trap = FALSE, NEW x
  PROVE  [t EXCEPT !.on = x] = [t EXCEPT !.on = x, !.trap = FALSE]
  BY DEF Requests

(* The request goes on for a property that is missing.                          *)
LEMMA ClimbMoves ==
  ASSUME Types, NEW t, t = Top, RequestOK(t), t.on \in Ordinary, ~t.trap, t.op \in Climbing,
         props[t.on][t.key] = Missing, proto[t.on] # Null,
         Advance([t EXCEPT !.on = proto[t.on]]), UNCHANGED <<answered, seen>>
  PROVE  Moves(t)
  <1>1. t \in Requests /\ t.trap = FALSE
    BY DEF RequestOK, Requests
  <1>2. PICK x \in Objects : x = proto[t.on]
    BY DEF Types
  <1>3. Advance([t EXCEPT !.on = x, !.trap = FALSE])
    <2>1. [t EXCEPT !.on = x] = [t EXCEPT !.on = x, !.trap = FALSE]
      BY <1>1, SameTrap
    <2>2. Advance([t EXCEPT !.on = x])
      BY <1>2
    <2> QED BY <2>1, <2>2 DEF Advance
  <1>4. Here(t) => props[Base(t.origin)][t.key] = Missing
    BY OnOrdinaryFacts
  <1> QED BY <1>3, <1>4 DEF Moves

(* Lookups tell of the property they find.                                      *)
LEMMA HasShape ==
  ASSUME Types, NEW t, t = Top, RequestOK(t), OwnHas
  PROVE  Evolves /\ UNCHANGED revoked /\ Shape(t)
  <1>1. t.op = "has" /\ t.on \in Ordinary /\ ~t.trap
    BY DEF OwnHas, OnOrdinary, InProgress
  <1>2. t.key \in Keys /\ props[t.on][t.key] \in Stored \cup {Missing}
    BY <1>1, OnOrdinaryFacts DEF KeyOperations
  <1>3. PICK p : p = props[t.on][t.key]
    OBVIOUS
  <1>4. Evolves /\ UNCHANGED revoked
    BY UntouchedEvolves DEF OwnHas, Untouched
  <1>5. CASE p = Missing /\ proto[t.on] # Null
    <2>1. Advance([t EXCEPT !.on = proto[t.on]]) /\ UNCHANGED <<answered, seen>>
      BY <1>3, <1>5 DEF OwnHas, Own, Climb
    <2> QED BY <1>1, <1>3, <1>4, <1>5, <2>1, ClimbMoves DEF Shape, Climbing
  <1>6. CASE ~(p = Missing /\ proto[t.on] # Null)
    <2>1. PICK a : a = Says(p # Missing)
      OBVIOUS
    <2>2. a.status = "ok" /\ a.yes = (p # Missing)
      BY <2>1, AnswerFacts
    <2>3. Deliver(t, a)
      <3>1. CASE p # Missing
        <4>1. Deliver(t, Says(TRUE))
          BY <1>3, <3>1 DEF OwnHas, Own
        <4>2. a = Says(TRUE)
          BY <2>1, <3>1
        <4> QED BY <4>1, <4>2
      <3>2. CASE p = Missing
        <4>1. Deliver(t, Says(FALSE))
          BY <1>3, <1>6, <3>2 DEF OwnHas, Own, Climb
        <4>2. a = Says(FALSE)
          BY <2>1, <3>2
        <4> QED BY <4>1, <4>2
      <3> QED BY <3>1, <3>2
    <2>4. Truthful(t, a)
      <3>1. Here(t) => props[Base(t.origin)][t.key] = p
        BY <1>1, <1>3, OnOrdinaryFacts
      <3> QED BY <1>1, <2>2, <3>1 DEF Truthful, IsLocked
    <2>5. Effective(t, a)'
      BY <1>1 DEF Effective
    <2> QED BY <1>4, <2>2, <2>3, <2>4, <2>5 DEF Shape, Replies
  <1> QED BY <1>5, <1>6

LEMMA GetShape ==
  ASSUME Types, NEW t, t = Top, RequestOK(t), OwnGet
  PROVE  Evolves /\ UNCHANGED revoked /\ Shape(t)
  <1>1. t.op = "get" /\ t.on \in Ordinary /\ ~t.trap
    BY DEF OwnGet, OnOrdinary, InProgress
  <1>2. t.key \in Keys /\ props[t.on][t.key] \in Stored \cup {Missing}
    BY <1>1, OnOrdinaryFacts DEF KeyOperations
  <1>3. PICK p \in Stored \cup {Missing} : p = props[t.on][t.key]
    BY <1>2
  <1>4. Evolves /\ UNCHANGED revoked
    BY UntouchedEvolves DEF OwnGet, Untouched
  <1>5. CASE p = Missing /\ proto[t.on] # Null
    <2>1. Advance([t EXCEPT !.on = proto[t.on]]) /\ UNCHANGED <<answered, seen>>
      BY <1>3, <1>5 DEF OwnGet, Own, Climb
    <2> QED BY <1>1, <1>3, <1>4, <1>5, <2>1, ClimbMoves DEF Shape, Climbing
  <1>6. CASE ~(p = Missing /\ proto[t.on] # Null)
    <2>1. PICK v : Deliver(t, Reads(v)) /\ Reading(p, v)
      <3>1. CASE p = Missing
        <4>1. Deliver(t, Reads(Undefined))
          BY <1>3, <1>6, <3>1 DEF OwnGet, Own, Climb
        <4> QED BY <3>1, <4>1 DEF Reading, IsConstant, IsLocked
      <3>2. CASE p # Missing /\ ~IsAccessorDescriptor(p)
        <4>1. Deliver(t, Reads(OrElse(p.value, Undefined)))
          BY <1>3, <3>2 DEF OwnGet, Own
        <4>2. p.value # Absent
          BY <3>2 DEF Stored, IsAccessorDescriptor, IsDataDescriptor
        <4>3. Reading(p, OrElse(p.value, Undefined))
          BY <3>2, <4>2, OrElseFacts DEF Reading
        <4> QED BY <4>1, <4>3
      <3>3. CASE p # Missing /\ IsAccessorDescriptor(p) /\ OrElse(p.get, Undefined) = Undefined
        <4>1. Deliver(t, Reads(Undefined))
          BY <1>3, <3>3 DEF OwnGet, Own
        <4>2. ~IsConstant(p)
          BY <3>3 DEF IsConstant, Stored, IsAccessorDescriptor, IsDataDescriptor
        <4> QED BY <4>1, <4>2 DEF Reading
      <3>4. CASE p # Missing /\ IsAccessorDescriptor(p) /\ OrElse(p.get, Undefined) # Undefined
        <4>1. PICK v : Deliver(t, Reads(v))
          BY <1>3, <3>4 DEF OwnGet, Own
        <4>2. ~IsConstant(p)
          BY <3>4 DEF IsConstant, Stored, IsAccessorDescriptor, IsDataDescriptor
        <4> QED BY <3>4, <4>1, <4>2 DEF Reading
      <3> QED BY <3>1, <3>2, <3>3, <3>4
    <2>2. PICK a : a = Reads(v)
      OBVIOUS
    <2>3. a.status = "ok" /\ a.value = v
      BY <2>2, AnswerFacts
    <2>4. Truthful(t, a)
      <3>1. Here(t) => props[Base(t.origin)][t.key] = p
        BY <1>1, <1>3, OnOrdinaryFacts
      <3> QED BY <1>1, <2>1, <2>3, <3>1 DEF Truthful
    <2>5. Effective(t, a)'
      BY <1>1 DEF Effective
    <2>6. Deliver(t, a)
      BY <2>1, <2>2
    <2> QED BY <1>4, <2>3, <2>4, <2>5, <2>6 DEF Shape, Replies
  <1> QED BY <1>5, <1>6

(* An assignment writes in place, goes on, or asks its receiver.                *)
LEMMA SetShape ==
  ASSUME Types, NEW t, t = Top, RequestOK(t), OwnSet
  PROVE  Evolves /\ UNCHANGED revoked /\ Shape(t)
  <1>1. t.op = "set" /\ t.on \in Ordinary /\ ~t.trap /\ t.value \in Values
    BY DEF OwnSet, OnOrdinary, InProgress, RequestOK, Requests
  <1>2. t.key \in Keys /\ props[t.on][t.key] \in Stored \cup {Missing}
    BY <1>1, OnOrdinaryFacts DEF KeyOperations
  <1>3. PICK p \in Stored \cup {Missing} : p = props[t.on][t.key]
    BY <1>2
  <1>4. UNCHANGED <<extensible, proto, revoked>>
    BY DEF OwnSet
  <1>5. ASSUME NEW yes \in BOOLEAN, Deliver(t, Says(yes)),
               Here(t) => (yes /\ IsConstant(p) => Equal(p.value, t.value))
        PROVE  Shape(t)
    <2>1. PICK a : a = Says(yes)
      OBVIOUS
    <2>2. a.status = "ok" /\ a.yes = yes
      BY <2>1, AnswerFacts
    <2>3. Deliver(t, a)
      BY <1>5, <2>1
    <2>4. Truthful(t, a)
      <3>1. Here(t) => props[Base(t.origin)][t.key] = p
        BY <1>1, <1>3, OnOrdinaryFacts
      <3> QED BY <1>1, <1>5, <2>2, <3>1 DEF Truthful
    <2>5. Effective(t, a)'
      BY <1>1 DEF Effective
    <2> QED BY <2>2, <2>3, <2>4, <2>5 DEF Shape, Replies
  <1>6. CASE p # Missing /\ On(p.writable) /\ t.receiver = t.on
    <2>1. PICK q : q = [p EXCEPT !.value = t.value]
      OBVIOUS
    <2>2. props' = [props EXCEPT ![t.on][t.key] = q] /\ Deliver(t, Says(TRUE))
      BY <1>3, <1>6, <2>1 DEF OwnSet, Own, Store
    <2>3. p \in Stored /\ p \in Descriptors
      BY <1>6 DEF Stored
    <2>4. /\ q \in Descriptors /\ q.value = t.value /\ q.get = p.get /\ q.set = p.set
          /\ q.writable = p.writable /\ q.enumerable = p.enumerable /\ q.configurable = p.configurable
      BY <1>1, <2>1, <2>3 DEF Descriptors
    <2>5. ~IsAccessorDescriptor(p) /\ p.writable # Absent
      BY <1>6, <2>3, FlagFacts DEF On, Stored, IsDataDescriptor, IsAccessorDescriptor
    <2>6. t.value # Absent
      BY <1>1, FlagFacts
    <2>7. q \in Stored
      BY <2>4, <2>5, <2>6 DEF Stored, IsDataDescriptor, IsAccessorDescriptor
    <2>8. PropertyEvolves(extensible[t.on], p, q)
      BY <1>6, <2>4, <2>5, <2>7 DEF PropertyEvolves, IsLocked, Keeps, IsAccessorDescriptor
    <2>9. Evolves
      BY <1>1, <1>2, <1>3, <1>4, <2>2, <2>7, <2>8, StoreEvolves
    <2>10. ~IsConstant(p)
      BY <1>6 DEF IsConstant
    <2>11. Shape(t)
      BY <1>5, <2>2, <2>10
    <2> QED BY <1>4, <2>9, <2>11
  <1>7. CASE ~(p # Missing /\ On(p.writable) /\ t.receiver = t.on)
    <2>1. UNCHANGED props /\ Evolves
      <3>1. UNCHANGED props
        BY <1>3, <1>7 DEF OwnSet, Own
      <3> QED BY <1>4, <3>1, UntouchedEvolves DEF objects
    <2>2. \/ p = Missing /\ proto[t.on] # Null /\ Advance([t EXCEPT !.on = proto[t.on]])
             /\ UNCHANGED <<answered, seen>>
          \/ Becomes(t, "getOwn", t.key, Empty, "assign")
          \/ Deliver(t, Says(FALSE))
          \/ p # Missing /\ ~IsDataDescriptor(p) /\ Deliver(t, Says(p.set \in Functions))
      <3> DEFINE toReceiver == Becomes(t, "getOwn", t.key, Empty, "assign")
      <3>1. IF p = Missing
            THEN IF proto[t.on] # Null
                 THEN Advance([t EXCEPT !.on = proto[t.on]]) /\ UNCHANGED <<answered, seen>>
                 ELSE toReceiver
            ELSE IF IsDataDescriptor(p)
            THEN IF On(p.writable) THEN toReceiver ELSE Deliver(t, Says(FALSE))
            ELSE Deliver(t, Says(p.set \in Functions))
        BY <1>3, <1>7, Zenon DEF OwnSet, Own
      <3> HIDE DEF toReceiver
      <3>2. \/ p = Missing /\ proto[t.on] # Null /\ Advance([t EXCEPT !.on = proto[t.on]])
               /\ UNCHANGED <<answered, seen>>
            \/ toReceiver
            \/ Deliver(t, Says(FALSE))
            \/ p # Missing /\ ~IsDataDescriptor(p) /\ Deliver(t, Says(p.set \in Functions))
        BY <3>1, Zenon
      <3> QED BY <3>2 DEF toReceiver
    <2>3. CASE p = Missing /\ proto[t.on] # Null /\ Advance([t EXCEPT !.on = proto[t.on]])
               /\ UNCHANGED <<answered, seen>>
      BY <1>1, <1>3, <1>4, <2>1, <2>3, ClimbMoves DEF Shape, Climbing
    <2>4. CASE Becomes(t, "getOwn", t.key, Empty, "assign")
      BY <1>1, <1>4, <2>1, <2>4 DEF Shape, Assigns
    <2>5. CASE Deliver(t, Says(FALSE))
      BY <1>4, <1>5, <2>1, <2>5
    <2>6. CASE p # Missing /\ ~IsDataDescriptor(p) /\ Deliver(t, Says(p.set \in Functions))
      <3>1. ~IsConstant(p)
        BY <2>6 DEF IsConstant
      <3>2. PICK yes \in BOOLEAN : yes = (p.set \in Functions)
        <4>1. (p.set \in Functions) \in BOOLEAN
          OBVIOUS
        <4> QED BY <4>1, Zenon
      <3>3. Deliver(t, Says(yes))
        BY <2>6, <3>2
      <3>4. Shape(t)
        BY <1>5, <3>1, <3>3
      <3> QED BY <1>4, <2>1, <3>4
    <2> QED BY <2>2, <2>3, <2>4, <2>5, <2>6
  <1> QED BY <1>6, <1>7

-----------------------------------------------------------------------------
(* Proxies. *)

(* A request on a proxy is about the target.                                    *)
LEMMA OnProxyFacts ==
  ASSUME Types, NEW t, RequestOK(t), t.on \in Proxies
  PROVE  /\ Target[t.on] \in Ordinary /\ Target[t.on] \in Objects
         /\ Base(Target[t.on]) = Base(t.on) /\ Base(t.on) = Target[t.on]
         /\ extensible[Target[t.on]] \in BOOLEAN
         /\ (t.op \notin Climbing => Base(t.origin) = Target[t.on])
         /\ (Here(t) => Base(t.origin) = Target[t.on])
         /\ t.op \in KeyOperations =>
              t.key \in Keys /\ props[Target[t.on]][t.key] \in Stored \cup {Missing}
  <1>1. Target[t.on] \in Ordinary /\ Target[t.on] \in Objects
        /\ Base(Target[t.on]) = Target[t.on] /\ Base(t.on) = Target[t.on]
    BY BaseFacts
  <1>2. t.op \in KeyOperations => t.key \in Keys
    BY DEF RequestOK
  <1>3. Here(t) => Base(t.origin) = Target[t.on]
    BY <1>1 DEF Here
  <1>4. t.op \notin Climbing => Here(t)
    BY DEF RequestOK
  <1> QED BY <1>1, <1>2, <1>3, <1>4 DEF Types

(* The ways a request on a proxy ends or goes on.                               *)
LEMMA ThrowShape ==
  ASSUME NEW t, Deliver(t, TypeError)
  PROVE  Shape(t)
  <1>1. PICK a : a = TypeError
    OBVIOUS
  <1>2. a.status = "TypeError" /\ Deliver(t, a)
    BY <1>1, AnswerFacts
  <1> QED BY <1>2 DEF Shape, Replies

(* A truthful answer of a trap is a reply,                                      *)
LEMMA ReplyShape ==
  ASSUME UNCHANGED objects, NEW t, NEW a, Deliver(t, a),
         a.status = "ok" => Truthful(t, a) /\ Effective(t, a),
         a.status = "crash" => t.op # "get" /\ (t.on \in revoked \/ t.op = "getPrototypeOf")
  PROVE  Shape(t)
  <1>1. Effective(t, a) => Effective(t, a)'
    BY DEF Effective, objects
  <1> QED BY <1>1 DEF Shape, Replies

(* and so is one after which the proxy may turn out revoked.                    *)
LEMMA SettleShape ==
  ASSUME UNCHANGED objects, NEW t, t = Top, NEW a, Settle(a),
         a.status = "ok" => Truthful(t, a) /\ Effective(t, a),
         a.status = "crash" => t.op = "getPrototypeOf"
  PROVE  Shape(t)
  <1>1. CASE t.on \in revoked /\ t.op # "get"
    <2>1. PICK c : c = Crash
      OBVIOUS
    <2>2. Deliver(t, c) /\ c.status = "crash"
      BY <1>1, <2>1, AnswerFacts DEF Settle, Rereads
    <2> QED BY <1>1, <2>2, ReplyShape
  <1>2. CASE ~(t.on \in revoked /\ t.op # "get")
    <2>1. Deliver(t, a)
      BY <1>2 DEF Settle, Rereads
    <2>2. a.status = "crash" => t.op # "get" /\ (t.on \in revoked \/ t.op = "getPrototypeOf")
      OBVIOUS
    <2> QED BY ONLY <2>1, <2>2, ReplyShape, UNCHANGED objects,
                    a.status = "ok" => Truthful(t, a) /\ Effective(t, a)
  <1> QED BY <1>1, <1>2

LEMMA SameOn ==
  ASSUME NEW t \in Requests, NEW b
  PROVE  [t EXCEPT !.trap = b] = [t EXCEPT !.on = t.on, !.trap = b]
  BY DEF Requests

(* A trap is called, or skipped for one name.                                   *)
LEMMA CallTrapShape ==
  ASSUME Types, NEW t, t = Top, RequestOK(t), CallTrap
  PROVE  Evolves /\ UNCHANGED revoked /\ Shape(t)
  <1>1. t.on \in Proxies /\ ~t.trap /\ t \in Requests /\ UNCHANGED revoked /\ t.trap = FALSE
    BY DEF CallTrap, OnProxy, Untouched, RequestOK, Requests
  <1>2. Evolves
    BY UntouchedEvolves DEF CallTrap, Untouched
  <1>3. CASE t.on \in revoked
    <2>1. Deliver(t, TypeError)
      BY <1>3 DEF CallTrap
    <2> QED BY <1>1, <1>2, <2>1, ThrowShape
  <1>4. CASE t.on \notin revoked
    <2>1. UNCHANGED <<answered, seen>>
      BY <1>4 DEF CallTrap
    <2>2. CASE t.op = "get" /\ t.key = RevokeKey
      <3>1. PICK x \in Objects : x = Target[t.on] /\ Base(x) = Base(t.on)
        BY <1>1, OnProxyFacts
      <3>2. Advance([t EXCEPT !.on = x])
        BY <1>4, <2>2, <3>1 DEF CallTrap
      <3>3. [t EXCEPT !.on = x] = [t EXCEPT !.on = x, !.trap = FALSE]
        BY <1>1, SameTrap
      <3>4. Advance([t EXCEPT !.on = x, !.trap = FALSE])
        BY <3>2, <3>3 DEF Advance
      <3>5. Moves(t)
        BY <2>1, <3>1, <3>4 DEF Moves
      <3> QED BY <1>1, <1>2, <3>5 DEF Shape
    <2>3. CASE ~(t.op = "get" /\ t.key = RevokeKey)
      <3>1. PICK x \in Objects : x = t.on
        BY <1>1, BaseFacts
      <3>2. Advance([t EXCEPT !.trap = TRUE])
        BY <1>4, <2>3 DEF CallTrap
      <3>3. [t EXCEPT !.trap = TRUE] = [t EXCEPT !.on = x, !.trap = TRUE]
        BY <1>1, <3>1, SameOn
      <3>4. Advance([t EXCEPT !.on = x, !.trap = TRUE])
        BY <3>2, <3>3 DEF Advance
      <3>5. Moves(t)
        BY <1>1, <2>1, <3>1, <3>4 DEF Moves
      <3> QED BY <1>1, <1>2, <3>5 DEF Shape
    <2> QED BY <2>2, <2>3
  <1> QED BY <1>3, <1>4

(* Without a trap the target answers.                                           *)
LEMMA TrapAbsentShape ==
  ASSUME Types, NEW t, t = Top, RequestOK(t), TrapAbsent
  PROVE  Evolves /\ UNCHANGED revoked /\ Shape(t)
  <1>1. t.on \in Proxies /\ UNCHANGED revoked /\ UNCHANGED objects
    BY DEF TrapAbsent, Untouched, RequestOK
  <1>2. Evolves
    BY <1>1, UntouchedEvolves
  <1>3. CASE t.on \in revoked /\ t.op # "get"
    <2>1. PICK c : c = Crash
      OBVIOUS
    <2>2. Deliver(t, c) /\ c.status = "crash"
      BY <1>3, <2>1, AnswerFacts DEF TrapAbsent, Rereads
    <2> QED BY <1>1, <1>2, <1>3, <2>2, ReplyShape
  <1>4. CASE ~(t.on \in revoked /\ t.op # "get")
    <2>1. PICK x \in Objects : x = Target[t.on] /\ Base(x) = Base(t.on)
      BY <1>1, OnProxyFacts
    <2>2. Advance([t EXCEPT !.on = x, !.trap = FALSE]) /\ UNCHANGED <<answered, seen>>
      BY <1>4, <2>1 DEF TrapAbsent, Rereads, Through
    <2>3. Moves(t)
      BY <2>1, <2>2 DEF Moves
    <2> QED BY <1>1, <1>2, <2>3 DEF Shape
  <1> QED BY <1>3, <1>4

(* A trap that has answered.                                                    *)
LEMMA WaitingFacts ==
  ASSUME Types, NEW t, t = Top, RequestOK(t), NEW op, Waiting(op), Untouched
  PROVE  /\ t.op = op /\ t.on \in Proxies
         /\ Evolves /\ UNCHANGED revoked /\ UNCHANGED objects
  <1>1. t.op = op /\ t.on \in Proxies
    BY DEF Waiting, RequestOK
  <1>2. UNCHANGED revoked /\ UNCHANGED objects
    BY DEF Untouched
  <1> QED BY <1>1, <1>2, UntouchedEvolves

(* A trap that throws ends the request.                                         *)
LEMMA TrapThrowsShape ==
  ASSUME Types, NEW t, t = Top, RequestOK(t), TrapThrows
  PROVE  Evolves /\ UNCHANGED revoked /\ Shape(t)
  BY ThrowShape, UntouchedEvolves DEF TrapThrows, Untouched

(* An answer of no is let through unchecked: it claims nothing.                 *)
LEMMA RefusalShape ==
  ASSUME Types, NEW t, t = Top, RequestOK(t),
         NEW op \in {"define", "set", "delete", "preventExtensions", "setPrototypeOf"}, Refusal(op)
  PROVE  Evolves /\ UNCHANGED revoked /\ Shape(t)
  <1>1. t.op = op /\ Evolves /\ UNCHANGED revoked /\ UNCHANGED objects
    BY WaitingFacts DEF Refusal
  <1>2. PICK a : a = Says(FALSE)
    OBVIOUS
  <1>3. a.status = "ok" /\ a.yes = FALSE /\ Deliver(t, a)
    BY <1>2, AnswerFacts DEF Refusal
  <1>4. Truthful(t, a)
    BY <1>1, <1>3 DEF Truthful
  <1>5. Effective(t, a)
    BY <1>3 DEF Effective
  <1> QED BY <1>1, <1>3, <1>4, <1>5, ReplyShape

(* What a check lets through meets it.                                          *)
LEMMA AcceptFacts ==
  ASSUME NEW condition, NEW b, Accept(condition, b).status = "ok"
  PROVE  condition /\ Accept(condition, b) = b
  BY AnswerFacts DEF Accept

(* Completing a descriptor once is enough.                                      *)
LEMMA CompletedTwice ==
  ASSUME NEW d \in Asked
  PROVE  Completed(Completed(d)) = Completed(d)
  <1> DEFINE c == Completed(d)
             b == Completed(c)
  <1>1. c \in Asked /\ b \in Asked
    BY CompletedFacts
  <1>2. /\ c.enumerable \in BOOLEAN /\ c.configurable \in BOOLEAN
        /\ ~IsAccessorDescriptor(c) => c.writable \in BOOLEAN
    BY CompletedFacts DEF On
  <1>3. c \in Stored
    BY CompletedFacts
  <1>4. /\ IsAccessorDescriptor(c) => c.get # Absent /\ c.set # Absent /\ c.value = Absent /\ c.writable = Absent
        /\ ~IsAccessorDescriptor(c) => c.value # Absent /\ c.get = Absent /\ c.set = Absent
    <2>1. IsAccessorDescriptor(c) => c.get # Absent /\ c.set # Absent /\ c.value = Absent /\ c.writable = Absent
      BY CompletedFacts, OrElseFacts, FlagFacts
    <2>2. ~IsAccessorDescriptor(c) => c.value # Absent /\ c.get = Absent /\ c.set = Absent
      BY <1>3 DEF Stored, IsAccessorDescriptor, IsDataDescriptor
    <2> QED BY <2>1, <2>2
  <1>5. /\ b.enumerable = On(c.enumerable) /\ b.configurable = On(c.configurable)
        /\ IsAccessorDescriptor(c) =>
             /\ b.get = OrElse(c.get, Undefined) /\ b.set = OrElse(c.set, Undefined)
             /\ b.value = Absent /\ b.writable = Absent
        /\ ~IsAccessorDescriptor(c) =>
             /\ b.value = OrElse(c.value, Undefined) /\ b.writable = On(c.writable)
             /\ b.get = Absent /\ b.set = Absent
    BY <1>1, CompletedFacts
  <1> HIDE DEF b, c
  <1>6. /\ b.enumerable = c.enumerable /\ b.configurable = c.configurable
        /\ b.get = c.get /\ b.set = c.set /\ b.value = c.value /\ b.writable = c.writable
    BY <1>2, <1>4, <1>5, OrElseFacts DEF On
  <1>7. b \in Descriptors /\ c \in Descriptors
    BY <1>1 DEF Asked
  <1>8. b = c
    BY <1>6, <1>7 DEF Descriptors
  <1> QED BY <1>8 DEF b, c

(* An answer that is accepted is true of the target.                            *)
LEMMA CheckGetOwnFacts ==
  ASSUME NEW x, extensible[x] \in BOOLEAN, NEW p \in Stored \cup {Missing}, NEW d \in Reports \cup {Missing},
         NEW a, a = CheckGetOwn(x, p, d)
  PROVE  /\ a.status = "ok" => Describing(extensible[x], p, a.desc)
         /\ a.status # "crash"
  <1>1. CASE d = Missing
    <2>1. a = Accept(p = Missing \/ (On(p.configurable) /\ extensible[x]), Describes(Missing))
      BY <1>1 DEF CheckGetOwn
    <2>2. a.status # "crash"
      BY <2>1, AnswerFacts DEF Accept
    <2>3. ASSUME a.status = "ok"
          PROVE  Describing(extensible[x], p, a.desc)
      <3>1. (p = Missing \/ (On(p.configurable) /\ extensible[x])) /\ a.desc = Missing
        BY <2>1, <2>3, AnswerFacts DEF Accept
      <3> QED BY <3>1 DEF Describing, IsLocked
    <2> QED BY <2>2, <2>3
  <1>2. CASE d # Missing
    <2>1. d \in Asked
      BY <1>2, AskedFacts
    <2>2. PICK c : c = Completed(d)
      OBVIOUS
    <2>3. c \in Stored /\ c \in Asked /\ c.configurable \in BOOLEAN /\ Completed(c) = c
      BY <2>1, <2>2, CompletedFacts, CompletedTwice DEF On
    <2>4. a = Accept(/\ IsCompatible(x, c, p)
                     /\ ~c.configurable => IsLocked(p) /\ (c.writable = FALSE => ~On(p.writable)), Describes(c))
      BY <1>2, <2>2 DEF CheckGetOwn
    <2>5. a.status # "crash"
      BY <2>4, AnswerFacts DEF Accept
    <2>6. ASSUME a.status = "ok"
          PROVE  Describing(extensible[x], p, a.desc)
      <3>1. /\ a.desc = c /\ IsCompatible(x, c, p)
            /\ ~c.configurable => IsLocked(p) /\ (c.writable = FALSE => ~On(p.writable))
        BY <2>4, <2>6, AnswerFacts DEF Accept
      <3>2. PICK e \in BOOLEAN : e = extensible[x]
        OBVIOUS
      <3>3. ValidateAndApply(e, c, p).ok
        BY <3>1, <3>2 DEF IsCompatible
      <3>4. p = Missing => e
        BY <3>3, Zenon DEF ValidateAndApply
      <3>5. ASSUME ~On(c.configurable)
            PROVE  p # Missing /\ Agree(p, Completed(c))
        <4>1. ~c.configurable
          BY <2>3, <3>5 DEF On
        <4>2. p \in Stored /\ ~On(p.configurable) /\ (c.writable = FALSE => ~On(p.writable))
          BY <3>1, <4>1 DEF IsLocked
        <4>3. (Completed(d).writable = FALSE => ~On(p.writable)) => Agree(p, Completed(d))
          BY <2>1, <2>2, <3>3, <4>2, ReportedAgrees
        <4> QED BY <2>2, <2>3, <4>2, <4>3, NotEmpty
      <3>6. ASSUME NEW s, p # Missing, Agree(p, s)
            PROVE  Agree(c, s)
        <4>1. p \in Stored /\ ~On(p.configurable)
          BY <3>6 DEF Agree
        <4>2. Agree(p, s) => Agree(Completed(d), s)
          BY <2>1, <2>2, <3>3, <4>1, ReportedAgrees
        <4> QED BY <2>2, <3>6, <4>2
      <3>7. c # Missing
        BY <2>3, NotEmpty
      <3> QED BY <2>3, <3>1, <3>2, <3>4, <3>5, <3>6, <3>7, Zenon DEF Describing
    <2> QED BY <2>5, <2>6
  <1> QED BY <1>1, <1>2

LEMMA TrapGetOwnShape ==
  ASSUME Types, NEW t, t = Top, RequestOK(t), TrapGetOwn
  PROVE  Evolves /\ UNCHANGED revoked /\ Shape(t)
  <1>1. t.op = "getOwn" /\ t.on \in Proxies /\ Evolves /\ UNCHANGED revoked /\ UNCHANGED objects
    BY WaitingFacts DEF TrapGetOwn
  <1>2. PICK x \in Ordinary, p \in Stored \cup {Missing} :
          /\ x = Target[t.on] /\ x = Base(t.origin) /\ p = props[x][t.key] /\ extensible[x] \in BOOLEAN
    BY <1>1, OnProxyFacts DEF Climbing, KeyOperations
  <1>3. PICK d \in Reports \cup {Missing} : Settle(CheckGetOwn(x, p, d))
    BY <1>2 DEF TrapGetOwn, Through, Sought
  <1>4. PICK a : a = CheckGetOwn(x, p, d)
    OBVIOUS
  <1>5. /\ a.status = "ok" => Describing(extensible[x], p, a.desc)
        /\ a.status # "crash" /\ Settle(a)
    BY <1>2, <1>3, <1>4, CheckGetOwnFacts
  <1>6. a.status = "ok" => Truthful(t, a) /\ Effective(t, a)
    BY <1>1, <1>2, <1>5 DEF Truthful, Effective
  <1> QED BY <1>1, <1>5, <1>6, SettleShape

LEMMA TrapGetShape ==
  ASSUME Types, NEW t, t = Top, RequestOK(t), TrapGet
  PROVE  Evolves /\ UNCHANGED revoked /\ Shape(t)
  <1>1. t.op = "get" /\ t.on \in Proxies /\ Evolves /\ UNCHANGED revoked /\ UNCHANGED objects
    BY WaitingFacts DEF TrapGet
  <1>2. PICK x, p : /\ x = Target[t.on] /\ p = props[x][t.key]
                    /\ Here(t) => x = Base(t.origin)
    BY <1>1, OnProxyFacts
  <1>3. PICK v \in Values, same \in BOOLEAN : Settle(CheckGet(x, p, v, same))
    BY <1>2 DEF TrapGet, Through, Sought
  <1>4. PICK a : a = CheckGet(x, p, v, same)
    OBVIOUS
  <1>5. /\ a.status = "ok" => Reading(p, v) /\ a.value = v
        /\ a.status # "crash" /\ Settle(a)
    BY <1>3, <1>4, AnswerFacts DEF CheckGet, Accept, Reading
  <1>6. a.status = "ok" => Truthful(t, a) /\ Effective(t, a)
    BY <1>1, <1>2, <1>5 DEF Truthful, Effective
  <1> QED BY <1>1, <1>5, <1>6, SettleShape

LEMMA TrapOwnKeysShape ==
  ASSUME Types, NEW t, t = Top, RequestOK(t), TrapOwnKeys
  PROVE  Evolves /\ UNCHANGED revoked /\ Shape(t)
  <1>1. t.op = "ownKeys" /\ t.on \in Proxies /\ Evolves /\ UNCHANGED revoked /\ UNCHANGED objects
    BY WaitingFacts DEF TrapOwnKeys
  <1>2. PICK x : x = Target[t.on] /\ x = Base(t.origin)
    BY <1>1, OnProxyFacts DEF Climbing
  <1>3. PICK keys \in SUBSET Keys : Settle(CheckOwnKeys(x, keys))
    BY <1>2 DEF TrapOwnKeys, Through
  <1>4. PICK a : a = CheckOwnKeys(x, keys)
    OBVIOUS
  <1>5. /\ a.status = "ok" => /\ \A k \in PresentKeys(x) : IsLocked(props[x][k]) => k \in keys
                              /\ extensible[x] \/ keys = PresentKeys(x)
                              /\ a.keys = keys
        /\ a.status # "crash" /\ Settle(a)
    BY <1>3, <1>4, AnswerFacts DEF CheckOwnKeys, Accept
  <1>6. a.status = "ok" => Truthful(t, a) /\ Effective(t, a)
    BY <1>1, <1>2, <1>5 DEF Truthful, Effective
  <1> QED BY <1>1, <1>5, <1>6, SettleShape

LEMMA TrapIsExtensibleShape ==
  ASSUME Types, NEW t, t = Top, RequestOK(t), TrapIsExtensible
  PROVE  Evolves /\ UNCHANGED revoked /\ Shape(t)
  <1>1. t.op = "isExtensible" /\ t.on \in Proxies /\ Evolves /\ UNCHANGED revoked /\ UNCHANGED objects
    BY WaitingFacts DEF TrapIsExtensible
  <1>2. PICK x : x = Target[t.on] /\ x = Base(t.origin)
    BY <1>1, OnProxyFacts DEF Climbing
  <1>3. PICK yes \in BOOLEAN : Settle(CheckIsExtensible(x, yes))
    BY <1>2 DEF TrapIsExtensible, Through
  <1>4. PICK a : a = CheckIsExtensible(x, yes)
    OBVIOUS
  <1>5. /\ a.status = "ok" => a.yes = extensible[x]
        /\ a.status # "crash" /\ Settle(a)
    BY <1>3, <1>4, AnswerFacts DEF CheckIsExtensible, Accept
  <1>6. a.status = "ok" => Truthful(t, a) /\ Effective(t, a)
    BY <1>1, <1>2, <1>5 DEF Truthful, Effective
  <1> QED BY <1>1, <1>5, <1>6, SettleShape

LEMMA TrapGetPrototypeOfShape ==
  ASSUME Types, NEW t, t = Top, RequestOK(t), TrapGetPrototypeOf
  PROVE  Evolves /\ UNCHANGED revoked /\ Shape(t)
  <1>1. t.op = "getPrototypeOf" /\ t.on \in Proxies /\ Evolves /\ UNCHANGED revoked /\ UNCHANGED objects
    BY WaitingFacts DEF TrapGetPrototypeOf
  <1>2. PICK a : Settle(a)
    BY DEF TrapGetPrototypeOf
  <1>3. Truthful(t, a) /\ Effective(t, a)
    BY <1>1 DEF Truthful, Effective
  <1> QED BY <1>1, <1>2, <1>3, SettleShape

LEMMA TrapHasShape ==
  ASSUME Types, NEW t, t = Top, RequestOK(t), TrapHas
  PROVE  Evolves /\ UNCHANGED revoked /\ Shape(t)
  <1>1. t.op = "has" /\ t.on \in Proxies /\ Evolves /\ UNCHANGED revoked /\ UNCHANGED objects
    BY WaitingFacts DEF TrapHas
  <1>2. CASE Deliver(t, Says(TRUE))
    <2>1. PICK a : a = Says(TRUE)
      OBVIOUS
    <2>2. Deliver(t, a) /\ a.status = "ok" /\ a.yes
      BY <1>2, <2>1, AnswerFacts
    <2>3. Truthful(t, a) /\ Effective(t, a)
      BY <1>1, <2>2 DEF Truthful, Effective
    <2> QED BY <1>1, <2>2, <2>3, ReplyShape
  <1>3. CASE Settle(CheckHas(Through, Sought, FALSE))
    <2>1. PICK x, p : /\ x = Target[t.on] /\ p = props[x][t.key]
                      /\ Here(t) => x = Base(t.origin)
      BY <1>1, OnProxyFacts
    <2>2. PICK a : a = CheckHas(x, p, FALSE)
      OBVIOUS
    <2>3. Settle(a)
      BY <1>3, <2>1, <2>2 DEF Through, Sought
    <2>4. /\ a.status = "ok" => ~IsLocked(p)
          /\ a.status # "crash"
      BY <2>2, AnswerFacts DEF CheckHas, Accept, IsLocked
    <2>5. a.status = "ok" => Truthful(t, a) /\ Effective(t, a)
      BY <1>1, <2>1, <2>4 DEF Truthful, Effective
    <2> QED BY <1>1, <2>3, <2>4, <2>5, SettleShape
  <1> QED BY <1>2, <1>3 DEF TrapHas

LEMMA TrapDefineShape ==
  ASSUME Types, NEW t, t = Top, RequestOK(t), TrapDefine
  PROVE  Evolves /\ UNCHANGED revoked /\ Shape(t)
  <1>1. CASE Refusal("define")
    BY <1>1, RefusalShape
  <1>2. CASE Waiting("define") /\ Settle(CheckDefine(Through, Sought, t.desc, TRUE)) /\ Untouched
    <2>1. t.op = "define" /\ t.on \in Proxies /\ Evolves /\ UNCHANGED revoked /\ UNCHANGED objects
      BY <1>2, WaitingFacts
    <2>2. PICK x, p : x = Target[t.on] /\ p = props[x][t.key] /\ x = Base(t.origin)
      BY <2>1, OnProxyFacts DEF Climbing
    <2>3. PICK a : a = CheckDefine(x, p, t.desc, TRUE)
      OBVIOUS
    <2>4. Settle(a)
      BY <1>2, <2>2, <2>3 DEF Through, Sought
    <2>5. CASE p = Missing
      <3>1. a = Accept(extensible[x] /\ ~(t.desc.configurable = FALSE), Says(TRUE))
        BY <2>3, <2>5 DEF CheckDefine
      <3>2. a.status # "crash" /\ (a.status = "ok" /\ t.desc.configurable = FALSE => FALSE)
        BY <3>1, AnswerFacts DEF Accept
      <3>3. a.status = "ok" => Truthful(t, a) /\ Effective(t, a)
        BY <2>1, <3>2 DEF Truthful, Effective
      <3> QED BY <2>1, <2>4, <3>2, <3>3, SettleShape
    <2>6. CASE p # Missing
      <3>1. PICK others \in BOOLEAN : a = Accept(others /\ ~(On(p.configurable) /\ t.desc.configurable = FALSE), Says(TRUE))
        <4>1. PICK others \in BOOLEAN :
                others <=> /\ IsCompatible(x, t.desc, p)
                           /\ ~(IsDataDescriptor(p) /\ IsLocked(p) /\ On(p.writable) /\ t.desc.writable = FALSE)
          OBVIOUS
        <4> QED BY <2>3, <2>6, <4>1, Zenon DEF CheckDefine, Accept
      <3>2. a.status # "crash" /\ (a.status = "ok" /\ t.desc.configurable = FALSE => ~On(p.configurable))
        BY <3>1, AnswerFacts DEF Accept
      <3>3. a.status = "ok" => Truthful(t, a) /\ Effective(t, a)
        BY <2>1, <2>2, <3>2 DEF Truthful, Effective, IsLocked
      <3> QED BY <2>1, <2>4, <3>2, <3>3, SettleShape
    <2> QED BY <2>5, <2>6
  <1> QED BY <1>1, <1>2 DEF TrapDefine

LEMMA TrapSetShape ==
  ASSUME Types, NEW t, t = Top, RequestOK(t), TrapSet
  PROVE  Evolves /\ UNCHANGED revoked /\ Shape(t)
  <1>1. CASE Refusal("set")
    BY <1>1, RefusalShape
  <1>2. CASE Waiting("set") /\ Settle(CheckSet(Through, Sought, t.value, TRUE)) /\ Untouched
    <2>1. t.op = "set" /\ t.on \in Proxies /\ Evolves /\ UNCHANGED revoked /\ UNCHANGED objects
      BY <1>2, WaitingFacts
    <2>2. PICK x, p : /\ x = Target[t.on] /\ p = props[x][t.key]
                      /\ Here(t) => x = Base(t.origin)
      BY <2>1, OnProxyFacts
    <2>3. PICK a : a = CheckSet(x, p, t.value, TRUE)
      OBVIOUS
    <2>4. Settle(a)
      BY <1>2, <2>2, <2>3 DEF Through, Sought
    <2>5. a.status # "crash" /\ (a.status = "ok" => (IsConstant(p) => Equal(p.value, t.value)))
      BY <2>3, AnswerFacts DEF CheckSet, Accept
    <2>6. a.status = "ok" => Truthful(t, a) /\ Effective(t, a)
      BY <2>1, <2>2, <2>5 DEF Truthful, Effective
    <2> QED BY <2>1, <2>4, <2>5, <2>6, SettleShape
  <1> QED BY <1>1, <1>2 DEF TrapSet

LEMMA TrapDeleteShape ==
  ASSUME Types, NEW t, t = Top, RequestOK(t), TrapDelete
  PROVE  Evolves /\ UNCHANGED revoked /\ Shape(t)
  <1>1. CASE Refusal("delete")
    BY <1>1, RefusalShape
  <1>2. CASE Waiting("delete") /\ Settle(CheckDelete(Through, Sought, TRUE)) /\ Untouched
    <2>1. t.op = "delete" /\ t.on \in Proxies /\ Evolves /\ UNCHANGED revoked /\ UNCHANGED objects
      BY <1>2, WaitingFacts
    <2>2. PICK x, p : x = Target[t.on] /\ p = props[x][t.key] /\ x = Base(t.origin)
      BY <2>1, OnProxyFacts DEF Climbing
    <2>3. PICK a : a = CheckDelete(x, p, TRUE)
      OBVIOUS
    <2>4. Settle(a)
      BY <1>2, <2>2, <2>3 DEF Through, Sought
    <2>5. a.status # "crash" /\ (a.status = "ok" => ~IsLocked(p))
      BY <2>3, AnswerFacts DEF CheckDelete, Accept, IsLocked
    <2>6. a.status = "ok" => Truthful(t, a) /\ Effective(t, a)
      BY <2>1, <2>2, <2>5 DEF Truthful, Effective
    <2> QED BY <2>1, <2>4, <2>5, <2>6, SettleShape
  <1> QED BY <1>1, <1>2 DEF TrapDelete

LEMMA TrapPreventExtensionsShape ==
  ASSUME Types, NEW t, t = Top, RequestOK(t), TrapPreventExtensions
  PROVE  Evolves /\ UNCHANGED revoked /\ Shape(t)
  <1>1. CASE Refusal("preventExtensions")
    BY <1>1, RefusalShape
  <1>2. CASE Waiting("preventExtensions") /\ Settle(CheckPreventExtensions(Through, TRUE)) /\ Untouched
    <2>1. t.op = "preventExtensions" /\ t.on \in Proxies /\ Evolves /\ UNCHANGED revoked /\ UNCHANGED objects
      BY <1>2, WaitingFacts
    <2>2. PICK x : x = Target[t.on] /\ x = Base(t.origin)
      BY <2>1, OnProxyFacts DEF Climbing
    <2>3. PICK a : a = CheckPreventExtensions(x, TRUE)
      OBVIOUS
    <2>4. Settle(a)
      BY <1>2, <2>2, <2>3 DEF Through
    <2>5. a.status # "crash" /\ (a.status = "ok" => ~extensible[x])
      BY <2>3, AnswerFacts DEF CheckPreventExtensions, Accept
    <2>6. a.status = "ok" => Truthful(t, a) /\ Effective(t, a)
      BY <2>1, <2>2, <2>5 DEF Truthful, Effective
    <2> QED BY <2>1, <2>4, <2>5, <2>6, SettleShape
  <1> QED BY <1>1, <1>2 DEF TrapPreventExtensions

LEMMA TrapSetPrototypeOfShape ==
  ASSUME Types, NEW t, t = Top, RequestOK(t), TrapSetPrototypeOf
  PROVE  Evolves /\ UNCHANGED revoked /\ Shape(t)
  <1>1. CASE Refusal("setPrototypeOf")
    BY <1>1, RefusalShape
  <1>2. CASE Waiting("setPrototypeOf") /\ Settle(CheckSetPrototypeOf(Through, t.proto, TRUE)) /\ Untouched
    <2>1. t.op = "setPrototypeOf" /\ t.on \in Proxies /\ Evolves /\ UNCHANGED revoked /\ UNCHANGED objects
      BY <1>2, WaitingFacts
    <2>2. PICK a : a = CheckSetPrototypeOf(Through, t.proto, TRUE)
      OBVIOUS
    <2>3. Settle(a)
      BY <1>2, <2>2
    <2>4. a.status # "crash"
      BY <2>2, AnswerFacts DEF CheckSetPrototypeOf, Accept
    <2>5. Truthful(t, a) /\ Effective(t, a)
      BY <2>1 DEF Truthful, Effective
    <2> QED BY <2>1, <2>3, <2>4, <2>5, SettleShape
  <1> QED BY <1>1, <1>2 DEF TrapSetPrototypeOf

(* Every step of a request.                                                     *)
LEMMA StepShape ==
  ASSUME Types, NEW t, t = Top, RequestOK(t), OrdinaryStep \/ ProxyStep
  PROVE  requests # <<>> /\ Evolves /\ UNCHANGED revoked /\ Shape(t)
  <1>1. requests # <<>>
    BY DEF OrdinaryStep, ProxyStep, OwnGetOwn, OwnDefine, OwnDelete, OwnHas, OwnGet, OwnSet,
           OwnPreventExtensions, OwnIsExtensible, OwnOwnKeys, OwnGetPrototypeOf, OwnSetPrototypeOf,
           OnOrdinary, InProgress, CallTrap, OnProxy, TrapAbsent, TrapThrows, TrapGetOwn, TrapGet,
           TrapOwnKeys, TrapIsExtensible, TrapGetPrototypeOf, TrapHas, TrapDefine, TrapSet, TrapDelete,
           TrapPreventExtensions, TrapSetPrototypeOf, Refusal, Waiting
  <1>2. ASSUME OrdinaryStep
        PROVE  Evolves /\ UNCHANGED revoked /\ Shape(t)
    <2>1. CASE OwnGetOwn
      BY <2>1, GetOwnShape
    <2>2. CASE OwnDefine
      BY <2>2, DefineShape
    <2>3. CASE OwnDelete
      BY <2>3, DeleteShape
    <2>4. CASE OwnHas
      BY <2>4, HasShape
    <2>5. CASE OwnGet
      BY <2>5, GetShape
    <2>6. CASE OwnSet
      BY <2>6, SetShape
    <2>7. CASE OwnPreventExtensions
      BY <2>7, PreventExtensionsShape
    <2>8. CASE OwnIsExtensible
      BY <2>8, IsExtensibleShape
    <2>9. CASE OwnOwnKeys
      BY <2>9, OwnKeysShape
    <2>10. CASE OwnGetPrototypeOf
      BY <2>10, GetPrototypeOfShape
    <2>11. CASE OwnSetPrototypeOf
      BY <2>11, SetPrototypeOfShape
    <2> QED BY <1>2, <2>1, <2>2, <2>3, <2>4, <2>5, <2>6, <2>7, <2>8, <2>9, <2>10, <2>11 DEF OrdinaryStep
  <1>3. ASSUME ProxyStep
        PROVE  Evolves /\ UNCHANGED revoked /\ Shape(t)
    <2>1. CASE CallTrap
      BY <2>1, CallTrapShape
    <2>2. CASE TrapAbsent
      BY <2>2, TrapAbsentShape
    <2>3. CASE TrapThrows
      BY <2>3, TrapThrowsShape
    <2>4. CASE TrapGetOwn
      BY <2>4, TrapGetOwnShape
    <2>5. CASE TrapGet
      BY <2>5, TrapGetShape
    <2>6. CASE TrapOwnKeys
      BY <2>6, TrapOwnKeysShape
    <2>7. CASE TrapIsExtensible
      BY <2>7, TrapIsExtensibleShape
    <2>8. CASE TrapGetPrototypeOf
      BY <2>8, TrapGetPrototypeOfShape
    <2>9. CASE TrapHas
      BY <2>9, TrapHasShape
    <2>10. CASE TrapDefine
      BY <2>10, TrapDefineShape
    <2>11. CASE TrapSet
      BY <2>11, TrapSetShape
    <2>12. CASE TrapDelete
      BY <2>12, TrapDeleteShape
    <2>13. CASE TrapPreventExtensions
      BY <2>13, TrapPreventExtensionsShape
    <2>14. CASE TrapSetPrototypeOf
      BY <2>14, TrapSetPrototypeOfShape
    <2> QED BY <1>3, <2>1, <2>2, <2>3, <2>4, <2>5, <2>6, <2>7, <2>8, <2>9, <2>10, <2>11, <2>12, <2>13, <2>14 DEF ProxyStep
  <1> QED BY <1>1, <1>2, <1>3

-----------------------------------------------------------------------------
(* What has been found out stays true. *)

Holds(s) ==
  /\ s.fact \in {"closed", "gone"} => ~extensible[s.about]
  /\ s.fact = "gone" => props[s.about][s.key] = Missing
  /\ s.fact = "fixed" => props[s.about][s.key] # Missing /\ Agree(props[s.about][s.key], s.desc)

(* What holds of an object goes on holding as it evolves,                       *)
LEMMA HoldsStays ==
  ASSUME Types, Evolves, NEW s, Fact(s), Holds(s)
  PROVE  Holds(s)'
  <1>1. PICK o \in Ordinary : o = s.about
    BY DEF Fact, AllFacts
  <1>2. extensible'[o] => extensible[o]
    BY DEF Evolves
  <1>3. s.fact \in {"closed", "gone"} => ~extensible'[o]
    BY <1>1, <1>2 DEF Holds
  <1>4. ASSUME s.fact = "gone"
        PROVE  props'[o][s.key] = Missing
    <2>1. s.key \in Keys /\ ~extensible[o] /\ props[o][s.key] = Missing
      BY <1>1, <1>4 DEF Holds, Fact
    <2>2. PropertyEvolves(extensible[o], props[o][s.key], props'[o][s.key])
      BY <2>1 DEF Evolves
    <2> QED BY <2>1, <2>2 DEF PropertyEvolves
  <1>5. ASSUME s.fact = "fixed"
        PROVE  props'[o][s.key] # Missing /\ Agree(props'[o][s.key], s.desc)
    <2>1. PICK k \in Keys : k = s.key
      BY <1>5 DEF Fact
    <2>2. PICK p \in Stored \cup {Missing} : p = props[o][k]
      BY DEF Types
    <2>3. PICK q : q = props'[o][k]
      OBVIOUS
    <2>4. p # Missing /\ Agree(p, s.desc)
      BY <1>1, <1>5, <2>1, <2>2 DEF Holds
    <2>5. p \in Stored /\ IsLocked(p)
      BY <2>2, <2>4 DEF Agree, IsLocked
    <2>6. PropertyEvolves(extensible[o], p, q)
      BY <2>2, <2>3 DEF Evolves
    <2>7. Keeps(p, q)
      BY <2>5, <2>6 DEF PropertyEvolves
    <2>8. Agree(q, s.desc)
      BY <2>4, <2>5, <2>7, AgreeKept
    <2>9. q # Missing
      BY <2>7, NotEmpty DEF Keeps
    <2> QED BY <2>1, <2>3, <2>8, <2>9
  <1> QED BY <1>1, <1>3, <1>4, <1>5 DEF Holds

(* a property that an integrity function has locked stays locked,               *)
LEMMA SecureStays ==
  ASSUME NEW program, NEW p \in Stored, NEW q, Keeps(p, q), Secure(program, p)
  PROVE  Secure(program, q)
  <1>1. q \in Stored /\ ~On(q.configurable) /\ q # Missing
    BY NotEmpty DEF Keeps
  <1>2. IsLocked(q)
    BY <1>1 DEF IsLocked
  <1>3. IsAccessorDescriptor(p) => IsAccessorDescriptor(q)
    BY DEF Keeps
  <1>4. ASSUME ~IsAccessorDescriptor(p), IsConstant(p)
        PROVE  IsConstant(q)
    <2>1. ~IsAccessorDescriptor(q) /\ ~On(q.writable)
      BY <1>4 DEF Keeps, IsConstant
    <2>2. IsDataDescriptor(q)
      BY <1>1, <2>1 DEF Stored, IsAccessorDescriptor, IsDataDescriptor
    <2> QED BY <1>2, <2>1, <2>2 DEF IsConstant
  <1> QED BY <1>2, <1>3, <1>4 DEF Secure

(* as do all that it is done with,                                              *)
LEMMA CoveredStays ==
  ASSUME Types, Evolves, NEW o \in Ordinary, NEW program, NEW left, Covered(program, o, left)
  PROVE  Covered(program, o, left)'
  <1>1. ~extensible[o] /\ ~extensible'[o]
    BY DEF Covered, Evolves
  <1>2. ASSUME NEW k \in Keys, props'[o][k] # Missing, k \notin left
        PROVE  Secure(program, props'[o][k])
    <2>1. PICK p \in Stored \cup {Missing} : p = props[o][k]
      BY DEF Types
    <2>2. PICK q : q = props'[o][k]
      OBVIOUS
    <2>3. PropertyEvolves(extensible[o], p, q)
      BY <2>1, <2>2 DEF Evolves
    <2>4. p # Missing
      BY <1>1, <1>2, <2>2, <2>3 DEF PropertyEvolves
    <2>5. Secure(program, p)
      BY <1>2, <2>1, <2>4 DEF Covered, PresentKeys
    <2>6. p \in Stored /\ Keeps(p, q)
      BY <2>1, <2>3, <2>4, <2>5 DEF PropertyEvolves, Secure
    <2>7. Secure(program, q)
      BY <2>5, <2>6, SecureStays
    <2> QED BY <2>2, <2>7
  <1> QED BY <1>1, <1>2 DEF Covered, PresentKeys

(* so that what each request in progress relies on is not lost.                 *)
LEMMA ProgressStays ==
  ASSUME Types, Evolves, NEW f, RequestOK(f), Progress(f)
  PROVE  Progress(f)'
  <1>1. PICK o \in Ordinary : o = Base(f.origin)
    BY BaseFacts DEF RequestOK, Requests
  <1>2. ~extensible[o] => ~extensible'[o]
    BY DEF Evolves
  <1>3. PICK left : left = f.rest \cup {f.key}
    OBVIOUS
  <1>4. Covered(f.program, o, left) => Covered(f.program, o, left)'
    BY CoveredStays
  <1> QED BY <1>1, <1>2, <1>3, <1>4 DEF Progress

-----------------------------------------------------------------------------
(* What becomes of an answer. *)

Ended(t, a, g, b) ==
  /\ Finish(g, b)
  /\ g.origin = t.origin
  /\ b.status = "crash" => g = t /\ b = a
  /\ b.status = "ok" =>
       /\ g.then = "script"
       /\ \/ g = t /\ b = a
          \/ g.op = "set" /\ b.yes = FALSE
          \/ g.op \in Integrity /\ (b.yes => Covered(g.op, Base(t.origin), {})')
Continued(t, g) ==
  /\ Advance(g) /\ UNCHANGED <<answered, seen>>
  /\ RequestOK(g) /\ Progress(g)' /\ Here(g) /\ g.origin = t.origin

Purposes == {"script", "assign", "close", "open", "list", "view", "lock", "inspect"}
Becoming(f, op, key, desc, then, g) ==
  /\ Advance(g) /\ UNCHANGED <<answered, seen>>
  /\ g.op = op /\ g.key = key /\ g.desc = desc /\ g.then = then
  /\ g.origin = f.origin /\ g.on = f.origin /\ g.receiver = f.origin /\ g.trap = FALSE
  /\ g.program = f.program /\ g.rest = f.rest

(* A request that becomes another one is well formed.                           *)
LEMMA BecomesFacts ==
  ASSUME NEW f \in Requests, f.receiver = f.origin,
         NEW op \in Operations, NEW key \in Keys \cup {NoKey}, NEW desc \in Asked,
         NEW then \in Purposes, Becomes(f, op, key, desc, then)
  PROVE  \E g \in Requests : Becoming(f, op, key, desc, then, g)
  <1> DEFINE g == [f EXCEPT !.op = op, !.key = key, !.desc = desc, !.then = then, !.on = f.receiver, !.trap = FALSE]
  <1>1. Advance(g) /\ UNCHANGED <<answered, seen>>
    BY DEF Becomes
  <1>2. desc \in Descriptors
    BY DEF Asked
  <1>3. /\ g \in Requests
        /\ g.op = op /\ g.key = key /\ g.desc = desc /\ g.then = then
        /\ g.origin = f.origin /\ g.on = f.origin /\ g.receiver = f.origin /\ g.trap = FALSE
        /\ g.program = f.program /\ g.rest = f.rest
    BY <1>2 DEF Requests, Purposes
  <1> HIDE DEF g
  <1> QED BY <1>1, <1>3 DEF Becoming

(* A request that concludes answers for its program.                            *)
LEMMA ConcludesFacts ==
  ASSUME NEW f \in Requests, NEW b, Concludes(f, b)
  PROVE  \E g : /\ Finish(g, b) /\ g.origin = f.origin /\ g.then = "script"
                /\ f.program = "none" => g.op = "set"
                /\ f.program # "none" => g.op = f.program
  <1> DEFINE g == [f EXCEPT !.op = IF f.program = "none" THEN "set" ELSE f.program, !.then = "script"]
  <1>1. Finish(g, b)
    BY DEF Concludes
  <1>2. /\ g.origin = f.origin /\ g.then = "script"
        /\ g.op = IF f.program = "none" THEN "set" ELSE f.program
    BY DEF Requests
  <1> HIDE DEF g
  <1> QED BY <1>1, <1>2

(* An integrity function that answers no, or throws.                            *)
LEMMA GivesUp ==
  ASSUME NEW t \in Requests, t.program # "none", NEW a, NEW b, Concludes(t, b),
         b.status \in {"ok", "TypeError"}, b.status = "ok" => b.yes = FALSE
  PROVE  \E g, c : Ended(t, a, g, c)
  <1>1. PICK g : Finish(g, b) /\ g.origin = t.origin /\ g.then = "script" /\ g.op = t.program
    BY ConcludesFacts
  <1>2. t.program \in Integrity
    BY DEF Requests, Integrity
  <1>3. Ended(t, a, g, b)
    BY <1>1, <1>2 DEF Ended
  <1> QED BY <1>3

(* The integrity function goes on to its next key, or ends.                     *)
LEMMA NextKeyShape ==
  ASSUME NEW t \in Requests, NEW a, NEW f \in Requests, f.origin = t.origin, f.receiver = f.origin,
         f.program \in Integrity, Covered(f.program, Base(f.origin), f.rest)', NextKey(f)
  PROVE  \E g, b : Ended(t, a, g, b) \/ Continued(t, g)
  <1>1. CASE f.rest = {}
    <2>1. PICK b : b = Says(TRUE)
      OBVIOUS
    <2>2. Concludes(f, b) /\ b.status = "ok"
      BY <1>1, <2>1, AnswerFacts DEF NextKey
    <2>3. PICK g : Finish(g, b) /\ g.origin = f.origin /\ g.then = "script" /\ g.op = f.program
      BY <2>2, ConcludesFacts DEF Integrity
    <2>4. Covered(g.op, Base(t.origin), {})'
      BY <1>1, <2>3
    <2>5. Ended(t, a, g, b)
      BY <2>2, <2>3, <2>4 DEF Ended
    <2> QED BY <2>5
  <1>2. CASE f.rest # {}
    <2>1. PICK k \in f.rest :
            LET h == [f EXCEPT !.rest = @ \ {k}]
            IN CASE f.program = "seal" -> Becomes(h, "define", k, Locking, "lock")
                 [] f.program = "freeze" -> Becomes(h, "getOwn", k, Empty, "view")
                 [] f.program \in {"isSealed", "isFrozen"} -> Becomes(h, "getOwn", k, Empty, "inspect")
      BY <1>2, Zenon DEF NextKey
    <2> DEFINE h == [f EXCEPT !.rest = @ \ {k}]
    <2>2. /\ k \in Keys /\ h \in Requests /\ h.origin = f.origin /\ h.receiver = f.origin
          /\ h.program = f.program /\ h.rest = f.rest \ {k}
      BY <2>1 DEF Requests
    <2>3. \/ f.program = "seal" /\ Becomes(h, "define", k, Locking, "lock")
          \/ f.program = "freeze" /\ Becomes(h, "getOwn", k, Empty, "view")
          \/ f.program \in {"isSealed", "isFrozen"} /\ Becomes(h, "getOwn", k, Empty, "inspect")
      <3> HIDE DEF h
      <3>1. f.program \in {"seal", "freeze", "isSealed", "isFrozen"}
        BY DEF Integrity
      <3>2. CASE f.program = "seal"
        BY <2>1, <3>2 DEF h
      <3>3. CASE f.program = "freeze"
        BY <2>1, <3>3 DEF h
      <3>4. CASE f.program \in {"isSealed", "isFrozen"}
        BY <2>1, <3>4 DEF h
      <3> QED BY <3>1, <3>2, <3>3, <3>4
    <2> HIDE DEF h
    <2>4. PICK op \in Operations, desc \in Asked, then \in Purposes :
            /\ Becomes(h, op, k, desc, then)
            /\ \/ then = "lock" /\ op = "define" /\ desc = Locking /\ f.program = "seal"
               \/ then = "view" /\ op = "getOwn" /\ f.program = "freeze"
               \/ then = "inspect" /\ op = "getOwn" /\ f.program \in {"isSealed", "isFrozen"}
      BY <2>3, AskedFacts DEF Operations, Purposes
    <2>5. PICK g \in Requests : Becoming(h, op, k, desc, then, g)
      <3>1. h.receiver = h.origin /\ k \in Keys \cup {NoKey}
        BY <2>2
      <3> QED BY ONLY <2>2, <2>4, <3>1, BecomesFacts
    <2>6. /\ Advance(g) /\ UNCHANGED <<answered, seen>>
          /\ g.op = op /\ g.key = k /\ g.desc = desc /\ g.then = then
          /\ g.origin = f.origin /\ g.on = f.origin /\ g.receiver = f.origin /\ g.trap = FALSE
          /\ g.program = f.program /\ g.rest = f.rest \ {k}
      BY <2>2, <2>5 DEF Becoming
    <2>7. Here(g) /\ RequestOK(g)
      BY <2>2, <2>4, <2>6, AskedFacts DEF RequestOK, Stage, Here
    <2>8. Progress(g)'
      <3>1. g.rest \cup {g.key} = f.rest
        BY <2>1, <2>6
      <3> QED BY <2>4, <2>6, <3>1 DEF Progress
    <2>9. Continued(t, g)
      BY <2>6, <2>7, <2>8 DEF Continued
    <2> QED BY <2>9
  <1> QED BY <1>1, <1>2

(* A property that the inspection has passed is locked,                         *)
LEMMA InspectedSecure ==
  ASSUME NEW program, NEW p \in Stored, NEW d \in Stored, ~On(d.configurable), Agree(p, Completed(d)),
         ~(program = "isFrozen" /\ IsDataDescriptor(d) /\ On(d.writable))
  PROVE  Secure(program, p)
  <1> DEFINE c == Completed(d)
  <1>1. d \in Asked
    BY DEF Stored, Asked, IsAccessorDescriptor, IsDataDescriptor
  <1>2. /\ IsAccessorDescriptor(c) <=> IsAccessorDescriptor(d)
        /\ ~IsAccessorDescriptor(d) => c.writable = On(d.writable)
    BY <1>1, CompletedFacts
  <1>3. /\ ~On(p.configurable) /\ IsAccessorDescriptor(p) = IsAccessorDescriptor(c)
        /\ ~IsAccessorDescriptor(p) /\ ~On(c.writable) => ~On(p.writable)
    BY Zenon DEF Agree
  <1> HIDE DEF c
  <1>4. p # Missing
    BY NotEmpty
  <1>5. ASSUME program = "isFrozen", ~IsAccessorDescriptor(p)
        PROVE  IsConstant(p)
    <2>1. ~IsAccessorDescriptor(d) /\ IsDataDescriptor(d) /\ IsDataDescriptor(p)
      BY <1>2, <1>3, <1>5 DEF Stored, IsAccessorDescriptor, IsDataDescriptor
    <2>2. ~On(d.writable)
      BY <1>5, <2>1
    <2>3. ~On(c.writable)
      BY <1>2, <2>1, <2>2 DEF On
    <2> QED BY <1>3, <1>4, <1>5, <2>1, <2>3 DEF IsConstant, IsLocked
  <1> QED BY <1>3, <1>4, <1>5 DEF Secure, IsLocked

(* which leaves one key less to look at.                                        *)
LEMMA CoveredNext ==
  ASSUME NEW program, NEW o, NEW left, NEW k, Covered(program, o, left \cup {k}),
         props[o][k] = Missing \/ Secure(program, props[o][k])
  PROVE  Covered(program, o, left)
  BY DEF Covered, PresentKeys

(* The object a request is about, and what is left to the integrity function.   *)
LEMMA AboutFacts ==
  ASSUME Types, NEW t, RequestOK(t)
  PROVE  /\ t \in Requests /\ Base(t.origin) \in Ordinary /\ extensible[Base(t.origin)] \in BOOLEAN
         /\ t.op \in KeyOperations =>
              t.key \in Keys /\ props[Base(t.origin)][t.key] \in Stored \cup {Missing}
  <1>1. t \in Requests /\ t.origin \in Objects
    BY DEF RequestOK, Requests
  <1>2. Base(t.origin) \in Ordinary
    BY <1>1, BaseFacts
  <1> QED BY <1>1, <1>2 DEF RequestOK, Types

(* An assignment goes on to define a property on its receiver.                  *)
LEMMA AssignStep ==
  ASSUME NEW t, RequestOK(t), t.then = "assign", NEW a, AfterAssign(t, a)
  PROVE  \E g, b : Ended(t, a, g, b) \/ Continued(t, g)
  <1>1. t.op = "getOwn" /\ t.program = "none" /\ t \in Requests /\ t.receiver = t.origin
        /\ t.key \in Keys /\ t.value \in Values
    BY DEF RequestOK, Stage, KeyOperations, Requests
  <1>2. PICK b : b = Says(FALSE)
    OBVIOUS
  <1>3. CASE Concludes(t, Says(FALSE))
    <2>1. b.status = "ok" /\ b.yes = FALSE /\ Concludes(t, b)
      BY <1>2, <1>3, AnswerFacts
    <2>2. PICK g : Finish(g, b) /\ g.origin = t.origin /\ g.then = "script" /\ g.op = "set"
      BY <1>1, <2>1, ConcludesFacts
    <2>3. Ended(t, a, g, b)
      BY <2>1, <2>2 DEF Ended
    <2> QED BY <2>3
  <1>4. CASE \E desc \in Asked : Becomes(t, "define", t.key, desc, "script")
    <2>1. PICK desc \in Asked : Becomes(t, "define", t.key, desc, "script")
      BY <1>4
    <2>2. PICK op \in Operations, key \in Keys \cup {NoKey}, then \in Purposes :
            op = "define" /\ key = t.key /\ then = "script"
      BY <1>1 DEF Operations, Purposes
    <2>3. PICK g \in Requests : Becoming(t, op, key, desc, then, g)
      <3>1. t \in Requests /\ t.receiver = t.origin /\ Becomes(t, op, key, desc, then)
        BY <1>1, <2>1, <2>2
      <3> QED BY ONLY <2>1, <2>2, <3>1, BecomesFacts
    <2>4. RequestOK(g) /\ Here(g)
      BY <1>1, <2>1, <2>2, <2>3 DEF Becoming, RequestOK, Stage, Here
    <2>5. Progress(g)'
      BY <2>2, <2>3 DEF Becoming, Progress
    <2>6. Continued(t, g)
      BY <2>3, <2>4, <2>5 DEF Becoming, Continued
    <2> QED BY <2>6
  <1>5. \/ Concludes(t, Says(FALSE))
        \/ Becomes(t, "define", t.key, Plain(t.value), "script")
        \/ Becomes(t, "define", t.key, OnlyValue(t.value), "script")
    BY Zenon DEF AfterAssign
  <1>6. Plain(t.value) \in Asked /\ OnlyValue(t.value) \in Asked
    BY <1>1, AskedFacts
  <1> QED BY <1>3, <1>4, <1>5, <1>6, Zenon

(* The integrity functions go on to the list of keys.                           *)
LEMMA ListStep ==
  ASSUME NEW t, RequestOK(t), t.then \in {"close", "open"}, NEW a,
         Becomes(t, "ownKeys", NoKey, Empty, "list"), ~extensible'[Base(t.origin)]
  PROVE  \E g : Continued(t, g)
  <1>1. t.program # "none" /\ t \in Requests /\ t.receiver = t.origin
    BY DEF RequestOK, Stage
  <1>2. PICK op \in Operations, key \in Keys \cup {NoKey}, desc \in Asked, then \in Purposes :
          op = "ownKeys" /\ key = NoKey /\ desc = Empty /\ then = "list"
    BY AskedFacts DEF Operations, Purposes
  <1>3. PICK g \in Requests : Becoming(t, op, key, desc, then, g)
    <2>1. t \in Requests /\ t.receiver = t.origin /\ Becomes(t, op, key, desc, then)
      BY <1>1, <1>2
    <2> QED BY ONLY <1>2, <2>1, BecomesFacts
  <1>4. RequestOK(g) /\ Here(g)
    BY <1>1, <1>2, <1>3 DEF Becoming, RequestOK, Stage, Here, KeyOperations
  <1>5. Progress(g)'
    BY <1>2, <1>3 DEF Becoming, Progress
  <1> QED BY <1>3, <1>4, <1>5 DEF Becoming, Continued

(* The list of keys holds all that are to be locked.                            *)
LEMMA ListedStep ==
  ASSUME Types, Evolves, NEW t, RequestOK(t), Progress(t), t.then = "list", NEW a,
         Truthful(t, a), NextKey([t EXCEPT !.rest = a.keys])
  PROVE  \E g, b : Ended(t, a, g, b) \/ Continued(t, g)
  <1>1. t.op = "ownKeys" /\ t.program # "none" /\ t \in Requests /\ t.receiver = t.origin
    BY DEF RequestOK, Stage
  <1>2. PICK o \in Ordinary : o = Base(t.origin) /\ ~extensible[o]
    BY AboutFacts DEF Progress
  <1>3. a.keys = PresentKeys(o)
    BY <1>1, <1>2 DEF Truthful
  <1>4. a.keys \in SUBSET Keys
    BY <1>3 DEF PresentKeys
  <1>5. PICK f \in Requests : /\ f = [t EXCEPT !.rest = a.keys] /\ f.rest = a.keys /\ f.program = t.program
                              /\ f.origin = t.origin /\ f.receiver = t.receiver
    BY <1>1, <1>4 DEF Requests
  <1>6. Covered(f.program, o, a.keys)
    BY <1>2, <1>3 DEF Covered
  <1>7. PICK left : left = a.keys
    OBVIOUS
  <1>8. Covered(f.program, o, left)'
    BY <1>6, <1>7, CoveredStays
  <1>9. Covered(f.program, Base(f.origin), f.rest)'
    BY <1>2, <1>5, <1>7, <1>8
  <1>10. f.program \in Integrity /\ NextKey(f) /\ f.receiver = f.origin
    BY <1>1, <1>5 DEF Requests, Integrity
  <1> QED BY <1>1, <1>5, <1>9, <1>10, NextKeyShape

(* It goes on to lock the key it has looked at.                                 *)
LEMMA LockStep ==
  ASSUME Types, Evolves, NEW t, RequestOK(t), Progress(t), t.then = "view", NEW desc \in {Locking, Freezing},
         Becomes(t, "define", t.key, desc, "lock")
  PROVE  \E g : Continued(t, g)
  <1>1. /\ t.op = "getOwn" /\ t.program = "freeze" /\ t \in Requests /\ t.receiver = t.origin /\ t.key \in Keys
    BY DEF RequestOK, Stage, KeyOperations
  <1>2. desc \in Asked /\ desc.configurable = FALSE
    BY AskedFacts
  <1>3. PICK op \in Operations, key \in Keys \cup {NoKey}, then \in Purposes :
          op = "define" /\ key = t.key /\ then = "lock"
    BY <1>1 DEF Operations, Purposes
  <1>4. PICK g \in Requests : Becoming(t, op, key, desc, then, g)
    <2>1. t \in Requests /\ t.receiver = t.origin /\ Becomes(t, op, key, desc, then)
      BY <1>1, <1>3
    <2> QED BY ONLY <1>2, <1>3, <2>1, BecomesFacts
  <1>5. RequestOK(g) /\ Here(g)
    BY <1>1, <1>2, <1>3, <1>4 DEF Becoming, RequestOK, Stage, Here
  <1>6. Progress(g)'
    <2>1. Progress(t)'
      BY ProgressStays
    <2> QED BY <1>1, <1>3, <1>4, <2>1 DEF Becoming, Progress
  <1> QED BY <1>4, <1>5, <1>6 DEF Becoming, Continued

(* A key is done.                                                               *)
LEMMA KeyDone ==
  ASSUME NEW t, RequestOK(t), t.then \in {"view", "lock", "inspect"}, NEW a,
         Covered(t.program, Base(t.origin), t.rest)', NextKey(t)
  PROVE  \E g, b : Ended(t, a, g, b) \/ Continued(t, g)
  <1>1. t \in Requests /\ t.receiver = t.origin /\ t.program \in Integrity
    BY DEF RequestOK, Stage, Integrity
  <1> QED BY <1>1, NextKeyShape

(* Freezing looks at a key before it locks it,                                  *)
LEMMA ViewedStep ==
  ASSUME Types, Evolves, NEW t, RequestOK(t), Progress(t), t.then = "view", NEW a,
         Truthful(t, a), AfterView(t, a)
  PROVE  \E g, b : Ended(t, a, g, b) \/ Continued(t, g)
  <1>1. t.op = "getOwn"
    BY DEF RequestOK, Stage
  <1>2. PICK o, left, program :
          /\ o \in Ordinary /\ o = Base(t.origin) /\ left = t.rest /\ program = t.program
          /\ Covered(program, o, left \cup {t.key})
    BY AboutFacts DEF Progress
  <1>3. CASE a.desc = Missing
    <2>1. props[o][t.key] = Missing
      BY <1>1, <1>2, <1>3 DEF Truthful, Describing, Covered
    <2>2. Covered(program, o, left)
      BY <1>2, <2>1, CoveredNext
    <2>3. Covered(program, o, left)'
      BY <1>2, <2>2, CoveredStays
    <2>4. NextKey(t)
      BY <1>3 DEF AfterView
    <2>5. Covered(t.program, Base(t.origin), t.rest)'
      BY <1>2, <2>3
    <2> QED BY <2>4, <2>5, KeyDone
  <1>4. CASE a.desc # Missing
    <2>1. PICK desc \in {Locking, Freezing} : Becomes(t, "define", t.key, desc, "lock")
      BY <1>4 DEF AfterView
    <2> QED BY <2>1, LockStep
  <1> QED BY <1>3, <1>4

(* and goes on when it is locked.                                               *)
LEMMA LockedStep ==
  ASSUME Types, Evolves, NEW t, RequestOK(t), Progress(t), t.then = "lock", NEW a, a.yes,
         Effective(t, a)', NextKey(t)
  PROVE  \E g, b : Ended(t, a, g, b) \/ Continued(t, g)
  <1>1. t.op = "define" /\ t.desc.configurable = FALSE /\ t.program \in {"seal", "freeze"}
    BY DEF RequestOK, Stage
  <1>2. PICK o : o = Base(t.origin)
    OBVIOUS
  <1>3. Covered(t.program, o, t.rest \cup {t.key})'
    <2>1. Progress(t)'
      BY ProgressStays
    <2> QED BY <1>2, <2>1 DEF Progress
  <1>4. props'[o][t.key] # Missing => IsLocked(props'[o][t.key])
    BY <1>1, <1>2 DEF Effective
  <1>5. Covered(t.program, o, t.rest)'
    BY <1>1, <1>3, <1>4 DEF Covered, Secure, PresentKeys
  <1> QED BY <1>2, <1>5, KeyDone

(* The tests of integrity go on past a key that is locked.                      *)
LEMMA InspectedStep ==
  ASSUME Types, Evolves, NEW t, RequestOK(t), Progress(t), t.then = "inspect", NEW a,
         Truthful(t, a), AfterInspect(t, a)
  PROVE  \E g, b : Ended(t, a, g, b) \/ Continued(t, g)
  <1>1. t.op = "getOwn" /\ t \in Requests /\ t.program # "none"
    BY DEF RequestOK, Stage
  <1>2. PICK o, left, program :
          /\ o \in Ordinary /\ o = Base(t.origin) /\ left = t.rest /\ program = t.program
          /\ Covered(program, o, left \cup {t.key})
    BY AboutFacts DEF Progress
  <1>3. PICK p \in Stored \cup {Missing} : p = props[o][t.key]
    BY <1>1, <1>2, AboutFacts DEF KeyOperations
  <1>4. Describing(extensible[o], p, a.desc) /\ ~extensible[o]
    BY <1>1, <1>2, <1>3 DEF Truthful, Covered
  <1>5. CASE a.desc # Missing /\ (On(a.desc.configurable) \/
              (program = "isFrozen" /\ IsDataDescriptor(a.desc) /\ On(a.desc.writable)))
    <2>1. PICK b : b = Says(FALSE)
      OBVIOUS
    <2>2. b.status = "ok" /\ b.yes = FALSE /\ Concludes(t, b)
      BY <1>2, <1>5, <2>1, AnswerFacts DEF AfterInspect
    <2> QED BY <1>1, <2>2, GivesUp
  <1>6. CASE ~(a.desc # Missing /\ (On(a.desc.configurable) \/
               (program = "isFrozen" /\ IsDataDescriptor(a.desc) /\ On(a.desc.writable))))
    <2>1. NextKey(t)
      BY <1>2, <1>6, Zenon DEF AfterInspect
    <2>2. p = Missing \/ Secure(program, p)
      <3>1. CASE a.desc = Missing
        BY <1>4, <3>1 DEF Describing
      <3>2. CASE a.desc # Missing
        <4>1. PICK d \in Stored : d = a.desc
          BY <1>4, <3>2 DEF Describing
        <4>2. ~On(d.configurable) /\ ~(program = "isFrozen" /\ IsDataDescriptor(d) /\ On(d.writable))
          BY <1>6, <3>2, <4>1, Zenon
        <4>3. p # Missing /\ Agree(p, Completed(d))
          BY <1>4, <3>2, <4>1, <4>2, Zenon DEF Describing
        <4> QED BY <4>2, <4>3, InspectedSecure
      <3> QED BY <3>1, <3>2
    <2>3. Covered(program, o, left)
      BY <1>2, <1>3, <2>2, CoveredNext
    <2>4. Covered(program, o, left)'
      BY <1>2, <2>3, CoveredStays
    <2>5. Covered(t.program, Base(t.origin), t.rest)'
      BY <1>2, <2>4
    <2> QED BY <2>1, <2>5, KeyDone
  <1> QED BY <1>5, <1>6

(* A reply ends its request or continues it as one that is well formed.         *)
LEMMA RepliesStep ==
  ASSUME Types, Evolves, NEW t, RequestOK(t), Progress(t), NEW a, Replies(t, a)
  PROVE  \E g, b : Ended(t, a, g, b) \/ Continued(t, g)
  <1>1. CASE a.status # "ok"
    <2>1. Finish(t, a)
      BY <1>1 DEF Replies, Deliver
    <2>2. Ended(t, a, t, a)
      BY <1>1, <2>1 DEF Ended
    <2> QED BY <2>2
  <1>2. CASE a.status = "ok"
    <2>1. Truthful(t, a) /\ Effective(t, a)' /\ Deliver(t, a)
      BY <1>2 DEF Replies
    <2>2. t \in Requests /\ t.then \in Purposes
      BY DEF RequestOK, Requests, Purposes
    <2>3. CASE t.then = "script"
      <3>1. Finish(t, a)
        BY <1>2, <2>1, <2>3 DEF Deliver
      <3>2. Ended(t, a, t, a)
        BY <2>3, <3>1 DEF Ended
      <3> QED BY <3>2
    <2>4. CASE t.then = "assign"
      <3>1. AfterAssign(t, a)
        BY <1>2, <2>1, <2>4 DEF Deliver
      <3> QED BY <2>4, <3>1, AssignStep
    <2>5. CASE t.then = "close"
      <3>1. t.op = "preventExtensions" /\ t.program # "none"
        BY <2>5 DEF RequestOK, Stage
      <3>2. IF a.yes THEN Becomes(t, "ownKeys", NoKey, Empty, "list") ELSE Concludes(t, Says(FALSE))
        BY <1>2, <2>1, <2>5 DEF Deliver
      <3>3. CASE a.yes
        BY <2>1, <2>5, <3>1, <3>2, <3>3, ListStep DEF Effective
      <3>4. CASE ~a.yes
        <4>1. PICK b : b = Says(FALSE)
          OBVIOUS
        <4>2. b.status = "ok" /\ b.yes = FALSE /\ Concludes(t, b)
          BY <3>2, <3>4, <4>1, AnswerFacts
        <4> QED BY <2>2, <3>1, <4>2, GivesUp
      <3> QED BY <3>3, <3>4
    <2>6. CASE t.then = "open"
      <3>1. t.op = "isExtensible" /\ t.program # "none"
        BY <2>6 DEF RequestOK, Stage
      <3>2. IF a.yes THEN Concludes(t, Says(FALSE)) ELSE Becomes(t, "ownKeys", NoKey, Empty, "list")
        BY <1>2, <2>1, <2>6 DEF Deliver
      <3>3. CASE ~a.yes
        <4>1. ~extensible'[Base(t.origin)]
          BY <2>1, <3>1, <3>3, AboutFacts DEF Truthful, Evolves
        <4> QED BY <2>6, <3>2, <3>3, <4>1, ListStep
      <3>4. CASE a.yes
        <4>1. PICK b : b = Says(FALSE)
          OBVIOUS
        <4>2. b.status = "ok" /\ b.yes = FALSE /\ Concludes(t, b)
          BY <3>2, <3>4, <4>1, AnswerFacts
        <4> QED BY <2>2, <3>1, <4>2, GivesUp
      <3> QED BY <3>3, <3>4
    <2>7. CASE t.then = "list"
      <3>1. NextKey([t EXCEPT !.rest = a.keys])
        BY <1>2, <2>1, <2>7 DEF Deliver
      <3> QED BY <2>1, <2>7, <3>1, ListedStep
    <2>8. CASE t.then = "view"
      <3>1. AfterView(t, a)
        BY <1>2, <2>1, <2>8 DEF Deliver
      <3> QED BY <2>1, <2>8, <3>1, ViewedStep
    <2>9. CASE t.then = "lock"
      <3>1. IF a.yes THEN NextKey(t) ELSE Concludes(t, TypeError)
        BY <1>2, <2>1, <2>9 DEF Deliver
      <3>2. CASE a.yes
        BY <2>1, <2>9, <3>1, <3>2, LockedStep
      <3>3. CASE ~a.yes
        <4>1. PICK b : b = TypeError
          OBVIOUS
        <4>2. b.status = "TypeError" /\ Concludes(t, b)
          BY <3>1, <3>3, <4>1, AnswerFacts
        <4>3. t.program # "none"
          BY <2>9 DEF RequestOK, Stage
        <4> QED BY <2>2, <4>2, <4>3, GivesUp
      <3> QED BY <3>2, <3>3
    <2>10. CASE t.then = "inspect"
      <3>1. AfterInspect(t, a)
        BY <1>2, <2>1, <2>10 DEF Deliver
      <3> QED BY <2>1, <2>10, <3>1, InspectedStep
    <2> QED BY <2>2, <2>3, <2>4, <2>5, <2>6, <2>7, <2>8, <2>9, <2>10 DEF Purposes
  <1> QED BY <1>1, <1>2

-----------------------------------------------------------------------------
(* The invariant. *)

Resumed(t, g) ==
  /\ Advance(g) /\ UNCHANGED <<answered, seen>>
  /\ RequestOK(g) /\ Progress(g)'
  /\ Here(t) /\ ~Here(g) => t.key \in Keys /\ props[Base(t.origin)][t.key] = Missing

(* So does a move,                                                              *)
LEMMA MovesStep ==
  ASSUME Types, Evolves, NEW t, RequestOK(t), Progress(t), Moves(t)
  PROVE  \E g : Resumed(t, g)
  <1>1. PICK x \in Objects, b \in BOOLEAN :
          /\ Advance([t EXCEPT !.on = x, !.trap = b]) /\ UNCHANGED <<answered, seen>>
          /\ b => x \in Proxies
          /\ Base(x) # Base(t.on) => t.op \in Climbing /\ (Here(t) => props[Base(t.origin)][t.key] = Missing)
    BY DEF Moves
  <1>2. PICK g : g = [t EXCEPT !.on = x, !.trap = b]
    OBVIOUS
  <1>3. t \in Requests
    BY DEF RequestOK
  <1>4. /\ g \in Requests /\ g.on = x /\ g.trap = b
        /\ g.op = t.op /\ g.origin = t.origin /\ g.key = t.key /\ g.desc = t.desc /\ g.receiver = t.receiver
        /\ g.then = t.then /\ g.program = t.program /\ g.rest = t.rest
    BY <1>2, <1>3 DEF Requests
  <1>5. RequestOK(g)
    BY <1>1, <1>4 DEF RequestOK, Stage, Here
  <1>6. Progress(g)'
    <2>1. Progress(t)'
      BY ProgressStays
    <2> QED BY <1>4, <2>1 DEF Progress
  <1>7. ASSUME Here(t), ~Here(g)
        PROVE  t.key \in Keys /\ props[Base(t.origin)][t.key] = Missing
    <2>1. Base(x) # Base(t.on)
      BY <1>4, <1>7 DEF Here
    <2> QED BY <1>1, <1>7, <2>1 DEF RequestOK, Climbing, KeyOperations
  <1> QED BY <1>1, <1>2, <1>5, <1>6, <1>7 DEF Resumed

(* and an assignment.                                                           *)
LEMMA AssignsStep ==
  ASSUME NEW t, RequestOK(t), Assigns(t)
  PROVE  \E g : Resumed(t, g)
  <1>1. t.op = "set" /\ t \in Requests /\ t.receiver = t.origin /\ t.key \in Keys /\ t.program = "none"
    BY DEF Assigns, RequestOK, Stage, KeyOperations, Requests
  <1>2. PICK op \in Operations, key \in Keys \cup {NoKey}, desc \in Asked, then \in Purposes :
          op = "getOwn" /\ key = t.key /\ desc = Empty /\ then = "assign"
    BY <1>1, AskedFacts DEF Operations, Purposes
  <1>3. PICK g \in Requests : Becoming(t, op, key, desc, then, g)
    <2>1. t \in Requests /\ t.receiver = t.origin /\ Becomes(t, op, key, desc, then)
      BY <1>1, <1>2 DEF Assigns
    <2> QED BY ONLY <1>2, <2>1, BecomesFacts
  <1>4. RequestOK(g) /\ Here(g)
    BY <1>1, <1>2, <1>3 DEF Becoming, RequestOK, Stage, Here
  <1>5. Progress(g)'
    BY <1>2, <1>3 DEF Becoming, Progress
  <1> QED BY <1>3, <1>4, <1>5 DEF Becoming, Resumed

(* Every step of a request ends it or goes on with it.                          *)
LEMMA StepOutcome ==
  ASSUME IInv, NEW t, t = Top, OrdinaryStep \/ ProxyStep
  PROVE  /\ Types /\ RequestOK(t) /\ Progress(t)
         /\ requests # <<>> /\ Evolves /\ UNCHANGED revoked
         /\ \/ \E a, g, b : Replies(t, a) /\ Ended(t, a, g, b)
            \/ \E g : Resumed(t, g)
  <1>1. requests # <<>>
    BY DEF OrdinaryStep, ProxyStep, OwnGetOwn, OwnDefine, OwnDelete, OwnHas, OwnGet, OwnSet,
           OwnPreventExtensions, OwnIsExtensible, OwnOwnKeys, OwnGetPrototypeOf, OwnSetPrototypeOf,
           OnOrdinary, InProgress, CallTrap, OnProxy, TrapAbsent, TrapThrows, TrapGetOwn, TrapGet,
           TrapOwnKeys, TrapIsExtensible, TrapGetPrototypeOf, TrapHas, TrapDefine, TrapSet, TrapDelete,
           TrapPreventExtensions, TrapSetPrototypeOf, Refusal, Waiting
  <1>2. requests \in Seq(Requests) /\ Types
    BY DEF IInv, Types
  <1>3. 1 \in 1 .. Len(requests) /\ t = requests[1]
    BY <1>1, <1>2 DEF Top
  <1>4. RequestOK(t) /\ Progress(t)
    BY <1>3 DEF IInv
  <1>5. Evolves /\ UNCHANGED revoked /\ Shape(t)
    BY <1>2, <1>4, StepShape
  <1>6. CASE \E a : Replies(t, a)
    <2>1. PICK a : Replies(t, a)
      BY <1>6
    <2>2. PICK g, b : Ended(t, a, g, b) \/ Continued(t, g)
      BY <1>2, <1>4, <1>5, <2>1, RepliesStep
    <2>3. Continued(t, g) => Resumed(t, g)
      BY DEF Continued, Resumed
    <2> QED BY <1>1, <1>2, <1>4, <1>5, <2>1, <2>2, <2>3
  <1>7. CASE Moves(t)
    BY <1>1, <1>2, <1>4, <1>5, <1>7, MovesStep
  <1>8. CASE Assigns(t)
    BY <1>1, <1>2, <1>4, <1>5, <1>8, AssignsStep
  <1> QED BY <1>5, <1>6, <1>7, <1>8 DEF Shape

(* What an answer tells a script is true of the object it is about.             *)
LEMMA FactsTrue ==
  ASSUME Types, FactsHold, Evolves, NEW t, RequestOK(t), NEW a, Replies(t, a),
         NEW g, NEW b, Ended(t, a, g, b), NEW s \in Facts(g, b)
  PROVE  Fact(s) /\ Holds(s)'
  <1>1. b.status = "ok" /\ g.then = "script"
    BY DEF Facts
  <1>2. g.op \in {"getOwn", "isExtensible", "preventExtensions"}
    BY <1>1 DEF Facts
  <1>3. g = t /\ b = a /\ a.status = "ok"
    BY <1>1, <1>2 DEF Ended, Integrity
  <1>4. Truthful(t, a) /\ Effective(t, a)'
    BY <1>3 DEF Replies
  <1>5. PICK o \in Ordinary : o = Base(t.origin)
    BY AboutFacts
  <1>6. Empty \in Descriptors
    BY EmptyFacts
  <1>7. CASE t.op = "getOwn"
    <2>1. t.key \in Keys
      BY <1>7, AboutFacts DEF KeyOperations
    <2>2. PICK p : p = props[o][t.key] /\ Describing(extensible[o], p, a.desc)
      BY <1>4, <1>5, <1>7 DEF Truthful
    <2>3. CASE a.desc # Missing
      <3>1. PICK d : d = Completed(a.desc)
        OBVIOUS
      <3>2. ~d.configurable /\ s = [about |-> o, key |-> t.key, fact |-> "fixed", desc |-> d]
        BY <1>1, <1>3, <1>5, <1>7, <2>3, <3>1 DEF Facts
      <3>3. a.desc \in Asked
        BY <2>2, <2>3 DEF Describing, Stored, Asked, IsAccessorDescriptor, IsDataDescriptor
      <3>4. /\ d \in Stored /\ d.configurable = On(a.desc.configurable)
            /\ IsDataDescriptor(d) => d.writable \in BOOLEAN
        <4>1. d \in Stored /\ d.configurable = On(a.desc.configurable)
              /\ (~IsAccessorDescriptor(a.desc) => d.writable = On(a.desc.writable))
              /\ (IsAccessorDescriptor(d) <=> IsAccessorDescriptor(a.desc))
          BY <3>1, <3>3, CompletedFacts
        <4>2. IsDataDescriptor(d) => ~IsAccessorDescriptor(d)
          BY <4>1 DEF Stored, IsDataDescriptor, IsAccessorDescriptor
        <4>3. On(a.desc.writable) \in BOOLEAN
          BY DEF On
        <4> QED BY <4>1, <4>2, <4>3
      <3>5. ~On(a.desc.configurable)
        BY <3>2, <3>4
      <3>6. p # Missing /\ Agree(p, d)
        BY <2>2, <2>3, <3>1, <3>5, Zenon DEF Describing
      <3>7. Fact(s)
        BY <2>1, <3>2, <3>4 DEF Fact, AllFacts, Stored
      <3>8. Holds(s)
        <4>1. s.about = o /\ s.key = t.key /\ s.fact = "fixed" /\ s.desc = d
          BY <3>2
        <4> QED BY <2>2, <3>6, <4>1 DEF Holds
      <3> QED BY <3>7, <3>8, HoldsStays
    <2>4. CASE a.desc = Missing
      <3>1. PICK c : c = [about |-> o, key |-> NoKey, fact |-> "closed", desc |-> Empty]
        OBVIOUS
      <3>2. c \in seen /\ s = [about |-> o, key |-> t.key, fact |-> "gone", desc |-> Empty]
        BY <1>1, <1>3, <1>5, <1>7, <2>4, <3>1 DEF Facts
      <3>3. ~extensible[o]
        <4>1. c.fact = "closed" /\ c.about = o
          BY <3>1
        <4> QED BY <3>2, <4>1 DEF FactsHold
      <3>4. p = Missing
        BY <2>2, <2>4, <3>3 DEF Describing
      <3>5. s.about = o /\ s.key = t.key /\ s.fact = "gone"
        BY <3>2
      <3>6. Fact(s) /\ Holds(s)
        BY <1>6, <2>1, <2>2, <3>2, <3>3, <3>4, <3>5 DEF Fact, AllFacts, Holds
      <3> QED BY <3>6, HoldsStays
    <2> QED BY <2>3, <2>4
  <1>8. CASE t.op \in {"isExtensible", "preventExtensions"}
    <2>1. s = [about |-> o, key |-> NoKey, fact |-> "closed", desc |-> Empty]
          /\ (t.op = "isExtensible" => ~a.yes) /\ (t.op = "preventExtensions" => a.yes)
      BY <1>1, <1>3, <1>5, <1>8 DEF Facts
    <2>2. ~extensible'[o]
      <3>1. t.op = "isExtensible" => ~extensible[o]
        BY <1>4, <1>5, <2>1 DEF Truthful
      <3>2. t.op = "preventExtensions" => ~extensible'[o]
        BY <1>4, <1>5, <2>1 DEF Effective
      <3> QED BY <1>8, <3>1, <3>2 DEF Evolves
    <2>3. s.about = o /\ s.key = NoKey /\ s.fact = "closed" /\ s.desc = Empty
      BY <2>1
    <2> QED BY <1>6, <2>1, <2>2, <2>3 DEF Fact, AllFacts, Holds
  <1> QED BY <1>2, <1>3, <1>7, <1>8

(* Before the first answer nothing is claimed.                                  *)
LEMMA NoAnswerFacts ==
  /\ NoAnswer.request.op = "none" /\ NoAnswer.request.origin = Null /\ NoAnswer.answer.status = "ok"
  BY DEF NoAnswer, Request, Answer

(* The requests after a step: one that is well formed, and some of those before.*)
LEMMA RequestsStay ==
  ASSUME IInv, Evolves,
         \/ UNCHANGED requests
         \/ requests # <<>> /\ requests' = Tail(requests)
         \/ \E g : /\ RequestOK(g) /\ Progress(g)'
                   /\ \/ requests' = <<g>> \o requests
                      \/ requests # <<>> /\ Advance(g)
  PROVE  /\ requests' \in Seq(Requests)
         /\ \A i \in 1 .. Len(requests') : RequestOK(requests'[i]) /\ Progress(requests[i])'
  <1>1. requests \in Seq(Requests) /\ Types
    BY DEF IInv, Types
  <1>2. PICK s \in Seq(Requests) : s = requests
    BY <1>1
  <1>3. \A i \in 1 .. Len(s) : RequestOK(s[i]) /\ Progress(s[i])
    BY <1>2 DEF IInv
  <1>4. ASSUME NEW f, RequestOK(f), Progress(f)
        PROVE  Progress(f)'
    BY <1>1, <1>4, ProgressStays
  <1>5. ASSUME NEW r, r \in Seq(Requests), r = requests',
               \A i \in 1 .. Len(r) : \/ \E j \in 1 .. Len(s) : r[i] = s[j]
                                      \/ RequestOK(r[i]) /\ Progress(r[i])'
        PROVE  /\ requests' \in Seq(Requests)
               /\ \A i \in 1 .. Len(requests') : RequestOK(requests'[i]) /\ Progress(requests[i])'
    <2>1. ASSUME NEW i \in 1 .. Len(r)
          PROVE  RequestOK(r[i]) /\ Progress(r[i])'
      <3>1. CASE \E j \in 1 .. Len(s) : r[i] = s[j]
        <4>1. PICK j \in 1 .. Len(s) : r[i] = s[j]
          BY <3>1
        <4>2. PICK f : f = s[j]
          OBVIOUS
        <4>3. RequestOK(f) /\ Progress(f)
          BY <1>3, <4>2
        <4>4. Progress(f)'
          BY <1>4, <4>3
        <4> QED BY <4>1, <4>2, <4>3, <4>4
      <3> QED BY <1>5, <3>1
    <2> QED BY <1>5, <2>1
  <1>6. CASE UNCHANGED requests
    <2>1. s = requests' /\ \A i \in 1 .. Len(s) : \E j \in 1 .. Len(s) : s[i] = s[j]
      BY <1>2, <1>6
    <2> QED BY <1>5, <2>1
  <1>7. CASE requests # <<>> /\ requests' = Tail(requests)
    <2>1. PICK r : r = Tail(s)
      OBVIOUS
    <2>2. /\ r \in Seq(Requests) /\ r = requests'
          /\ \A i \in 1 .. Len(r) : i + 1 \in 1 .. Len(s) /\ r[i] = s[i + 1]
      BY <1>2, <1>7, <2>1
    <2> QED BY <1>5, <2>2
  <1>8. CASE \E g : /\ RequestOK(g) /\ Progress(g)'
                    /\ \/ requests' = <<g>> \o requests
                       \/ requests # <<>> /\ Advance(g)
    <2>1. PICK g : /\ RequestOK(g) /\ Progress(g)'
                   /\ \/ requests' = <<g>> \o requests
                      \/ requests # <<>> /\ Advance(g)
      BY <1>8
    <2>2. g \in Requests
      BY <2>1 DEF RequestOK
    <2>3. CASE requests' = <<g>> \o requests
      <3>1. PICK r : r = <<g>> \o s
        OBVIOUS
      <3>2. /\ r \in Seq(Requests) /\ r = requests' /\ r[1] = g
            /\ \A i \in 1 .. Len(r) : i # 1 => i - 1 \in 1 .. Len(s) /\ r[i] = s[i - 1]
        BY <1>2, <2>2, <2>3, <3>1
      <3>3. \A i \in 1 .. Len(r) : \/ \E j \in 1 .. Len(s) : r[i] = s[j]
                                   \/ RequestOK(r[i]) /\ Progress(r[i])'
        BY <2>1, <3>2
      <3> QED BY <1>5, <3>2, <3>3
    <2>4. CASE requests # <<>> /\ Advance(g)
      <3>1. PICK r : r = <<g>> \o Tail(s)
        OBVIOUS
      <3>2. /\ r \in Seq(Requests) /\ r = requests' /\ r[1] = g
            /\ \A i \in 1 .. Len(r) : i # 1 => i \in 1 .. Len(s) /\ r[i] = s[i]
        BY <1>2, <2>2, <2>4, <3>1 DEF Advance
      <3>3. \A i \in 1 .. Len(r) : \/ \E j \in 1 .. Len(s) : r[i] = s[j]
                                   \/ RequestOK(r[i]) /\ Progress(r[i])'
        BY <2>1, <3>2
      <3> QED BY <1>5, <3>2, <3>3
    <2> QED BY <2>1, <2>3, <2>4
  <1> QED BY <1>6, <1>7, <1>8

(* The facts after a step: those before it, and what its answer tells.          *)
LEMMA FactsStay ==
  ASSUME Types, FactsHold, Evolves, \A s \in seen' : s \in seen \/ (Fact(s) /\ Holds(s)')
  PROVE  FactsHold' /\ \A s \in seen' : Fact(s)
  <1>1. ASSUME NEW s \in seen
        PROVE  Fact(s) /\ Holds(s)
    <2>1. Fact(s)
      BY DEF Types
    <2>2. s.fact \in {"fixed", "gone", "closed"}
      BY <2>1 DEF Fact, AllFacts
    <2> QED BY <2>1, <2>2 DEF FactsHold, Holds
  <1>2. ASSUME NEW s \in seen'
        PROVE  Fact(s) /\ Holds(s)'
    <2>1. CASE s \in seen
      <3>1. PICK f : f = s
        OBVIOUS
      <3>2. Fact(f) /\ Holds(f)
        BY <1>1, <2>1, <3>1
      <3>3. Holds(f)'
        BY <3>2, HoldsStays
      <3> QED BY <3>1, <3>2, <3>3
    <2> QED BY <2>1, <1>2
  <1>3. ASSUME NEW s \in seen'
        PROVE  CASE s.fact = "closed" -> ~extensible'[s.about]
                 [] s.fact = "gone" -> ~extensible'[s.about] /\ props'[s.about][s.key] = Missing
                 [] s.fact = "fixed" -> props'[s.about][s.key] # Missing /\ Agree(props'[s.about][s.key], s.desc)
    <2>1. Fact(s) /\ Holds(s)'
      BY <1>2
    <2>2. s.fact \in {"fixed", "gone", "closed"}
      BY <2>1 DEF Fact, AllFacts
    <2> QED BY <2>1, <2>2 DEF Holds
  <1> QED BY <1>2, <1>3 DEF FactsHold

(* The last answer, once a step has left it or a script has asked again.        *)
LEMMA AnswerStays ==
  ASSUME IInv, Evolves, revoked \subseteq revoked', UNCHANGED answered \/ answered' = NoAnswer
  PROVE  /\ (answered.request.op \in Integrity => answered.request.origin \in Objects)'
         /\ IntegrityReal' /\ CrashesKnown'
  <1>1. CASE answered' = NoAnswer
    BY <1>1, NoAnswerFacts DEF Integrity, IntegrityReal, CrashesKnown
  <1>2. CASE UNCHANGED answered
    <2>1. PICK f, a : f = answered.request /\ a = answered.answer
      OBVIOUS
    <2>2. f = answered'.request /\ a = answered'.answer
      BY <1>2, <2>1
    <2>3. f.op \in Integrity => f.origin \in Objects
      BY <2>1 DEF IInv
    <2>4. CrashesKnown'
      BY <2>1, <2>2 DEF IInv, CrashesKnown
    <2>5. ASSUME f.op \in Integrity, a.status = "ok", a.yes
          PROVE  Covered(f.op, Base(f.origin), {})'
      <3>1. PICK o \in Ordinary : o = Base(f.origin)
        BY <2>3, <2>5, BaseFacts
      <3>2. Covered(f.op, o, {})
        BY <2>1, <2>5, <3>1 DEF IInv, IntegrityReal, Covered, Secure, Integrity
      <3>3. PICK op, left : op = f.op /\ left = {}
        OBVIOUS
      <3>4. Covered(op, o, left)'
        <4>1. Types
          BY DEF IInv
        <4> QED BY <3>2, <3>3, <4>1, CoveredStays
      <3> QED BY <3>1, <3>3, <3>4
    <2>6. IntegrityReal'
      BY <2>2, <2>5 DEF IntegrityReal, Covered, Secure, Integrity
    <2> QED BY <2>2, <2>3, <2>4, <2>6
  <1> QED BY <1>1, <1>2

(* The invariant holds at first, and after every step.                          *)
LEMMA InitInvariant == Init => IInv
  <1> SUFFICES ASSUME Init
               PROVE  IInv
    OBVIOUS
  <1>1. Types
    <2>1. props \in [Ordinary -> [Keys -> Stored \cup {Missing}]]
      BY DEF Init
    <2>2. proto \in [Ordinary -> Objects \cup {Null}] /\ extensible \in [Ordinary -> BOOLEAN]
      BY DEF Init
    <2>3. requests \in Seq(Requests) /\ revoked \subseteq Proxies /\ \A s \in seen : Fact(s)
      BY DEF Init
    <2> QED BY <2>1, <2>2, <2>3 DEF Types
  <1>2. \A i \in 1 .. Len(requests) : RequestOK(requests[i]) /\ Progress(requests[i])
    BY DEF Init
  <1>3. FactsHold
    BY DEF Init, FactsHold
  <1>4. answered = NoAnswer
    BY DEF Init
  <1>5. (answered.request.op \in Integrity => answered.request.origin \in Objects) /\ IntegrityReal /\ CrashesKnown
    BY <1>4, NoAnswerFacts DEF Integrity, IntegrityReal, CrashesKnown
  <1> QED BY <1>1, <1>2, <1>3, <1>5 DEF IInv

(* A step of a request keeps the invariant,                                     *)
LEMMA RequestStep ==
  ASSUME IInv, OrdinaryStep \/ ProxyStep
  PROVE  IInv'
  <1>1. PICK t : t = Top
    OBVIOUS
  <1>2. /\ Types /\ RequestOK(t) /\ Progress(t)
        /\ requests # <<>> /\ Evolves /\ UNCHANGED revoked
        /\ \/ \E a, g, b : Replies(t, a) /\ Ended(t, a, g, b)
           \/ \E g : Resumed(t, g)
    BY <1>1, StepOutcome
  <1>3. props' \in [Ordinary -> [Keys -> Stored \cup {Missing}]] /\ extensible' \in [Ordinary -> BOOLEAN]
        /\ proto' \in [Ordinary -> Objects \cup {Null}] /\ revoked' \subseteq Proxies
    BY <1>2 DEF Evolves, Types
  <1>4. FactsHold /\ IntegrityReal /\ CrashesKnown
    BY DEF IInv
  <1>5. CASE \E a, g, b : Replies(t, a) /\ Ended(t, a, g, b)
    <2>1. PICK a, g, b : Replies(t, a) /\ Ended(t, a, g, b)
      BY <1>5
    <2>2. /\ requests' = Tail(requests) /\ answered' = [request |-> g, answer |-> b]
          /\ seen' = seen \cup Facts(g, b)
      BY <2>1 DEF Ended, Finish
    <2>3. requests' \in Seq(Requests) /\ \A i \in 1 .. Len(requests') : RequestOK(requests'[i]) /\ Progress(requests[i])'
      BY <1>2, <2>2, RequestsStay
    <2>4. FactsHold' /\ \A s \in seen' : Fact(s)
      <3>1. \A s \in Facts(g, b) : Fact(s) /\ Holds(s)'
        BY <1>2, <1>4, <2>1, FactsTrue
      <3> QED BY <1>2, <1>4, <2>2, <3>1, FactsStay
    <2>5. answered'.request = g /\ answered'.answer = b
      BY <2>2
    <2>6. t.origin \in Objects /\ t.op \notin Integrity /\ g.origin = t.origin
      BY <1>2, <2>1 DEF RequestOK, Requests, Operations, Integrity, Ended
    <2>7. CrashesKnown'
      <3>1. b.status = "crash" => g.op # "get" /\ (g.on \in revoked \/ g.op = "getPrototypeOf")
        BY <2>1 DEF Ended, Replies
      <3> QED BY <1>2, <2>5, <3>1 DEF CrashesKnown
    <2>8. IntegrityReal'
      <3>1. g.op \in Integrity /\ b.status = "ok" /\ b.yes => Covered(g.op, Base(g.origin), {})'
        BY <2>1, <2>6 DEF Ended, Integrity
      <3> QED BY <2>5, <3>1 DEF IntegrityReal, Covered, Secure, Integrity
    <2>9. (answered.request.op \in Integrity => answered.request.origin \in Objects)'
      BY <2>5, <2>6
    <2> QED BY <1>3, <2>3, <2>4, <2>7, <2>8, <2>9 DEF IInv, Types
  <1>6. CASE \E g : Resumed(t, g)
    <2>1. PICK g : Resumed(t, g)
      BY <1>6
    <2>2. Advance(g) /\ UNCHANGED <<answered, seen>> /\ RequestOK(g) /\ Progress(g)'
      BY <2>1 DEF Resumed
    <2>3. requests' \in Seq(Requests) /\ \A i \in 1 .. Len(requests') : RequestOK(requests'[i]) /\ Progress(requests[i])'
      BY <1>2, <2>2, RequestsStay
    <2>4. FactsHold' /\ \A s \in seen' : Fact(s)
      BY <1>2, <1>4, <2>2, FactsStay
    <2>5. /\ (answered.request.op \in Integrity => answered.request.origin \in Objects)'
          /\ IntegrityReal' /\ CrashesKnown'
      BY <1>2, <2>2, AnswerStays
    <2> QED BY <1>3, <2>3, <2>4, <2>5 DEF IInv, Types
  <1> QED BY <1>2, <1>5, <1>6

(* A script makes a request, or revokes a proxy.                                *)
LEMMA MakeStep ==
  ASSUME IInv, NEW g, Make(g), RequestOK(g), g.then \in {"script", "close", "open"}
  PROVE  IInv'
  <1>1. requests' = <<g>> \o requests /\ answered' = NoAnswer /\ UNCHANGED <<objects, revoked, seen>>
    BY DEF Make
  <1>2. Types /\ FactsHold
    BY DEF IInv
  <1>3. Evolves
    BY <1>1, <1>2, UntouchedEvolves
  <1>4. Progress(g)'
    BY DEF Progress
  <1>5. requests' \in Seq(Requests) /\ \A i \in 1 .. Len(requests') : RequestOK(requests'[i]) /\ Progress(requests[i])'
    BY <1>1, <1>3, <1>4, RequestsStay
  <1>6. FactsHold' /\ \A s \in seen' : Fact(s)
    BY <1>1, <1>2, <1>3, FactsStay
  <1>7. /\ (answered.request.op \in Integrity => answered.request.origin \in Objects)'
        /\ IntegrityReal' /\ CrashesKnown'
    BY <1>1, <1>3, AnswerStays
  <1> QED BY <1>1, <1>2, <1>3, <1>5, <1>6, <1>7 DEF IInv, Types, Evolves

Fresh(f, op, x, k) ==
  /\ f \in Requests /\ f.op = op /\ f.origin = x /\ f.on = x /\ f.key = k /\ f.desc = Empty
  /\ f.receiver = x /\ f.then = "script" /\ f.program = "none" /\ f.rest = {} /\ f.trap = FALSE

(* A request of a script, as it is made.                                        *)
LEMMA NewRequest ==
  \A op \in Operations, x \in Objects, k \in Keys \cup {NoKey} : Fresh(Request(op, x, k), op, x, k)
  BY EmptyFacts, FlagFacts DEF Fresh, Request, Requests

(* Whatever a script asks for makes one well-formed request.                    *)
LEMMA ScriptRequest ==
  ASSUME ScriptStep, ~Revoke
  PROVE  \E g : Make(g) /\ RequestOK(g) /\ g.then \in {"script", "close", "open"}
  <1> USE DEF Operations, KeyOperations
  <1>1. CASE AskKey
    <2>1. PICK op \in {"getOwn", "has", "get", "delete"}, x \in Objects, k \in Keys : Make(Request(op, x, k))
      BY <1>1 DEF AskKey
    <2>2. PICK f : f = Request(op, x, k)
      OBVIOUS
    <2>3. Fresh(f, op, x, k)
      BY <2>1, <2>2, NewRequest
    <2>4. RequestOK(f) /\ f.then = "script"
      BY <2>1, <2>3, AskedFacts DEF Fresh, RequestOK, Stage, Here
    <2> QED BY <2>1, <2>2, <2>4
  <1>2. CASE AskObject
    <2>1. PICK op \in {"isExtensible", "preventExtensions", "ownKeys", "getPrototypeOf"}, x \in Objects :
            Make(Request(op, x, NoKey))
      BY <1>2 DEF AskObject
    <2>2. PICK f : f = Request(op, x, NoKey)
      OBVIOUS
    <2>3. Fresh(f, op, x, NoKey)
      BY <2>1, <2>2, NewRequest
    <2>4. RequestOK(f) /\ f.then = "script"
      BY <2>1, <2>3, AskedFacts DEF Fresh, RequestOK, Stage, Here
    <2> QED BY <2>1, <2>2, <2>4
  <1>3. CASE AskDefine
    <2>1. PICK x \in Objects, k \in Keys, d \in Definitions : Make([Request("define", x, k) EXCEPT !.desc = d])
      BY <1>3 DEF AskDefine
    <2>2. PICK f : f = Request("define", x, k) /\ Fresh(f, "define", x, k)
      BY <2>1, NewRequest
    <2>3. PICK g : g = [f EXCEPT !.desc = d]
      OBVIOUS
    <2>4. d \in Asked /\ d \in Descriptors
      BY AskedFacts DEF Asked
    <2>5. /\ f \in Requests /\ f.op = "define" /\ f.origin = x /\ f.on = x /\ f.key = k /\ f.receiver = x
          /\ f.then = "script" /\ f.program = "none" /\ f.trap = FALSE
      BY <2>2 DEF Fresh
    <2>6. /\ g \in Requests /\ g.op = "define" /\ g.origin = x /\ g.on = x /\ g.key = k /\ g.receiver = x
          /\ g.then = "script" /\ g.program = "none" /\ g.trap = FALSE /\ g.desc = d
      BY <2>3, <2>4, <2>5 DEF Requests
    <2>7. RequestOK(g)
      BY <2>4, <2>6 DEF RequestOK, Stage, Here
    <2> QED BY <2>1, <2>2, <2>3, <2>6, <2>7
  <1>4. CASE AskSet
    <2>1. PICK x \in Objects, k \in Keys, v \in Values : Make([Request("set", x, k) EXCEPT !.value = v])
      BY <1>4 DEF AskSet
    <2>2. PICK f : f = Request("set", x, k) /\ Fresh(f, "set", x, k)
      BY <2>1, NewRequest
    <2>3. PICK g : g = [f EXCEPT !.value = v]
      OBVIOUS
    <2>4. /\ f \in Requests /\ f.op = "set" /\ f.origin = x /\ f.on = x /\ f.key = k /\ f.receiver = x
          /\ f.then = "script" /\ f.program = "none" /\ f.trap = FALSE /\ f.desc = Empty
      BY <2>2 DEF Fresh
    <2>5. /\ g \in Requests /\ g.op = "set" /\ g.origin = x /\ g.on = x /\ g.key = k /\ g.receiver = x
          /\ g.then = "script" /\ g.program = "none" /\ g.trap = FALSE /\ g.desc = Empty
      BY <2>3, <2>4 DEF Requests
    <2>6. RequestOK(g)
      BY <2>5, AskedFacts DEF RequestOK, Stage, Here
    <2> QED BY <2>1, <2>2, <2>3, <2>5, <2>6
  <1>5. CASE AskSetPrototypeOf
    <2>1. PICK x \in Objects, y \in Objects \cup {Null} :
            Make([Request("setPrototypeOf", x, NoKey) EXCEPT !.proto = y])
      BY <1>5 DEF AskSetPrototypeOf
    <2>2. PICK f : f = Request("setPrototypeOf", x, NoKey) /\ Fresh(f, "setPrototypeOf", x, NoKey)
      BY <2>1, NewRequest
    <2>3. PICK g : g = [f EXCEPT !.proto = y]
      OBVIOUS
    <2>4. /\ f \in Requests /\ f.op = "setPrototypeOf" /\ f.origin = x /\ f.on = x /\ f.receiver = x
          /\ f.then = "script" /\ f.program = "none" /\ f.trap = FALSE /\ f.desc = Empty
      BY <2>2 DEF Fresh
    <2>5. /\ g \in Requests /\ g.op = "setPrototypeOf" /\ g.origin = x /\ g.on = x /\ g.receiver = x
          /\ g.then = "script" /\ g.program = "none" /\ g.trap = FALSE /\ g.desc = Empty
      BY <2>3, <2>4 DEF Requests
    <2>6. RequestOK(g)
      BY <2>5, AskedFacts DEF RequestOK, Stage, Here
    <2> QED BY <2>1, <2>2, <2>3, <2>5, <2>6
  <1>6. CASE AskIntegrity
    <2>1. PICK x \in Objects, op \in {"preventExtensions", "isExtensible"}, then \in {"close", "open"},
               program \in {"seal", "freeze", "isSealed", "isFrozen"} :
            /\ Make([Request(op, x, NoKey) EXCEPT !.then = then, !.program = program])
            /\ \/ then = "close" /\ op = "preventExtensions" /\ program \in {"seal", "freeze"}
               \/ then = "open" /\ op = "isExtensible" /\ program \in {"isSealed", "isFrozen"}
      BY <1>6 DEF AskIntegrity
    <2>2. PICK f : f = Request(op, x, NoKey) /\ Fresh(f, op, x, NoKey)
      BY <2>1, NewRequest
    <2>3. PICK g : g = [f EXCEPT !.then = then, !.program = program]
      OBVIOUS
    <2>4. /\ f \in Requests /\ f.op = op /\ f.origin = x /\ f.on = x /\ f.receiver = x
          /\ f.trap = FALSE /\ f.desc = Empty
      BY <2>2 DEF Fresh
    <2>5. /\ g \in Requests /\ g.op = op /\ g.origin = x /\ g.on = x /\ g.receiver = x
          /\ g.then = then /\ g.program = program /\ g.trap = FALSE /\ g.desc = Empty
      BY <2>3, <2>4 DEF Requests
    <2>6. RequestOK(g)
      BY <2>1, <2>5, AskedFacts DEF RequestOK, Stage, Here
    <2> QED BY <2>1, <2>2, <2>3, <2>5, <2>6
  <1> QED BY <1>1, <1>2, <1>3, <1>4, <1>5, <1>6 DEF ScriptStep

(* Every step keeps the invariant.                                              *)
LEMMA InvariantStep == IInv /\ [Next]_vars => IInv'
  <1> SUFFICES ASSUME IInv, [Next]_vars
               PROVE  IInv'
    OBVIOUS
  <1>1. CASE OrdinaryStep \/ ProxyStep
    BY <1>1, RequestStep
  <1>2. CASE ScriptStep /\ ~Revoke
    BY <1>2, ScriptRequest, MakeStep
  <1>3. CASE Revoke \/ UNCHANGED vars
    <2>1. UNCHANGED <<objects, requests, answered, seen>> /\ revoked \subseteq revoked'
      BY <1>3 DEF Revoke, vars, objects
    <2>2. revoked' \subseteq Proxies /\ Types /\ FactsHold
      BY <1>3 DEF IInv, Types, Revoke, vars
    <2>3. Evolves
      BY <2>1, <2>2, UntouchedEvolves
    <2>4. requests' \in Seq(Requests) /\ \A i \in 1 .. Len(requests') : RequestOK(requests'[i]) /\ Progress(requests[i])'
      BY <2>1, <2>3, RequestsStay
    <2>5. FactsHold' /\ \A s \in seen' : Fact(s)
      BY <2>1, <2>2, <2>3, FactsStay
    <2>6. /\ (answered.request.op \in Integrity => answered.request.origin \in Objects)'
          /\ IntegrityReal' /\ CrashesKnown'
      BY <2>1, <2>3, AnswerStays
    <2> QED BY <2>2, <2>3, <2>4, <2>5, <2>6 DEF IInv, Types, Evolves
  <1> QED BY <1>1, <1>2, <1>3 DEF Next

(* The invariant of the machine.                                                *)
LEMMA Invariant == Spec => []IInv
  BY InitInvariant, InvariantStep, PTL DEF Spec

\* Objects store properties that are either of data, with a value, or accessors,
\* requests stay well formed, and user code runs only for requests on proxies
\* (ObjectInstance.cs:711-905, ProxyInstance.cs:118-460).
THEOREM ProxyTypes == Spec => []TypeOK
  <1>1. ASSUME IInv
        PROVE  TypeOK
    <2>1. Types
      BY <1>1 DEF IInv
    <2>2. Stored \subseteq Descriptors
      BY DEF Stored
    <2>3. props \in [Ordinary -> [Keys -> Descriptors \cup {Missing}]]
      BY <2>1, <2>2 DEF Types
    <2>4. ASSUME NEW o \in Ordinary, NEW k \in Keys, props[o][k] # Missing
          PROVE  /\ IsAccessorDescriptor(props[o][k]) # IsDataDescriptor(props[o][k])
                 /\ IsDataDescriptor(props[o][k]) => props[o][k].value # Absent
      <3>1. PICK p : p = props[o][k]
        OBVIOUS
      <3>2. p \in Stored
        BY <2>1, <2>4, <3>1 DEF Types
      <3> QED BY <3>1, <3>2 DEF Stored
    <2>5. \A i \in DOMAIN requests : requests[i] \in Requests /\ (requests[i].trap => requests[i].on \in Proxies)
      <3>1. DOMAIN requests = 1 .. Len(requests)
        BY <2>1 DEF Types
      <3> QED BY <1>1, <3>1 DEF IInv, RequestOK
    <2>6. seen \subseteq AllFacts
      BY <2>1 DEF Types, Fact
    <2> QED BY <2>1, <2>3, <2>4, <2>5, <2>6 DEF TypeOK, Types
  <1> QED BY <1>1, Invariant, PTL

\* What a script has been told for good stays true, whatever traps answer and
\* whatever they do meanwhile: a property reported as not configurable keeps its
\* attributes, a closed object stays closed and gets no new property, and what
\* seal, isSealed and isFrozen claim is so (ProxyInstance.cs:188-243,
\* ObjectInstance.cs:711-905, 1444-1488).
THEOREM ObservationsStayTrue == Spec => []ObservationsHold
  <1>1. IInv => ObservationsHold
    BY DEF IInv, ObservationsHold
  <1> QED BY <1>1, Invariant, PTL

-----------------------------------------------------------------------------
(* Answers agree with what has been seen. *)

(* What has been seen is a fact that holds.                                     *)
LEMMA SeenHolds ==
  ASSUME IInv, NEW s \in seen
  PROVE  Fact(s) /\ Holds(s)
  <1>1. Fact(s)
    BY DEF IInv, Types
  <1>2. s.fact \in {"fixed", "gone", "closed"}
    BY <1>1 DEF Fact, AllFacts
  <1> QED BY <1>1, <1>2 DEF IInv, FactsHold, Holds

(* A property that was seen fixed is there, and the same.                       *)
LEMMA FixedFacts ==
  ASSUME IInv, NEW f, NEW d \in Fixed(f)
  PROVE  /\ f.key \in Keys /\ Base(f.origin) \in Ordinary /\ d \in Stored
         /\ props[Base(f.origin)][f.key] \in Stored
         /\ IsLocked(props[Base(f.origin)][f.key])
         /\ Agree(props[Base(f.origin)][f.key], d)
         /\ IsDataDescriptor(d) => d.writable \in BOOLEAN
  <1>1. PICK s \in seen : s.about = Base(f.origin) /\ s.key = f.key /\ s.fact = "fixed" /\ s.desc = d
    BY DEF Fixed
  <1>2. Fact(s) /\ Holds(s)
    BY SeenHolds
  <1>3. /\ f.key \in Keys /\ Base(f.origin) \in Ordinary /\ d \in Stored
        /\ IsDataDescriptor(d) => d.writable \in BOOLEAN
    BY <1>1, <1>2 DEF Fact, AllFacts
  <1>4. PICK p : p = props[Base(f.origin)][f.key]
    OBVIOUS
  <1>5. p # Missing /\ Agree(p, d)
    BY <1>1, <1>2, <1>4 DEF Holds
  <1>6. p \in Stored /\ IsLocked(p)
    BY <1>3, <1>4, <1>5 DEF IInv, Types, Agree, IsLocked
  <1> QED BY <1>3, <1>4, <1>5, <1>6

(* A truthful answer contradicts no property that was seen fixed,               *)
LEMMA NotContradicted ==
  ASSUME IInv, NEW t, RequestOK(t), NEW a, Truthful(t, a), NEW d \in Fixed(t)
  PROVE  ~Contradicts(t, a, d)
  <1>1. PICK o \in Ordinary, k \in Keys, p \in Stored :
          /\ o = Base(t.origin) /\ k = t.key /\ p = props[o][k]
          /\ IsLocked(p) /\ Agree(p, d) /\ d \in Stored
          /\ IsDataDescriptor(d) => d.writable \in BOOLEAN
    BY FixedFacts
  <1>2. /\ IsAccessorDescriptor(p) = IsAccessorDescriptor(d)
        /\ IsAccessorDescriptor(p) => OrElse(p.get, Undefined) = d.get
        /\ ~IsAccessorDescriptor(p) /\ ~On(d.writable) => ~On(p.writable) /\ Equal(p.value, d.value)
    BY <1>1, Zenon DEF Agree
  <1>3. ASSUME IsDataDescriptor(d), ~d.writable
        PROVE  IsConstant(p) /\ Equal(p.value, d.value)
    <2>1. ~IsAccessorDescriptor(d) /\ ~IsAccessorDescriptor(p) /\ IsDataDescriptor(p)
      BY <1>1, <1>2, <1>3 DEF Stored, IsAccessorDescriptor, IsDataDescriptor
    <2>2. ~On(d.writable)
      BY <1>1, <1>3 DEF On
    <2> QED BY <1>1, <1>2, <2>1, <2>2 DEF IsConstant
  <1>4. ASSUME d.get = Undefined
        PROVE  IsAccessorDescriptor(p) /\ OrElse(p.get, Undefined) = Undefined
    <2>1. IsAccessorDescriptor(d)
      BY <1>4, FlagFacts DEF IsAccessorDescriptor
    <2>2. IsAccessorDescriptor(p)
      BY <1>2, <2>1, Zenon
    <2> QED BY <1>2, <1>4, <2>2
  <1>5. ~(Here(t) /\ t.op = "has" /\ ~a.yes)
    BY <1>1 DEF Truthful
  <1>6. ASSUME Here(t), t.op = "get"
        PROVE  /\ IsDataDescriptor(d) /\ ~d.writable => Equal(a.value, d.value)
               /\ d.get = Undefined => a.value = Undefined
    <2>1. Reading(p, a.value)
      BY <1>1, <1>6 DEF Truthful
    <2> QED BY <1>1, <1>3, <1>4, <2>1 DEF Reading
  <1>7. ASSUME Here(t), t.op = "set", a.yes, IsDataDescriptor(d), ~d.writable
        PROVE  Equal(t.value, d.value)
    <2>1. Equal(p.value, t.value)
      BY <1>1, <1>3, <1>7 DEF Truthful
    <2> QED BY <1>3, <1>7, <2>1, EqualFacts
  <1>8. ~(t.op = "delete" /\ a.yes)
    BY <1>1 DEF Truthful
  <1>9. ASSUME t.op = "getOwn"
        PROVE  a.desc # Missing /\ Agree(a.desc, d)
    <2>1. Describing(extensible[o], p, a.desc)
      BY <1>1, <1>9 DEF Truthful
    <2>2. p # Missing
      BY <1>1, NotEmpty
    <2> QED BY <1>1, <2>1, <2>2, Zenon DEF Describing
  <1> QED BY <1>5, <1>6, <1>7, <1>8, <1>9, Zenon DEF Contradicts

(* nor anything else that was seen.                                             *)
LEMMA TruthfulConsistent ==
  ASSUME IInv, NEW t, RequestOK(t), NEW a, Truthful(t, a)
  PROVE  Consistent(t, a)
  <1>1. \A d \in Fixed(t) : ~Contradicts(t, a, d)
    BY NotContradicted
  <1>2. PICK o : o = Base(t.origin)
    OBVIOUS
  <1>3. ASSUME NEW s \in seen, s.fact = "closed", s.about = o, t.op = "isExtensible"
        PROVE  ~a.yes
    <2>1. ~extensible[o]
      BY <1>3, SeenHolds DEF Holds
    <2> QED BY <1>2, <1>3, <2>1 DEF Truthful
  <1>4. ASSUME t.op = "getOwn", Known(t, "gone")
        PROVE  a.desc = Missing
    <2>1. PICK s \in seen : s.about = o /\ s.key = t.key /\ s.fact = "gone"
      BY <1>2, <1>4 DEF Known
    <2>2. ~extensible[o] /\ props[o][t.key] = Missing
      BY <2>1, SeenHolds DEF Holds
    <2>3. Describing(extensible[o], props[o][t.key], a.desc)
      BY <1>2, <1>4 DEF Truthful
    <2> QED BY <2>2, <2>3 DEF Describing
  <1>5. ASSUME t.op = "ownKeys", NEW s \in seen, s.about = o
        PROVE  /\ s.fact = "fixed" => s.key \in a.keys
               /\ s.fact = "gone" => s.key \notin a.keys
    <2>1. Fact(s) /\ Holds(s)
      BY SeenHolds
    <2>2. /\ \A k \in PresentKeys(o) : IsLocked(props[o][k]) => k \in a.keys
          /\ ~extensible[o] => a.keys = PresentKeys(o)
      BY <1>2, <1>5 DEF Truthful
    <2>3. CASE s.fact = "fixed"
      <3>1. s.key \in PresentKeys(o) /\ IsLocked(props[o][s.key])
        BY <1>5, <2>1, <2>3 DEF Fact, Holds, PresentKeys, IsLocked, Agree
      <3> QED BY <2>2, <2>3, <3>1
    <2>4. CASE s.fact = "gone"
      <3>1. s.key \notin PresentKeys(o) /\ ~extensible[o]
        BY <1>5, <2>1, <2>4 DEF Holds, PresentKeys
      <3> QED BY <2>2, <2>4, <3>1
    <2> QED BY <2>3, <2>4
  <1> QED BY <1>1, <1>2, <1>3, <1>4, <1>5 DEF Consistent

(* The integrity functions claim nothing of one property.                       *)
LEMMA OthersConsistent ==
  ASSUME NEW f, NEW a, f.op \in Integrity \cup {"none"} \/ (f.op = "set" /\ a.yes = FALSE)
  PROVE  Consistent(f, a)
  BY DEF Consistent, Contradicts, Integrity

(* A request that has ended is not one that has gone on.                        *)
LEMMA ShorterTail ==
  ASSUME NEW s \in Seq(Requests), s # <<>>
  PROVE  Len(Tail(s)) # Len(s)
  <1> DEFINE m == Len(Tail(s))
             n == Len(s)
  <1>1. n \in Nat /\ m = n - 1
    OBVIOUS
  <1> HIDE DEF m, n
  <1>2. m # n
    BY <1>1
  <1> QED BY <1>2 DEF m, n

(* Every step answers in agreement with what was seen.                          *)
LEMMA AnswersStep ==
  IInv /\ [Next]_vars =>
    [/\ Answered => Consistent(answered'.request, answered'.answer)
     /\ Passes => Fixed(Top) = {}]_vars
  <1> SUFFICES ASSUME IInv, Next
               PROVE  /\ Answered => Consistent(answered'.request, answered'.answer)
                      /\ Passes => Fixed(Top) = {}
    OBVIOUS
  <1>1. PICK s \in Seq(Requests) : s = requests
    BY DEF IInv, Types
  <1>2. CASE OrdinaryStep \/ ProxyStep
    <2>1. PICK t : t = Top
      OBVIOUS
    <2>2. /\ Types /\ RequestOK(t) /\ requests # <<>>
          /\ \/ \E a, g, b : Replies(t, a) /\ Ended(t, a, g, b)
             \/ \E g : Resumed(t, g)
      BY <1>2, <2>1, StepOutcome
    <2>3. CASE \E a, g, b : Replies(t, a) /\ Ended(t, a, g, b)
      <3>1. PICK a, g, b : Replies(t, a) /\ Ended(t, a, g, b)
        BY <2>3
      <3>2. requests' = Tail(requests) /\ answered' = [request |-> g, answer |-> b]
        BY <3>1 DEF Ended, Finish
      <3>3. answered'.request = g /\ answered'.answer = b
        BY <3>2
      <3>4. ASSUME b.status = "ok"
            PROVE  Consistent(g, b)
        <4>1. CASE g = t /\ b = a
          <5>1. Truthful(t, a)
            BY <3>1, <3>4, <4>1 DEF Replies
          <5> QED BY <2>2, <4>1, <5>1, TruthfulConsistent
        <4>2. CASE ~(g = t /\ b = a)
          BY <3>1, <3>4, <4>2, OthersConsistent DEF Ended
        <4> QED BY <4>1, <4>2
      <3>5. Answered => Consistent(answered'.request, answered'.answer)
        BY <3>3, <3>4 DEF Answered
      <3>6. ~Passes
        <4>1. Len(Tail(s)) # Len(s)
          BY <1>1, <2>2, ShorterTail
        <4> QED BY <1>1, <3>2, <4>1, Zenon DEF Passes
      <3> QED BY <3>5, <3>6
    <2>4. CASE \E g : Resumed(t, g)
      <3>1. PICK g : Resumed(t, g)
        BY <2>4
      <3>2. ~Answered
        BY <3>1 DEF Resumed, Answered
      <3>3. Head(requests') = g
        BY <1>1, <3>1 DEF Resumed, Advance
      <3>4. ASSUME Passes
            PROVE  Fixed(Top) = {}
        <4>1. Here(t) /\ ~Here(g)
          BY <2>1, <3>3, <3>4 DEF Passes
        <4>2. props[Base(t.origin)][t.key] = Missing
          BY <3>1, <4>1 DEF Resumed
        <4>3. ASSUME NEW d \in Fixed(t)
              PROVE  FALSE
          BY <4>2, FixedFacts DEF IsLocked
        <4> QED BY <2>1, <4>3
      <3> QED BY <3>2, <3>4
    <2> QED BY <2>2, <2>3, <2>4
  <1>3. CASE ScriptStep /\ ~Revoke
    <2>1. PICK g : Make(g)
      BY <1>3, ScriptRequest
    <2>2. answered' = NoAnswer /\ requests' = <<g>> \o requests
      BY <2>1 DEF Make
    <2>3. Consistent(answered'.request, answered'.answer)
      <3>1. PICK f, a : f = NoAnswer.request /\ a = NoAnswer.answer
        OBVIOUS
      <3>2. Consistent(f, a)
        BY <3>1, NoAnswerFacts, OthersConsistent
      <3> QED BY <2>2, <3>1, <3>2
    <2>4. ~Passes
      <3>1. Len(<<g>> \o s) = Len(s) + 1 /\ Len(s) \in Nat
        BY <1>1
      <3>2. Len(requests') # Len(requests)
        BY <1>1, <2>2, <3>1
      <3> QED BY <3>2 DEF Passes
    <2> QED BY <2>3, <2>4
  <1>4. CASE Revoke
    <2>1. UNCHANGED answered /\ UNCHANGED requests
      BY <1>4 DEF Revoke
    <2> QED BY <2>1 DEF Answered, Passes, Top
  <1> QED BY <1>2, <1>3, <1>4 DEF Next

\* No answer that a script gets contradicts what it has been told for good, and no
\* lookup goes on past a property that was seen fixed (ProxyInstance.cs:118-460).
THEOREM AnswersStayConsistent == Spec => AnswersConsistent
  BY Invariant, AnswersStep, PTL DEF Spec, AnswersConsistent

-----------------------------------------------------------------------------
(* The code decides as ECMAScript does. *)

(* A stored property p and the same property as a script sees it, q.            *)
Shows(p, q) ==
  /\ q \in Stored /\ q # Missing
  /\ q.enumerable = On(p.enumerable) /\ q.configurable = On(p.configurable)
  /\ IsAccessorDescriptor(p) =>
       /\ q.get = OrElse(p.get, Undefined) /\ q.set = OrElse(p.set, Undefined)
       /\ q.get # Absent /\ q.set # Absent /\ q.value = Absent /\ q.writable = Absent
  /\ ~IsAccessorDescriptor(p) =>
       /\ p.value # Absent /\ q.value = p.value /\ q.writable = On(p.writable)
       /\ q.get = Absent /\ q.set = Absent

(* A stored property is of one kind and has the fields of that kind only.       *)
LEMMA StoredFacts ==
  ASSUME NEW p \in Stored
  PROVE  /\ p \in Asked /\ p \in Descriptors
         /\ IsDataDescriptor(p) <=> ~IsAccessorDescriptor(p)
         /\ IsAccessorDescriptor(p) => p.value = Absent /\ p.writable = Absent
         /\ ~IsAccessorDescriptor(p) => p.value # Absent /\ p.get = Absent /\ p.set = Absent
  BY DEF Stored, Asked, IsAccessorDescriptor, IsDataDescriptor

(* It is seen with its absent fields as off or undefined.                       *)
LEMMA VisibleShows ==
  ASSUME NEW p \in Stored
  PROVE  Visible(p) = Completed(p) /\ Shows(p, Visible(p))
  <1> DEFINE q == Visible(p)
  <1>1. q = Completed(p)
    BY NotEmpty DEF Visible
  <1>2. /\ p \in Asked
        /\ ~IsAccessorDescriptor(p) => p.value # Absent
    BY StoredFacts
  <1>3. /\ q \in Stored
        /\ q.enumerable = On(p.enumerable) /\ q.configurable = On(p.configurable)
        /\ IsAccessorDescriptor(p) =>
             /\ q.get = OrElse(p.get, Undefined) /\ q.set = OrElse(p.set, Undefined)
             /\ q.value = Absent /\ q.writable = Absent
        /\ ~IsAccessorDescriptor(p) =>
             /\ q.value = OrElse(p.value, Undefined) /\ q.writable = On(p.writable)
             /\ q.get = Absent /\ q.set = Absent
    BY <1>1, <1>2, CompletedFacts
  <1> HIDE DEF q
  <1>4. q # Missing
    BY <1>3, NotEmpty
  <1>5. /\ IsAccessorDescriptor(p) => q.get # Absent /\ q.set # Absent
        /\ ~IsAccessorDescriptor(p) => q.value = p.value
    BY <1>2, <1>3, OrElseFacts, FlagFacts
  <1>6. Shows(p, q)
    BY <1>2, <1>3, <1>4, <1>5, Zenon DEF Shows
  <1> QED BY <1>1, <1>6 DEF q

(* What is missing is seen as missing.                                          *)
LEMMA VisibleMissing == Visible(Missing) = Missing
  BY DEF Visible

(* When the code takes a definition for no change or does not refuse it.        *)
LEMMA Allowed ==
  ASSUME NEW desc \in Asked, NEW p \in Stored, NEW q, Shows(p, q),
         NothingNew(desc, p) => desc.value = p.value
  PROVE  NothingNew(desc, p) \/ On(p.configurable) \/ ~Refused(desc, p)
           <=> (q.configurable = FALSE =>
                  /\ desc.configurable # TRUE
                  /\ Ecma!Is(desc.enumerable, q.enumerable)
                  /\ Ecma!Accessor(desc) => Ecma!Accessor(q) /\ Ecma!Is(desc.get, q.get) /\ Ecma!Is(desc.set, q.set)
                  /\ Ecma!Data(desc) => Ecma!Data(q)
                  /\ Ecma!Data(desc) /\ q.writable = FALSE => desc.writable # TRUE /\ Ecma!Is(desc.value, q.value))
  <1> DEFINE E == /\ desc.configurable # TRUE
                  /\ Ecma!Is(desc.enumerable, q.enumerable)
                  /\ Ecma!Accessor(desc) => Ecma!Accessor(q) /\ Ecma!Is(desc.get, q.get) /\ Ecma!Is(desc.set, q.set)
                  /\ Ecma!Data(desc) => Ecma!Data(q)
                  /\ Ecma!Data(desc) /\ q.writable = FALSE => desc.writable # TRUE /\ Ecma!Is(desc.value, q.value)
  <1>1. /\ desc \in Descriptors /\ p \in Descriptors /\ q \in Stored
        /\ ~(IsAccessorDescriptor(desc) /\ IsDataDescriptor(desc))
        /\ IsDataDescriptor(p) <=> ~IsAccessorDescriptor(p)
    BY StoredFacts DEF Asked, Shows
  <1>2. /\ Ecma!Accessor(desc) <=> IsAccessorDescriptor(desc)
        /\ Ecma!Data(desc) <=> IsDataDescriptor(desc)
        /\ Ecma!Accessor(q) <=> IsAccessorDescriptor(p)
        /\ Ecma!Data(q) <=> IsDataDescriptor(p)
    BY <1>1 DEF Shows, Ecma!Accessor, Ecma!Data, IsAccessorDescriptor, IsDataDescriptor
  <1>3. \A x, y : Ecma!Is(x, y) <=> x = Absent \/ x = y
    BY DEF Ecma!Is
  <1>4. /\ desc.configurable \in Flags /\ desc.enumerable \in Flags /\ desc.writable \in Flags
        /\ q.configurable \in BOOLEAN /\ q.enumerable \in BOOLEAN
        /\ q.configurable = On(p.configurable) /\ q.enumerable = On(p.enumerable)
    BY <1>1 DEF Shows, Descriptors, On
  <1>5. ~Refused(desc, p) <=> E
    <2>1. On(desc.configurable) <=> desc.configurable = TRUE
      BY DEF On
    <2>2. (desc.enumerable # Absent /\ On(desc.enumerable) # On(p.enumerable))
            <=> ~Ecma!Is(desc.enumerable, q.enumerable)
      BY <1>3, <1>4, FlagFacts DEF Flags, On
    <2>3. OtherKind(desc, p) <=> (IsDataDescriptor(desc) /\ ~IsDataDescriptor(p))
                                   \/ (IsAccessorDescriptor(desc) /\ ~IsAccessorDescriptor(p))
      BY <1>1 DEF OtherKind, IsGenericDescriptor, IsDataDescriptor, IsAccessorDescriptor
    <2>4. ASSUME IsDataDescriptor(p), IsDataDescriptor(desc)
          PROVE  ~On(p.writable) /\ (On(desc.writable) \/ (desc.value # Absent /\ desc.value # p.value))
                   <=> q.writable = FALSE /\ ~(desc.writable # TRUE /\ Ecma!Is(desc.value, q.value))
      BY <1>1, <1>3, <2>4 DEF Shows, On
    <2>5. ASSUME IsAccessorDescriptor(p), IsAccessorDescriptor(desc)
          PROVE  (\E f \in {"get", "set"} : desc[f] # Absent /\ desc[f] # OrElse(p[f], Undefined))
                   <=> ~(Ecma!Is(desc.get, q.get) /\ Ecma!Is(desc.set, q.set))
      <3>1. q.get = OrElse(p.get, Undefined) /\ q.set = OrElse(p.set, Undefined)
        BY <2>5 DEF Shows
      <3>2. (\E f \in {"get", "set"} : desc[f] # Absent /\ desc[f] # OrElse(p[f], Undefined))
              <=> \/ desc.get # Absent /\ desc.get # OrElse(p.get, Undefined)
                  \/ desc.set # Absent /\ desc.set # OrElse(p.set, Undefined)
        OBVIOUS
      <3> QED BY <1>3, <3>1, <3>2
    <2> QED BY <1>1, <1>2, <2>1, <2>2, <2>3, <2>4, <2>5, Zenon DEF Refused
  <1>6. NothingNew(desc, p) /\ ~On(p.configurable) => E
    <2> SUFFICES ASSUME NothingNew(desc, p), ~On(p.configurable)
                 PROVE  E
      OBVIOUS
    <2>1. /\ desc.value = p.value /\ desc.get = p.get /\ desc.set = p.set /\ desc.writable = p.writable
          /\ desc.enumerable = p.enumerable /\ desc.configurable = p.configurable
      BY DEF NothingNew
    <2>2. desc.configurable # TRUE
      BY <2>1 DEF On
    <2>3. desc.enumerable = Absent \/ desc.enumerable = q.enumerable
      BY <1>4, <2>1 DEF Flags, On
    <2>4. (IsAccessorDescriptor(desc) <=> IsAccessorDescriptor(p)) /\ (IsDataDescriptor(desc) <=> IsDataDescriptor(p))
      BY <2>1 DEF IsAccessorDescriptor, IsDataDescriptor
    <2>5. IsAccessorDescriptor(p) => /\ desc.get = Absent \/ desc.get = q.get
                                     /\ desc.set = Absent \/ desc.set = q.set
      BY <2>1, OrElseFacts DEF Shows
    <2>6. IsDataDescriptor(p) /\ q.writable = FALSE => desc.writable # TRUE /\ desc.value = q.value
      BY <1>1, <2>1 DEF Shows, On
    <2> QED BY <1>2, <1>3, <2>2, <2>3, <2>4, <2>5, <2>6
  <1>7. On(p.configurable) <=> q.configurable # FALSE
    BY <1>4
  <1> HIDE DEF E
  <1>8. NothingNew(desc, p) \/ On(p.configurable) \/ ~Refused(desc, p) <=> (q.configurable = FALSE => E)
    BY <1>5, <1>6, <1>7
  <1> QED BY <1>8 DEF E

(* The code accepts a definition exactly when ECMAScript finds it compatible.   *)
LEMMA ValidateCompatible ==
  ASSUME NEW e \in BOOLEAN, NEW desc \in Asked, NEW p \in Stored,
         NothingNew(desc, p) => desc.value = p.value
  PROVE  ValidateAndApply(e, desc, p).ok <=> Ecma!Compatible(e, desc, Visible(p))
  <1>1. PICK q : q = Visible(p)
    OBVIOUS
  <1>2. Shows(p, q) /\ q # Missing
    BY <1>1, VisibleShows DEF Shows
  <1>3. ValidateAndApply(e, desc, p).ok <=> NothingNew(desc, p) \/ On(p.configurable) \/ ~Refused(desc, p)
    BY ValidateFacts, Zenon
  <1>4. Ecma!Compatible(e, desc, q)
          <=> (q.configurable = FALSE =>
                  /\ desc.configurable # TRUE
                  /\ Ecma!Is(desc.enumerable, q.enumerable)
                  /\ Ecma!Accessor(desc) => Ecma!Accessor(q) /\ Ecma!Is(desc.get, q.get) /\ Ecma!Is(desc.set, q.set)
                  /\ Ecma!Data(desc) => Ecma!Data(q)
                  /\ Ecma!Data(desc) /\ q.writable = FALSE => desc.writable # TRUE /\ Ecma!Is(desc.value, q.value))
    BY <1>2, Zenon DEF Ecma!Compatible
  <1>5. NothingNew(desc, p) \/ On(p.configurable) \/ ~Refused(desc, p)
           <=> (q.configurable = FALSE =>
                  /\ desc.configurable # TRUE
                  /\ Ecma!Is(desc.enumerable, q.enumerable)
                  /\ Ecma!Accessor(desc) => Ecma!Accessor(q) /\ Ecma!Is(desc.get, q.get) /\ Ecma!Is(desc.set, q.set)
                  /\ Ecma!Data(desc) => Ecma!Data(q)
                  /\ Ecma!Data(desc) /\ q.writable = FALSE => desc.writable # TRUE /\ Ecma!Is(desc.value, q.value))
    BY <1>2, Allowed
  <1> QED BY <1>1, <1>3, <1>4, <1>5, Zenon

(* The fields ECMAScript leaves behind, by what becomes of the kind.            *)
LEMMA DefinedFacts ==
  ASSUME NEW desc \in Asked, NEW q
  PROVE  LET r == Ecma!Defined(desc, q)
             same == q # Missing /\ (Ecma!Accessor(desc) => Ecma!Accessor(q)) /\ (Ecma!Data(desc) => Ecma!Data(q))
             accessor == Ecma!Accessor(desc) \/ (same /\ Ecma!Accessor(q))
         IN /\ r = [value |-> r.value, writable |-> r.writable, get |-> r.get, set |-> r.set,
                    enumerable |-> r.enumerable, configurable |-> r.configurable]
            /\ r.enumerable = OrElse(desc.enumerable, IF q = Missing THEN FALSE ELSE q.enumerable)
            /\ r.configurable = OrElse(desc.configurable, IF q = Missing THEN FALSE ELSE q.configurable)
            /\ accessor => /\ r.value = Absent /\ r.writable = Absent
                           /\ r.get = OrElse(desc.get, IF same THEN q.get ELSE Undefined)
                           /\ r.set = OrElse(desc.set, IF same THEN q.set ELSE Undefined)
            /\ ~accessor => /\ r.get = Absent /\ r.set = Absent
                            /\ r.value = OrElse(desc.value, IF same THEN q.value ELSE Undefined)
                            /\ r.writable = OrElse(desc.writable, IF same THEN q.writable ELSE FALSE)
  <1> DEFINE r == Ecma!Defined(desc, q)
             same == q # Missing /\ (Ecma!Accessor(desc) => Ecma!Accessor(q)) /\ (Ecma!Data(desc) => Ecma!Data(q))
             accessor == IF Ecma!Accessor(desc) THEN TRUE ELSE same /\ Ecma!Accessor(q)
  <1>1. r = [value |-> IF accessor THEN Absent ELSE OrElse(desc["value"], IF same THEN q["value"] ELSE Undefined),
             writable |-> IF accessor THEN Absent ELSE OrElse(desc["writable"], IF same THEN q["writable"] ELSE FALSE),
             get |-> IF accessor THEN OrElse(desc["get"], IF same THEN q["get"] ELSE Undefined) ELSE Absent,
             set |-> IF accessor THEN OrElse(desc["set"], IF same THEN q["set"] ELSE Undefined) ELSE Absent,
             enumerable |-> OrElse(desc["enumerable"], IF q = Missing THEN FALSE ELSE q["enumerable"]),
             configurable |-> OrElse(desc["configurable"], IF q = Missing THEN FALSE ELSE q["configurable"])]
    BY Zenon DEF Ecma!Defined, Ecma!Field, OrElse
  <1>2. accessor <=> Ecma!Accessor(desc) \/ (same /\ Ecma!Accessor(q))
    OBVIOUS
  <1>3. PICK A, S : A = accessor /\ S = same /\ (A <=> Ecma!Accessor(desc) \/ (same /\ Ecma!Accessor(q))) /\ (S <=> same)
    BY <1>2
  <1> HIDE DEF r, same, accessor
  <1>4. /\ r = [value |-> r.value, writable |-> r.writable, get |-> r.get, set |-> r.set,
                enumerable |-> r.enumerable, configurable |-> r.configurable]
        /\ r.enumerable = OrElse(desc.enumerable, IF q = Missing THEN FALSE ELSE q.enumerable)
        /\ r.configurable = OrElse(desc.configurable, IF q = Missing THEN FALSE ELSE q.configurable)
        /\ accessor => /\ r.value = Absent /\ r.writable = Absent
                       /\ r.get = OrElse(desc.get, IF same THEN q.get ELSE Undefined)
                       /\ r.set = OrElse(desc.set, IF same THEN q.set ELSE Undefined)
        /\ ~accessor => /\ r.get = Absent /\ r.set = Absent
                        /\ r.value = OrElse(desc.value, IF same THEN q.value ELSE Undefined)
                        /\ r.writable = OrElse(desc.writable, IF same THEN q.writable ELSE FALSE)
    BY <1>1
  <1> QED BY <1>2, <1>4 DEF r, same, accessor

(* Two complete properties with the same fields are the same.                   *)
LEMMA SameFields ==
  ASSUME NEW c \in Descriptors, NEW r,
         r = [value |-> r.value, writable |-> r.writable, get |-> r.get, set |-> r.set,
              enumerable |-> r.enumerable, configurable |-> r.configurable],
         c.value = r.value, c.writable = r.writable, c.get = r.get, c.set = r.set,
         c.enumerable = r.enumerable, c.configurable = r.configurable
  PROVE  c = r
  <1>1. c = [value |-> c.value, writable |-> c.writable, get |-> c.get, set |-> c.set,
             enumerable |-> c.enumerable, configurable |-> c.configurable]
    BY DEF Descriptors
  <1> QED BY <1>1

(* ECMAScript and the code tell the kinds apart in the same way.                *)
LEMMA EcmaKinds ==
  \A d : (Ecma!Accessor(d) <=> IsAccessorDescriptor(d)) /\ (Ecma!Data(d) <=> IsDataDescriptor(d))
  BY DEF Ecma!Accessor, Ecma!Data, IsAccessorDescriptor, IsDataDescriptor

(* A property that is new is stored as ECMAScript says,                         *)
LEMMA NewConforms ==
  ASSUME NEW desc \in Asked
  PROVE  Visible(NewProperty(desc)) = Ecma!Defined(desc, Missing)
  <1> DEFINE n == NewProperty(desc)
             c == Visible(n)
             r == Ecma!Defined(desc, Missing)
  <1>1. n \in Stored /\ c = Completed(n)
    BY NewPropertyStored, VisibleShows
  <1>2. Shows(n, c)
    BY NewPropertyStored, VisibleShows
  <1>3. desc \in Descriptors /\ ~(IsAccessorDescriptor(desc) /\ IsDataDescriptor(desc))
    BY DEF Asked
  <1>4. /\ r = [value |-> r.value, writable |-> r.writable, get |-> r.get, set |-> r.set,
                enumerable |-> r.enumerable, configurable |-> r.configurable]
        /\ r.enumerable = OrElse(desc.enumerable, FALSE)
        /\ r.configurable = OrElse(desc.configurable, FALSE)
        /\ IsAccessorDescriptor(desc) => /\ r.value = Absent /\ r.writable = Absent
                       /\ r.get = OrElse(desc.get, Undefined)
                       /\ r.set = OrElse(desc.set, Undefined)
        /\ ~IsAccessorDescriptor(desc) =>
             /\ r.get = Absent /\ r.set = Absent
             /\ r.value = OrElse(desc.value, Undefined)
             /\ r.writable = OrElse(desc.writable, FALSE)
    BY DefinedFacts, EcmaKinds
  <1>5. /\ OrElse(desc.enumerable, FALSE) = On(desc.enumerable)
        /\ OrElse(desc.configurable, FALSE) = On(desc.configurable)
        /\ OrElse(desc.writable, FALSE) = On(desc.writable)
    BY <1>3, FlagFacts DEF OrElse, On, Descriptors, Flags
  <1>6. /\ On(n.enumerable) = On(desc.enumerable) /\ On(n.configurable) = On(desc.configurable)
        /\ IsAccessorDescriptor(desc) => n.get = desc.get /\ n.set = desc.set
        /\ ~IsAccessorDescriptor(desc) => /\ n.get = Absent /\ n.set = Absent
                                          /\ n.value = OrElse(desc.value, Undefined) /\ On(n.writable) = On(desc.writable)
    <2>1. CASE IsAccessorDescriptor(desc)
      <3>1. n = [desc EXCEPT !.enumerable = On(desc.enumerable), !.configurable = On(desc.configurable)]
        BY <2>1 DEF NewProperty
      <3> QED BY <1>3, <2>1, <3>1 DEF Descriptors, On
    <2>2. CASE ~IsAccessorDescriptor(desc)
      <3>1. desc.get = Absent /\ desc.set = Absent
        BY <2>2 DEF IsAccessorDescriptor
      <3>2. CASE \E flag \in {"writable", "enumerable", "configurable"} : On(desc[flag])
        <4>1. n = [desc EXCEPT !.value = OrElse(desc.value, Undefined)]
          BY <2>2, <3>2 DEF NewProperty
        <4> QED BY <1>3, <2>2, <3>1, <4>1 DEF Descriptors
      <3>3. CASE ~ \E flag \in {"writable", "enumerable", "configurable"} : On(desc[flag])
        <4>1. n = [Empty EXCEPT !.value = OrElse(desc.value, Undefined), !.writable = FALSE,
                                !.enumerable = FALSE, !.configurable = FALSE]
          BY <2>2, <3>3 DEF NewProperty
        <4>2. desc.writable # TRUE /\ desc.enumerable # TRUE /\ desc.configurable # TRUE
          BY <3>3 DEF On
        <4>3. /\ n.get = Absent /\ n.set = Absent /\ n.value = OrElse(desc.value, Undefined)
              /\ n.writable = FALSE /\ n.enumerable = FALSE /\ n.configurable = FALSE
          BY <4>1 DEF Empty
        <4> QED BY <2>2, <4>2, <4>3 DEF On
      <3> QED BY <3>2, <3>3
    <2> QED BY <2>1, <2>2
  <1> HIDE DEF n, c, r
  <1>7. IsAccessorDescriptor(n) <=> IsAccessorDescriptor(desc)
    BY <1>6 DEF IsAccessorDescriptor
  <1>8. /\ c.enumerable = r.enumerable /\ c.configurable = r.configurable
        /\ c.get = r.get /\ c.set = r.set /\ c.value = r.value /\ c.writable = r.writable
    BY <1>2, <1>4, <1>5, <1>6, <1>7 DEF Shows
  <1>9. c \in Descriptors
    BY <1>2 DEF Shows, Stored
  <1> QED BY <1>4, <1>8, <1>9, SameFields DEF n, c, r

(* one that is defined as it is stays as ECMAScript says,                       *)
LEMMA SameConforms ==
  ASSUME NEW p \in Stored
  PROVE  Visible(p) = Ecma!Defined(p, Visible(p))
  <1> DEFINE q == Visible(p)
             r == Ecma!Defined(p, q)
  <1>1. Shows(p, q) /\ p \in Asked /\ p \in Descriptors
    BY VisibleShows, StoredFacts
  <1>2. q # Missing /\ q \in Descriptors
    BY <1>1 DEF Shows, Stored
  <1>3. /\ IsAccessorDescriptor(q) <=> IsAccessorDescriptor(p)
        /\ IsDataDescriptor(q) <=> IsDataDescriptor(p)
        /\ IsDataDescriptor(p) <=> ~IsAccessorDescriptor(p)
    BY <1>1, StoredFacts DEF Shows, IsAccessorDescriptor, IsDataDescriptor
  <1>4. /\ r = [value |-> r.value, writable |-> r.writable, get |-> r.get, set |-> r.set,
                enumerable |-> r.enumerable, configurable |-> r.configurable]
        /\ r.enumerable = OrElse(p.enumerable, q.enumerable)
        /\ r.configurable = OrElse(p.configurable, q.configurable)
        /\ IsAccessorDescriptor(p) => /\ r.value = Absent /\ r.writable = Absent
                       /\ r.get = OrElse(p.get, q.get) /\ r.set = OrElse(p.set, q.set)
        /\ ~IsAccessorDescriptor(p) =>
             /\ r.get = Absent /\ r.set = Absent
             /\ r.value = OrElse(p.value, q.value) /\ r.writable = OrElse(p.writable, q.writable)
    BY <1>1, <1>2, <1>3, DefinedFacts, EcmaKinds
  <1> HIDE DEF q, r
  <1>5. q.enumerable = On(p.enumerable) /\ q.configurable = On(p.configurable)
    BY <1>1 DEF Shows
  <1>6. /\ p.enumerable \in Flags /\ p.configurable \in Flags /\ p.writable \in Flags
    BY <1>1 DEF Descriptors
  <1>7. \A x \in Flags : OrElse(x, On(x)) = On(x)
    BY FlagFacts DEF OrElse, On, Flags
  <1>8. q.enumerable = r.enumerable /\ q.configurable = r.configurable
    BY <1>4, <1>5, <1>6, <1>7
  <1>9. CASE IsAccessorDescriptor(p)
    <2>1. q.get = OrElse(p.get, Undefined) /\ q.set = OrElse(p.set, Undefined) /\ q.value = Absent /\ q.writable = Absent
      BY <1>1, <1>9 DEF Shows
    <2>2. OrElse(p.get, q.get) = q.get /\ OrElse(p.set, q.set) = q.set
      BY <2>1 DEF OrElse
    <2> QED BY <1>2, <1>4, <1>8, <1>9, <2>1, <2>2, SameFields DEF q, r
  <1>10. CASE ~IsAccessorDescriptor(p)
    <2>1. q.value = p.value /\ q.writable = On(p.writable) /\ q.get = Absent /\ q.set = Absent
      BY <1>1, <1>10 DEF Shows
    <2>2. OrElse(p.value, q.value) = q.value /\ OrElse(p.writable, q.writable) = q.writable
      BY <1>6, <1>7, <2>1 DEF OrElse
    <2> QED BY <1>2, <1>4, <1>8, <1>10, <2>1, <2>2, SameFields DEF q, r
  <1> QED BY <1>9, <1>10

(* and one that changes is changed as ECMAScript says.                          *)
LEMMA AppliedConforms ==
  ASSUME NEW desc \in Asked, NEW p \in Stored
  PROVE  Visible(Applied(desc, p)) = Ecma!Defined(desc, Visible(p))
  <1> DEFINE q == Visible(p)
             r == Ecma!Defined(desc, q)
             n == Applied(desc, p)
             c == Visible(n)
  <1>1. Shows(p, q) /\ p \in Descriptors /\ desc \in Descriptors
    BY VisibleShows, StoredFacts DEF Asked
  <1>2. Shows(n, c) /\ c \in Descriptors
    <2>1. n \in Stored
      BY AppliedStored
    <2> HIDE DEF n
    <2> QED BY <2>1, VisibleShows DEF Shows, Stored
  <1>3. q # Missing
    BY <1>1 DEF Shows
  <1>4. /\ IsAccessorDescriptor(q) <=> IsAccessorDescriptor(p)
        /\ IsDataDescriptor(q) <=> IsDataDescriptor(p)
        /\ IsDataDescriptor(p) <=> ~IsAccessorDescriptor(p)
        /\ ~(IsAccessorDescriptor(desc) /\ IsDataDescriptor(desc))
    BY <1>1, StoredFacts DEF Shows, IsAccessorDescriptor, IsDataDescriptor, Asked
  <1>5. OtherKind(desc, p) <=> (IsDataDescriptor(desc) /\ ~IsDataDescriptor(p))
                                   \/ (IsAccessorDescriptor(desc) /\ ~IsAccessorDescriptor(p))
    BY <1>4 DEF OtherKind, IsGenericDescriptor, IsDataDescriptor, IsAccessorDescriptor
  <1>6. /\ n.enumerable = OrElse(desc.enumerable, p.enumerable)
        /\ n.configurable = OrElse(desc.configurable, p.configurable)
        /\ ~OtherKind(desc, p) =>
             /\ n.value = OrElse(desc.value, p.value)
             /\ n.get = OrElse(desc.get, p.get)
             /\ n.set = OrElse(desc.set, p.set)
             /\ n.writable = OrElse(desc.writable, p.writable)
        /\ OtherKind(desc, p) /\ IsDataDescriptor(p) =>
             /\ n.value = desc.value /\ n.writable = desc.writable
             /\ n.get = OrElse(desc.get, Undefined) /\ n.set = OrElse(desc.set, Undefined)
        /\ OtherKind(desc, p) /\ ~IsDataDescriptor(p) =>
             /\ n.value = OrElse(desc.value, Undefined) /\ n.writable = desc.writable
             /\ n.get = desc.get /\ n.set = desc.set
    BY AppliedFacts
  <1>7. /\ r = [value |-> r.value, writable |-> r.writable, get |-> r.get, set |-> r.set,
                enumerable |-> r.enumerable, configurable |-> r.configurable]
        /\ r.enumerable = OrElse(desc.enumerable, q.enumerable)
        /\ r.configurable = OrElse(desc.configurable, q.configurable)
        /\ OtherKind(desc, p) /\ IsDataDescriptor(p) =>
             /\ r.value = Absent /\ r.writable = Absent
             /\ r.get = OrElse(desc.get, Undefined) /\ r.set = OrElse(desc.set, Undefined)
        /\ OtherKind(desc, p) /\ ~IsDataDescriptor(p) =>
             /\ r.get = Absent /\ r.set = Absent
             /\ r.value = OrElse(desc.value, Undefined) /\ r.writable = OrElse(desc.writable, FALSE)
        /\ ~OtherKind(desc, p) /\ IsDataDescriptor(p) =>
             /\ r.get = Absent /\ r.set = Absent
             /\ r.value = OrElse(desc.value, q.value) /\ r.writable = OrElse(desc.writable, q.writable)
        /\ ~OtherKind(desc, p) /\ ~IsDataDescriptor(p) =>
             /\ r.value = Absent /\ r.writable = Absent
             /\ r.get = OrElse(desc.get, q.get) /\ r.set = OrElse(desc.set, q.set)
    <2> HIDE DEF q
    <2>1. /\ r = [value |-> r.value, writable |-> r.writable, get |-> r.get, set |-> r.set,
                  enumerable |-> r.enumerable, configurable |-> r.configurable]
          /\ r.enumerable = OrElse(desc.enumerable, q.enumerable)
          /\ r.configurable = OrElse(desc.configurable, q.configurable)
      BY <1>3, DefinedFacts
    <2>2. CASE OtherKind(desc, p) /\ IsDataDescriptor(p)
      <3>1. Ecma!Accessor(desc) /\ ~Ecma!Accessor(q)
        BY <1>4, <1>5, <2>2, EcmaKinds
      <3> QED BY <2>1, <2>2, <3>1, DefinedFacts
    <2>3. CASE OtherKind(desc, p) /\ ~IsDataDescriptor(p)
      <3>1. ~Ecma!Accessor(desc) /\ Ecma!Data(desc) /\ ~Ecma!Data(q)
        BY <1>4, <1>5, <2>3, EcmaKinds
      <3> QED BY <2>1, <2>3, <3>1, DefinedFacts
    <2>4. CASE ~OtherKind(desc, p) /\ IsDataDescriptor(p)
      <3>1. ~Ecma!Accessor(desc) /\ ~Ecma!Accessor(q) /\ Ecma!Data(q)
        BY <1>4, <1>5, <2>4, EcmaKinds
      <3> QED BY <1>3, <2>1, <2>4, <3>1, DefinedFacts
    <2>5. CASE ~OtherKind(desc, p) /\ ~IsDataDescriptor(p)
      <3>1. Ecma!Accessor(q) /\ ~Ecma!Data(desc)
        BY <1>4, <1>5, <2>5, EcmaKinds
      <3> QED BY <1>3, <2>1, <2>5, <3>1, DefinedFacts
    <2> QED BY <2>2, <2>3, <2>4, <2>5
  <1> HIDE DEF q, r, n, c
  <1>8. \A y : \A x \in Flags : OrElse(x, On(y)) = On(OrElse(x, y)) /\ OrElse(x, FALSE) = On(x)
    BY FlagFacts DEF OrElse, On, Flags
  <1>9. desc.enumerable \in Flags /\ desc.configurable \in Flags /\ desc.writable \in Flags
    BY <1>1 DEF Descriptors
  <1>10. c.enumerable = r.enumerable /\ c.configurable = r.configurable
    <2>1. /\ OrElse(desc.enumerable, On(p.enumerable)) = On(OrElse(desc.enumerable, p.enumerable))
          /\ OrElse(desc.configurable, On(p.configurable)) = On(OrElse(desc.configurable, p.configurable))
      BY <1>8, <1>9
    <2>2. /\ q.enumerable = On(p.enumerable) /\ q.configurable = On(p.configurable)
          /\ c.enumerable = On(n.enumerable) /\ c.configurable = On(n.configurable)
      BY <1>1, <1>2 DEF Shows
    <2> QED BY <1>6, <1>7, <2>1, <2>2
  <1>11. \A x, y, z : OrElse(OrElse(x, y), z) = OrElse(x, OrElse(y, z)) /\ (y # Absent => OrElse(y, z) = y)
    BY DEF OrElse
  <1>12. c.value = r.value /\ c.writable = r.writable /\ c.get = r.get /\ c.set = r.set
    <2>1. CASE OtherKind(desc, p) /\ IsDataDescriptor(p)
      <3>1. n.get # Absent /\ n.set # Absent
        <4>1. IsAccessorDescriptor(desc)
          BY <1>4, <1>5, <2>1
        <4> QED BY <1>6, <2>1, OrElseFacts, FlagFacts
      <3>2. IsAccessorDescriptor(n)
        BY <3>1 DEF IsAccessorDescriptor
      <3>3. c.get = n.get /\ c.set = n.set /\ c.value = Absent /\ c.writable = Absent
        BY <1>2, <3>1, <3>2, OrElseFacts DEF Shows
      <3> QED BY <1>6, <1>7, <2>1, <3>3
    <2>2. CASE OtherKind(desc, p) /\ ~IsDataDescriptor(p)
      <3>1. desc.get = Absent /\ desc.set = Absent
        BY <1>4, <1>5, <2>2 DEF IsAccessorDescriptor
      <3>2. ~IsAccessorDescriptor(n)
        BY <1>6, <2>2, <3>1 DEF IsAccessorDescriptor
      <3>3. c.value = n.value /\ c.writable = On(n.writable) /\ c.get = Absent /\ c.set = Absent
        BY <1>2, <3>2 DEF Shows
      <3> QED BY <1>6, <1>7, <1>8, <1>9, <2>2, <3>3
    <2>3. CASE ~OtherKind(desc, p) /\ IsDataDescriptor(p)
      <3>1. desc.get = Absent /\ desc.set = Absent /\ p.get = Absent /\ p.set = Absent
        BY <1>4, <1>5, <2>3 DEF IsAccessorDescriptor
      <3>2. ~IsAccessorDescriptor(n)
        BY <1>6, <2>3, <3>1, OrElseFacts DEF IsAccessorDescriptor
      <3>3. c.value = n.value /\ c.writable = On(n.writable) /\ c.get = Absent /\ c.set = Absent
        BY <1>2, <3>2 DEF Shows
      <3>4. q.value = p.value /\ q.writable = On(p.writable)
        BY <1>1, <1>4, <2>3 DEF Shows
      <3>5. OrElse(desc.writable, On(p.writable)) = On(OrElse(desc.writable, p.writable))
        BY <1>8, <1>9
      <3>6. OrElse(desc.value, p.value) = r.value /\ OrElse(desc.writable, On(p.writable)) = r.writable
        BY <1>7, <2>3, <3>4
      <3>7. n.value = OrElse(desc.value, p.value) /\ n.writable = OrElse(desc.writable, p.writable)
        BY <1>6, <2>3
      <3>8. r.get = Absent /\ r.set = Absent
        BY <1>7, <2>3
      <3> QED BY <3>3, <3>5, <3>6, <3>7, <3>8
    <2>4. CASE ~OtherKind(desc, p) /\ ~IsDataDescriptor(p)
      <3>1. q.get = OrElse(p.get, Undefined) /\ q.set = OrElse(p.set, Undefined) /\ IsAccessorDescriptor(p)
        BY <1>1, <1>4, <2>4 DEF Shows
      <3>2. IsAccessorDescriptor(n)
        BY <1>6, <2>4, <3>1, OrElseFacts DEF IsAccessorDescriptor
      <3>3. c.get = OrElse(n.get, Undefined) /\ c.set = OrElse(n.set, Undefined) /\ c.value = Absent /\ c.writable = Absent
        BY <1>2, <3>2 DEF Shows
      <3> QED BY <1>6, <1>7, <1>11, <2>4, <3>1, <3>3
    <2> QED BY <2>1, <2>2, <2>3, <2>4
  <1> QED BY <1>2, <1>7, <1>10, <1>12, SameFields DEF q, r, n, c

(* Hence every definition is decided as ECMAScript does.                        *)
LEMMA DefinitionSound ==
  ASSUME NEW e \in BOOLEAN, NEW desc \in Asked, NEW p \in Stored \cup {Missing},
         p # Missing => ~(NothingNew(desc, p) /\ desc.value # p.value)
  PROVE  LET r == ValidateAndApply(e, desc, p)
         IN /\ r.ok <=> Ecma!Compatible(e, desc, Visible(p))
            /\ Visible(r.property) = IF r.ok THEN Ecma!Defined(desc, Visible(p)) ELSE Visible(p)
  <1>1. CASE p = Missing
    <2>1. ValidateAndApply(e, desc, p) = [ok |-> e, property |-> IF e THEN NewProperty(desc) ELSE Missing]
      BY <1>1, Zenon DEF ValidateAndApply
    <2>2. Ecma!Compatible(e, desc, Visible(p)) <=> e
      BY <1>1, VisibleMissing, Zenon DEF Ecma!Compatible
    <2>3. Visible(NewProperty(desc)) = Ecma!Defined(desc, Missing)
      BY NewConforms
    <2> QED BY <1>1, <2>1, <2>2, <2>3, VisibleMissing
  <1>2. CASE p \in Stored
    <2>1. p # Missing /\ (NothingNew(desc, p) => desc.value = p.value)
      BY <1>2, NotEmpty
    <2>2. ValidateAndApply(e, desc, p).ok <=> Ecma!Compatible(e, desc, Visible(p))
      BY <1>2, <2>1, ValidateCompatible
    <2>3. PICK r : r = ValidateAndApply(e, desc, p)
      OBVIOUS
    <2>4. \/ NothingNew(desc, p) /\ r.ok = TRUE /\ r.property = p
          \/ r.ok = FALSE /\ r.property = p
          \/ r.ok = TRUE /\ r.property = Applied(desc, p)
      BY <1>2, <2>3, ValidateFacts, Zenon
    <2>5. Visible(r.property) = IF r.ok THEN Ecma!Defined(desc, Visible(p)) ELSE Visible(p)
      <3>1. ASSUME NothingNew(desc, p)
            PROVE  desc = p
        <4>1. desc \in Descriptors /\ p \in Descriptors
          BY <1>2 DEF Asked, Stored
        <4>2. /\ desc.value = p.value /\ desc.get = p.get /\ desc.set = p.set /\ desc.writable = p.writable
              /\ desc.enumerable = p.enumerable /\ desc.configurable = p.configurable
          BY <2>1, <3>1 DEF NothingNew
        <4> QED BY <4>1, <4>2 DEF Descriptors
      <3>2. Visible(p) = Ecma!Defined(p, Visible(p))
        BY <1>2, SameConforms
      <3>3. Visible(Applied(desc, p)) = Ecma!Defined(desc, Visible(p))
        BY <1>2, AppliedConforms
      <3> QED BY <2>4, <3>1, <3>2, <3>3
    <2> QED BY <2>2, <2>3, <2>5
  <1> QED BY <1>1, <1>2

(* What the checks ask of a stored property, and what ECMAScript asks of it.    *)
LEMMA VisibleLocked ==
  ASSUME NEW p \in Stored \cup {Missing}
  PROVE  LET q == Visible(p)
         IN /\ p = Missing <=> q = Missing
            /\ Ecma!Locked(q) <=> IsLocked(p)
            /\ Ecma!Constant(q) <=> IsConstant(p)
            /\ IsConstant(p) => q.value = p.value
            /\ p # Missing => /\ q.configurable = On(p.configurable)
                              /\ q.writable = TRUE <=> On(p.writable)
                              /\ q.writable = FALSE <=> IsDataDescriptor(p) /\ ~On(p.writable)
                              /\ q.get = Undefined <=> IsAccessorDescriptor(p) /\ OrElse(p.get, Undefined) = Undefined
                              /\ q.set = Undefined <=> IsAccessorDescriptor(p) /\ OrElse(p.set, Undefined) = Undefined
  <1>1. CASE p = Missing
    BY <1>1, VisibleMissing DEF Ecma!Locked, Ecma!Constant, IsLocked, IsConstant
  <1>2. CASE p \in Stored
    <2>1. PICK q : q = Visible(p)
      OBVIOUS
    <2>2. Shows(p, q) /\ p # Missing /\ (IsDataDescriptor(p) <=> ~IsAccessorDescriptor(p))
      BY <1>2, <2>1, VisibleShows, StoredFacts, NotEmpty
    <2>3. /\ q # Missing /\ q.configurable = On(p.configurable)
          /\ IsAccessorDescriptor(p) =>
               /\ q.get = OrElse(p.get, Undefined) /\ q.set = OrElse(p.set, Undefined)
               /\ q.writable = Absent /\ p.writable = Absent
          /\ ~IsAccessorDescriptor(p) =>
               q.value = p.value /\ q.writable = On(p.writable) /\ q.get = Absent /\ q.set = Absent
      BY <1>2, <2>2, StoredFacts DEF Shows
    <2>4. /\ q.writable = TRUE <=> On(p.writable)
          /\ q.writable = FALSE <=> IsDataDescriptor(p) /\ ~On(p.writable)
      BY <2>2, <2>3, FlagFacts DEF On
    <2>5. /\ q.get = Undefined <=> IsAccessorDescriptor(p) /\ OrElse(p.get, Undefined) = Undefined
          /\ q.set = Undefined <=> IsAccessorDescriptor(p) /\ OrElse(p.set, Undefined) = Undefined
      BY <2>3, FlagFacts
    <2>6. Ecma!Locked(q) <=> IsLocked(p)
      BY <2>2, <2>3 DEF Ecma!Locked, IsLocked, On
    <2>7. Ecma!Constant(q) <=> IsConstant(p)
      BY <2>4, <2>6 DEF Ecma!Constant, IsConstant
    <2>8. IsConstant(p) => q.value = p.value
      BY <2>2, <2>3 DEF IsConstant
    <2> QED BY <2>1, <2>2, <2>3, <2>4, <2>5, <2>6, <2>7, <2>8
  <1> QED BY <1>1, <1>2

(* The checks of the traps ask the same question.                               *)
LEMMA CompatibleChecked ==
  ASSUME NEW t, extensible[t] \in BOOLEAN, NEW desc \in Asked, NEW p \in Stored \cup {Missing},
         p # Missing => ~(NothingNew(desc, p) /\ desc.value # p.value)
  PROVE  IsCompatible(t, desc, p) <=> Ecma!Compatible(extensible[t], desc, Visible(p))
  <1>1. PICK e \in BOOLEAN : e = extensible[t]
    OBVIOUS
  <1>2. ValidateAndApply(e, desc, p).ok <=> Ecma!Compatible(e, desc, Visible(p))
    BY DefinitionSound
  <1> QED BY <1>1, <1>2 DEF IsCompatible

(* Each check accepts what ECMAScript accepts: getOwnPropertyDescriptor,        *)
LEMMA GetOwnSound ==
  ASSUME NEW t, extensible[t] \in BOOLEAN, NEW p \in Stored \cup {Missing}, NEW d \in Reports \cup {Missing}
  PROVE  GetOwnConforms(t, p, d)
  <1>1. PICK q : q = Visible(p)
    OBVIOUS
  <1>2. PICK e \in BOOLEAN : e = extensible[t]
    OBVIOUS
  <1>3. /\ p = Missing <=> q = Missing
        /\ Ecma!Locked(q) <=> IsLocked(p)
        /\ p # Missing => (q.writable = FALSE <=> IsDataDescriptor(p) /\ ~On(p.writable))
    BY <1>1, VisibleLocked
  <1>4. CASE d = Missing
    <2>1. CheckGetOwn(t, p, d) = Accept(p = Missing \/ (On(p.configurable) /\ e), Describes(Missing))
      BY <1>2, <1>4 DEF CheckGetOwn
    <2>2. CheckGetOwn(t, p, d).status = "ok" <=> p = Missing \/ (On(p.configurable) /\ e)
      BY <2>1, AnswerFacts DEF Accept
    <2>3. Ecma!GetOwnAccepted(e, q, Visible(d)) <=> q = Missing \/ (e /\ ~Ecma!Locked(q))
      BY <1>4, VisibleMissing DEF Ecma!GetOwnAccepted
    <2>4. CheckGetOwn(t, p, d).status = "ok" <=> Ecma!GetOwnAccepted(e, q, Visible(d))
      BY <1>3, <2>2, <2>3 DEF IsLocked
    <2> QED BY <1>1, <1>2, <2>4 DEF Ecma!GetOwnAccepted, GetOwnConforms, Accepts
  <1>5. CASE d # Missing /\ ~OtherZero(p, Completed(d).value)
    <2>1. PICK c : c = Completed(d)
      OBVIOUS
    <2>2. d \in Asked
      BY <1>5, AskedFacts
    <2>3. c \in Asked /\ c \in Stored /\ c.configurable \in BOOLEAN /\ c # Missing
      BY <2>1, <2>2, CompletedFacts, NotEmpty DEF On
    <2>4. /\ IsAccessorDescriptor(c) => c.writable = Absent
          /\ ~IsAccessorDescriptor(c) => IsDataDescriptor(c)
      BY <2>3, StoredFacts
    <2>5. p # Missing => ~(NothingNew(c, p) /\ c.value # p.value)
      BY <1>5, <2>1 DEF NothingNew, OtherZero
    <2>6. IsCompatible(t, c, p) <=> Ecma!Compatible(e, c, q)
      BY <1>1, <1>2, <2>3, <2>5, CompatibleChecked
    <2>7. CheckGetOwn(t, p, d).status = "ok"
            <=> /\ IsCompatible(t, c, p)
                /\ ~c.configurable => IsLocked(p) /\ (c.writable = FALSE => ~On(p.writable))
      <3>1. CheckGetOwn(t, p, d) =
              Accept(/\ IsCompatible(t, c, p)
                     /\ ~c.configurable => IsLocked(p) /\ (c.writable = FALSE => ~On(p.writable)), Describes(c))
        BY <1>5, <2>1 DEF CheckGetOwn
      <3> QED BY <3>1, AnswerFacts DEF Accept
    <2>8. Visible(d) = c
      BY <1>5, <2>1 DEF Visible
    <2>9. Ecma!GetOwnAccepted(e, q, c)
            <=> /\ Ecma!Compatible(e, c, q)
                /\ c.configurable = FALSE => Ecma!Locked(q) /\ (c.writable = FALSE => q.writable = FALSE)
      BY <2>3 DEF Ecma!GetOwnAccepted
    <2>10. ASSUME Ecma!Compatible(e, c, q), c.configurable = FALSE, IsLocked(p), c.writable = FALSE
           PROVE  IsDataDescriptor(p)
      <3>1. p \in Stored /\ p # Missing /\ q # Missing
        BY <1>3, <2>10 DEF IsLocked
      <3>2. q.configurable = FALSE
        BY <1>3, <2>10 DEF Ecma!Locked
      <3>3. Ecma!Data(c) => Ecma!Data(q)
        BY <2>10, <3>1, <3>2 DEF Ecma!Compatible
      <3>4. IsDataDescriptor(c)
        BY <2>4, <2>10, FlagFacts
      <3>5. IsDataDescriptor(q)
        BY <3>3, <3>4, EcmaKinds
      <3>6. Shows(p, q)
        BY <1>1, <3>1, VisibleShows
      <3> QED BY <3>1, <3>5, <3>6, StoredFacts DEF Shows, IsDataDescriptor
    <2>11. CheckGetOwn(t, p, d).status = "ok" <=> Ecma!GetOwnAccepted(e, q, c)
      <3>1. p # Missing /\ IsDataDescriptor(p) => (q.writable = FALSE <=> ~On(p.writable))
        BY <1>3
      <3>2. IsLocked(p) => p # Missing
        BY DEF IsLocked
      <3>3. ~c.configurable <=> c.configurable = FALSE
        BY <2>3
      <3> QED BY <1>3, <2>6, <2>7, <2>9, <2>10, <3>1, <3>2, <3>3
    <2> QED BY <1>1, <1>2, <2>3, <2>8, <2>11 DEF Ecma!GetOwnAccepted, GetOwnConforms, Accepts
  <1>6. CASE d # Missing /\ OtherZero(p, Completed(d).value)
    BY <1>6 DEF GetOwnConforms
  <1> QED BY <1>4, <1>5, <1>6

(* defineProperty,                                                              *)
LEMMA DefineSound ==
  ASSUME NEW t, extensible[t] \in BOOLEAN, NEW p \in Stored \cup {Missing}, NEW d \in Asked
  PROVE  DefineConforms(t, p, d)
  <1> SUFFICES ASSUME ~OtherZero(p, d.value)
               PROVE  DefineConforms(t, p, d)
    BY DEF DefineConforms
  <1>1. PICK q : q = Visible(p)
    OBVIOUS
  <1>2. PICK e \in BOOLEAN : e = extensible[t]
    OBVIOUS
  <1>3. /\ p = Missing <=> q = Missing
        /\ Ecma!Locked(q) <=> IsLocked(p)
        /\ p # Missing => (q.writable = TRUE <=> On(p.writable))
    BY <1>1, VisibleLocked
  <1>4. IsCompatible(t, d, p) <=> Ecma!Compatible(e, d, q)
    <2>1. p # Missing => ~(NothingNew(d, p) /\ d.value # p.value)
      BY DEF NothingNew, OtherZero
    <2> QED BY <1>1, <1>2, <2>1, CompatibleChecked
  <1>5. Ecma!DefineAccepted(e, q, d)
          <=> /\ q = Missing => e
              /\ Ecma!Compatible(e, d, q)
              /\ d.configurable = FALSE => Ecma!Locked(q)
              /\ Ecma!Locked(q) /\ q.writable = TRUE => d.writable # FALSE
    BY DEF Ecma!DefineAccepted
  <1>6. CASE p = Missing
    <2>1. CheckDefine(t, p, d, TRUE).status = "ok" <=> e /\ d.configurable # FALSE
      <3>1. CheckDefine(t, p, d, TRUE) = Accept(e /\ ~(d.configurable = FALSE), Says(TRUE))
        BY <1>2, <1>6 DEF CheckDefine
      <3> QED BY <3>1, AnswerFacts DEF Accept
    <2>2. Ecma!Compatible(e, d, q) <=> e
      BY <1>3, <1>6, Zenon DEF Ecma!Compatible
    <2>3. ~IsLocked(p)
      BY <1>6 DEF IsLocked
    <2>4. CheckDefine(t, p, d, TRUE).status = "ok" <=> Ecma!DefineAccepted(e, q, d)
      BY <1>3, <1>5, <1>6, <2>1, <2>2, <2>3
    <2> QED BY <1>1, <1>2, <2>4 DEF Ecma!DefineAccepted, DefineConforms, Accepts
  <1>7. CASE p # Missing
    <2>1. CheckDefine(t, p, d, TRUE).status = "ok"
            <=> /\ IsCompatible(t, d, p)
                /\ ~(On(p.configurable) /\ d.configurable = FALSE)
                /\ ~(IsDataDescriptor(p) /\ IsLocked(p) /\ On(p.writable) /\ d.writable = FALSE)
      <3>1. CheckDefine(t, p, d, TRUE) =
              IF /\ IsCompatible(t, d, p)
                 /\ ~(On(p.configurable) /\ d.configurable = FALSE)
                 /\ ~(IsDataDescriptor(p) /\ IsLocked(p) /\ On(p.writable) /\ d.writable = FALSE)
              THEN Says(TRUE) ELSE TypeError
        BY <1>7, Zenon DEF CheckDefine, Accept
      <3>2. Says(TRUE).status = "ok" /\ TypeError.status # "ok"
        BY AnswerFacts
      <3> QED BY <3>1, <3>2, Zenon
    <2>2. On(p.writable) => IsDataDescriptor(p)
      BY FlagFacts DEF On, IsDataDescriptor
    <2>3. IsLocked(p) <=> ~On(p.configurable)
      BY <1>7 DEF IsLocked
    <2>4. CheckDefine(t, p, d, TRUE).status = "ok" <=> Ecma!DefineAccepted(e, q, d)
      BY <1>3, <1>4, <1>5, <1>7, <2>1, <2>2, <2>3
    <2> QED BY <1>1, <1>2, <2>4 DEF Ecma!DefineAccepted, DefineConforms, Accepts
  <1> QED BY <1>6, <1>7

(* has, deleteProperty, get and set,                                            *)
LEMMA LookupsSound ==
  ASSUME NEW t, extensible[t] \in BOOLEAN, NEW p \in Stored \cup {Missing}
  PROVE  LookupsConform(t, p) /\ \A v : ValuesConform(t, p, v)
  <1>1. PICK q : q = Visible(p)
    OBVIOUS
  <1>2. PICK e \in BOOLEAN : e = extensible[t]
    OBVIOUS
  <1>3. /\ p = Missing <=> q = Missing
        /\ Ecma!Locked(q) <=> IsLocked(p)
        /\ Ecma!Constant(q) <=> IsConstant(p)
        /\ IsConstant(p) => q.value = p.value
        /\ IsLocked(p) =>
             /\ q.get = Undefined <=> IsAccessorDescriptor(p) /\ OrElse(p.get, Undefined) = Undefined
             /\ q.set = Undefined <=> IsAccessorDescriptor(p) /\ OrElse(p.set, Undefined) = Undefined
    BY <1>1, VisibleLocked DEF IsLocked
  <1>4. IsLocked(p) <=> p # Missing /\ ~On(p.configurable)
    BY DEF IsLocked
  <1>5. Ecma!HasNotAccepted(e, q) <=> p = Missing \/ (On(p.configurable) /\ e)
    BY <1>3, <1>4 DEF Ecma!HasNotAccepted
  <1>6. (CheckHas(t, p, FALSE).status = "ok") = Ecma!HasNotAccepted(e, q)
    <2>1. CheckHas(t, p, FALSE) = Accept(FALSE \/ p = Missing \/ (On(p.configurable) /\ e), Says(FALSE))
      BY <1>2 DEF CheckHas
    <2>2. CheckHas(t, p, FALSE).status = "ok" <=> p = Missing \/ (On(p.configurable) /\ e)
      BY <2>1, AnswerFacts DEF Accept
    <2> QED BY <1>5, <2>2 DEF Ecma!HasNotAccepted
  <1>7. (CheckDelete(t, p, TRUE).status = "ok") = Ecma!DeleteAccepted(e, q)
    <2>1. CheckDelete(t, p, TRUE) = Accept(p = Missing \/ (On(p.configurable) /\ e), Says(TRUE))
      BY <1>2 DEF CheckDelete
    <2>2. CheckDelete(t, p, TRUE).status = "ok" <=> p = Missing \/ (On(p.configurable) /\ e)
      BY <2>1, AnswerFacts DEF Accept
    <2> QED BY <1>5, <2>2 DEF Ecma!DeleteAccepted, Ecma!HasNotAccepted
  <1>8. ASSUME NEW v
        PROVE  (CheckGet(t, p, v, TRUE).status = "ok") = Ecma!GetAccepted(q, v)
    <2>1. CheckGet(t, p, v, TRUE) =
            Accept(/\ IsConstant(p) => v = p.value /\ TRUE
                   /\ IsLocked(p) /\ IsAccessorDescriptor(p) /\ OrElse(p.get, Undefined) = Undefined => v = Undefined,
                   Reads(v))
      BY DEF CheckGet
    <2>2. CheckGet(t, p, v, TRUE).status = "ok"
            <=> /\ IsConstant(p) => v = p.value
                /\ IsLocked(p) /\ IsAccessorDescriptor(p) /\ OrElse(p.get, Undefined) = Undefined => v = Undefined
      BY <2>1, AnswerFacts DEF Accept
    <2> QED BY <1>3, <2>2 DEF Ecma!GetAccepted
  <1>9. ASSUME NEW v, ~OtherZero(p, v)
        PROVE  (CheckSet(t, p, v, TRUE).status = "ok") = Ecma!SetAccepted(q, v)
    <2>1. CheckSet(t, p, v, TRUE) =
            Accept(/\ IsConstant(p) => Equal(p.value, v)
                   /\ IsLocked(p) /\ IsAccessorDescriptor(p) => OrElse(p.set, Undefined) # Undefined, Says(TRUE))
      BY DEF CheckSet
    <2>2. CheckSet(t, p, v, TRUE).status = "ok"
            <=> /\ IsConstant(p) => Equal(p.value, v)
                /\ IsLocked(p) /\ IsAccessorDescriptor(p) => OrElse(p.set, Undefined) # Undefined
      BY <2>1, AnswerFacts DEF Accept
    <2>3. IsConstant(p) => (Equal(p.value, v) <=> v = q.value)
      <3>1. IsConstant(p) => p # Missing
        BY DEF IsConstant, IsLocked
      <3> QED BY <1>3, <1>9, <3>1, EqualFacts DEF OtherZero
    <2> QED BY <1>3, <2>2, <2>3 DEF Ecma!SetAccepted
  <1>10. LookupsConform(t, p)
    BY <1>1, <1>2, <1>6, <1>7 DEF LookupsConform, Accepts
  <1>11. ASSUME NEW v
         PROVE  ValuesConform(t, p, v)
    BY <1>1, <1>8, <1>9, Zenon DEF ValuesConform, Accepts
  <1> QED BY <1>10, <1>11

(* ownKeys,                                                                     *)
LEMMA KeysSound ==
  ASSUME Types, NEW t \in Ordinary, NEW keys \in SUBSET Keys
  PROVE  KeysConform(t, keys)
  <1>1. PICK own, shown, e : own = props[t] /\ shown = [k \in Keys |-> Visible(own[k])] /\ e = extensible[t]
    OBVIOUS
  <1>2. own \in [Keys -> Stored \cup {Missing}]
    BY <1>1 DEF Types
  <1>3. \A k \in Keys : (shown[k] = Missing <=> own[k] = Missing) /\ (Ecma!Locked(shown[k]) <=> IsLocked(own[k]))
    BY <1>1, <1>2, VisibleLocked
  <1>4. DOMAIN shown = Keys
    BY <1>1
  <1>5. PresentKeys(t) = {k \in DOMAIN shown : shown[k] # Missing}
    BY <1>1, <1>3, <1>4 DEF PresentKeys
  <1>6. {k \in PresentKeys(t) : IsLocked(own[k])} = {k \in DOMAIN shown : Ecma!Locked(shown[k])}
    BY <1>3, <1>4, <1>5 DEF IsLocked
  <1>7. CheckOwnKeys(t, keys).status = "ok"
          <=> {k \in PresentKeys(t) : IsLocked(own[k])} \subseteq keys /\ (e \/ keys = PresentKeys(t))
    <2>1. CheckOwnKeys(t, keys) =
            Accept({k \in PresentKeys(t) : IsLocked(own[k])} \subseteq keys /\ (e \/ keys = PresentKeys(t)), Lists(keys))
      BY <1>1, Zenon DEF CheckOwnKeys
    <2> QED BY <2>1, AnswerFacts DEF Accept
  <1>8. (CheckOwnKeys(t, keys).status = "ok") = Ecma!OwnKeysAccepted(e, shown, keys)
    BY <1>5, <1>6, <1>7 DEF Ecma!OwnKeysAccepted
  <1> QED BY <1>1, <1>8 DEF KeysConform, Accepts

(* and the two about prototypes.                                                *)
LEMMA PrototypesSound ==
  ASSUME NEW t, NEW x, x # Null, extensible[t] \in BOOLEAN
  PROVE  PrototypesConform(t, x)
  <1>1. CheckGetPrototypeOf(t, x).status = "ok" <=> extensible[t] \/ x = proto[t]
    BY AnswerFacts DEF CheckGetPrototypeOf, Accept
  <1>2. CheckSetPrototypeOf(t, x, TRUE).status = "ok" <=> extensible[t] \/ x = proto[t]
    BY AnswerFacts DEF CheckSetPrototypeOf, Accept
  <1> QED BY <1>1, <1>2 DEF Ecma!PrototypeAccepted, PrototypesConform, Accepts

(* Together, for the properties that the objects store:                         *)
LEMMA DefinitionsSound ==
  ASSUME Types
  PROVE  DefinitionsConform
  <1>1. ASSUME NEW o \in Ordinary, NEW k \in Keys, NEW desc \in Definitions \cup Reports
        PROVE  DefinitionConforms(extensible[o], desc, props[o][k])
    <2>1. PICK e \in BOOLEAN, p \in Stored \cup {Missing} : e = extensible[o] /\ p = props[o][k]
      BY DEF Types
    <2>2. desc \in Asked
      BY AskedFacts
    <2>3. CASE p # Missing /\ NothingNew(desc, p) /\ desc.value # p.value
      BY <2>1, <2>3 DEF DefinitionConforms
    <2>4. CASE ~(p # Missing /\ NothingNew(desc, p) /\ desc.value # p.value)
      <3>1. /\ ValidateAndApply(e, desc, p).ok <=> Ecma!Compatible(e, desc, Visible(p))
            /\ Visible(ValidateAndApply(e, desc, p).property) =
                 IF ValidateAndApply(e, desc, p).ok THEN Ecma!Defined(desc, Visible(p)) ELSE Visible(p)
        BY <2>2, <2>4, DefinitionSound
      <3>2. ValidateAndApply(e, desc, p).ok \in BOOLEAN
        BY <2>2, ValidateStores
      <3>3. Ecma!Compatible(e, desc, Visible(p)) \in BOOLEAN
        BY DEF Ecma!Compatible
      <3>4. ValidateAndApply(e, desc, p).ok = Ecma!Compatible(e, desc, Visible(p))
        BY <3>1, <3>2, <3>3
      <3> QED BY <2>1, <3>1, <3>4, Zenon DEF DefinitionConforms
    <2> QED BY <2>3, <2>4
  <1> QED BY <1>1 DEF DefinitionsConform

(* definitions, and the answers of traps.                                       *)
LEMMA AnswersSound ==
  ASSUME Types
  PROVE  AnswersConform
  <1> SUFFICES ASSUME NEW t \in {Target[x] : x \in Proxies}
               PROVE  /\ \A k \in Keys :
                           /\ \A d \in Reports \cup {Missing} : GetOwnConforms(t, props[t][k], d)
                           /\ \A d \in Definitions : DefineConforms(t, props[t][k], d)
                           /\ LookupsConform(t, props[t][k])
                           /\ \A v \in Values : ValuesConform(t, props[t][k], v)
                      /\ \A keys \in SUBSET Keys : KeysConform(t, keys)
                      /\ \A x \in Objects : PrototypesConform(t, x)
    BY DEF AnswersConform
  <1>1. t \in Ordinary /\ extensible[t] \in BOOLEAN
    BY ObjectsAssumption DEF Types
  <1>2. ASSUME NEW k \in Keys
        PROVE  /\ \A d \in Reports \cup {Missing} : GetOwnConforms(t, props[t][k], d)
               /\ \A d \in Definitions : DefineConforms(t, props[t][k], d)
               /\ LookupsConform(t, props[t][k])
               /\ \A v \in Values : ValuesConform(t, props[t][k], v)
    <2>1. PICK p \in Stored \cup {Missing} : p = props[t][k]
      BY <1>1 DEF Types
    <2>2. \A d \in Reports \cup {Missing} : GetOwnConforms(t, p, d)
      BY <1>1, GetOwnSound
    <2>3. \A d \in Definitions : DefineConforms(t, p, d)
      BY <1>1, DefineSound, AskedFacts
    <2>4. LookupsConform(t, p) /\ \A v \in Values : ValuesConform(t, p, v)
      BY <1>1, LookupsSound
    <2> QED BY <2>1, <2>2, <2>3, <2>4
  <1>3. \A keys \in SUBSET Keys : KeysConform(t, keys)
    BY <1>1, KeysSound
  <1>4. \A x \in Objects : PrototypesConform(t, x)
    <2>1. \A x \in Objects : x # Null
      BY ObjectsAssumption DEF Objects
    <2> QED BY <1>1, <2>1, PrototypesSound
  <1> QED BY <1>2, <1>3, <1>4

\* Definitions are accepted or refused, and answers of traps let through, as
\* ECMAScript says, but for the other zero; a .NET exception escapes only when the
\* trap has revoked its proxy or getPrototypeOf has answered null
\* (ObjectInstance.cs:711-905, ProxyInstance.cs:118-460).
THEOREM DecisionsAlwaysConform == Spec => []DecisionsConform
  <1>1. IInv => DecisionsConform
    BY DefinitionsSound, AnswersSound DEF IInv, DecisionsConform
  <1> QED BY <1>1, Invariant, PTL
=============================================================================
