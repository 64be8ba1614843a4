----------------------------- MODULE EcmaObjects -----------------------------
(* What ECMAScript says of definitions and of the answers of proxy traps      *)
(* (sections 10.1.6.3 and 10.5 of the edition the code's comments link to).   *)
(* A property has every field of its kind; a field of a requested descriptor  *)
(* may be absent. Nothing here is translated from the code: the properties of *)
(* ProxyProperties compare the code with it.                                  *)

CONSTANTS Undefined, Absent, Missing

Accessor(d) == d.get # Absent \/ d.set # Absent
Data(d) == d.value # Absent \/ d.writable # Absent
Is(field, v) == field \in {Absent, v}

\* IsCompatiblePropertyDescriptor.
Compatible(extensible, desc, p) ==
  IF p = Missing THEN extensible
  ELSE p.configurable = FALSE =>
    /\ desc.configurable # TRUE
    /\ Is(desc.enumerable, p.enumerable)
    /\ Accessor(desc) => Accessor(p) /\ Is(desc.get, p.get) /\ Is(desc.set, p.set)
    /\ Data(desc) => Data(p)
    /\ Data(desc) /\ p.writable = FALSE => desc.writable # TRUE /\ Is(desc.value, p.value)

\* The property a definition that is compatible leaves behind.
Field(desc, name, default) == IF desc[name] = Absent THEN default ELSE desc[name]
Defined(desc, p) ==
  LET same == p # Missing /\ (Accessor(desc) => Accessor(p)) /\ (Data(desc) => Data(p))
      old(name, default) == IF same THEN p[name] ELSE default
      kept(name) == IF p = Missing THEN FALSE ELSE p[name]
      accessor == IF Accessor(desc) THEN TRUE ELSE same /\ Accessor(p)
  IN [value |-> IF accessor THEN Absent ELSE Field(desc, "value", old("value", Undefined)),
      writable |-> IF accessor THEN Absent ELSE Field(desc, "writable", old("writable", FALSE)),
      get |-> IF accessor THEN Field(desc, "get", old("get", Undefined)) ELSE Absent,
      set |-> IF accessor THEN Field(desc, "set", old("set", Undefined)) ELSE Absent,
      enumerable |-> Field(desc, "enumerable", kept("enumerable")),
      configurable |-> Field(desc, "configurable", kept("configurable"))]

-----------------------------------------------------------------------------
(* When the answer of a trap is accepted: p is the target's property, open    *)
(* says whether the target is extensible.                                     *)

Locked(p) == p # Missing /\ p.configurable = FALSE
Constant(p) == Locked(p) /\ p.writable = FALSE

GetOwnAccepted(open, p, d) ==
  IF d = Missing THEN p = Missing \/ (open /\ ~Locked(p))
  ELSE /\ Compatible(open, d, p)
       /\ d.configurable = FALSE => Locked(p) /\ (d.writable = FALSE => p.writable = FALSE)
DefineAccepted(open, p, desc) ==
  /\ p = Missing => open
  /\ Compatible(open, desc, p)
  /\ desc.configurable = FALSE => Locked(p)
  /\ Locked(p) /\ p.writable = TRUE => desc.writable # FALSE
HasNotAccepted(open, p) == p = Missing \/ (open /\ ~Locked(p))
DeleteAccepted(open, p) == HasNotAccepted(open, p)
GetAccepted(p, v) ==
  /\ Constant(p) => v = p.value
  /\ Locked(p) /\ p.get = Undefined => v = Undefined
SetAccepted(p, v) ==
  /\ Constant(p) => v = p.value
  /\ Locked(p) => p.set # Undefined
OwnKeysAccepted(open, props, keys) ==
  /\ \A k \in DOMAIN props : Locked(props[k]) => k \in keys
  /\ ~open => keys = {k \in DOMAIN props : props[k] # Missing}
PrototypeAccepted(open, proto, answer) == open \/ answer = proto
=============================================================================
