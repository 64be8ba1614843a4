------------------------- MODULE PropertyDescriptors -------------------------
(* Property descriptors and the validation of a new definition               *)
(* (Runtime/Descriptors/PropertyDescriptor.cs and ObjectInstance's            *)
(* ValidateAndApplyPropertyDescriptor, Native/Object/ObjectInstance.cs).      *)
(*                                                                            *)
(* One class holds what a script asks for and what an object stores: a flag   *)
(* or a field may be absent in both. A flag that is absent reads as false.    *)

CONSTANTS
  Values, Undefined,
  Zero, MinusZero,   \* two values that == does not tell apart
  Functions,         \* getters and setters
  Absent,            \* null, or a flag without its ...Set bit
  Missing            \* PropertyDescriptor.Undefined: no property at all

ASSUME ValuesAssumption == {Undefined, Zero, MinusZero} \subseteq Values
ASSUME FunctionsAssumption == Functions \cap Values = {}
ASSUME AbsentAssumption == Absent \notin Values \cup Functions \cup BOOLEAN

Callables == Functions \cup {Undefined}
Flags == BOOLEAN \cup {Absent}
Descriptors == [value : Values \cup {Absent}, get : Callables \cup {Absent}, set : Callables \cup {Absent},
                writable : Flags, enumerable : Flags, configurable : Flags]
ASSUME MissingAssumption == Missing \notin Descriptors

Empty == [value |-> Absent, get |-> Absent, set |-> Absent,
          writable |-> Absent, enumerable |-> Absent, configurable |-> Absent]

On(flag) == flag = TRUE
IsAccessorDescriptor(d) == d.get # Absent \/ d.set # Absent
IsDataDescriptor(d) == d.writable # Absent \/ d.value # Absent
IsGenericDescriptor(d) == ~IsDataDescriptor(d) /\ ~IsAccessorDescriptor(d)

OrElse(field, default) == IF field = Absent THEN default ELSE field

\* The data property CreateDataProperty defines.
Plain(v) == [Empty EXCEPT !.value = v, !.writable = TRUE, !.enumerable = TRUE, !.configurable = TRUE]
OnlyValue(v) == [Empty EXCEPT !.value = v]

-----------------------------------------------------------------------------
(* ValidateAndApplyPropertyDescriptor *)

NewUndefaulted(desc) ==
  IF IsAccessorDescriptor(desc)
  THEN [desc EXCEPT !.enumerable = On(desc.enumerable), !.configurable = On(desc.configurable)]
  ELSE desc

\* What an object stores for a new property. Flags keep being absent unless
\* all or none of them are on.
NewProperty(desc) ==
  LET value == OrElse(desc.value, Undefined)
  IN IF IsAccessorDescriptor(desc)
     THEN [desc EXCEPT !.enumerable = On(desc.enumerable), !.configurable = On(desc.configurable)]
     ELSE IF \E flag \in {"writable", "enumerable", "configurable"} : On(desc[flag])
     THEN [desc EXCEPT !.value = value]
     ELSE [Empty EXCEPT !.value = value, !.writable = FALSE, !.enumerable = FALSE, !.configurable = FALSE]

\* Values are compared with ==, where zero equals minus zero.
Equal(x, y) == x = y \/ {x, y} = {Zero, MinusZero}

NothingNew(desc, current) ==
  /\ Equal(desc.value, current.value)
  /\ \A field \in {"get", "set", "writable", "enumerable", "configurable"} : desc[field] = current[field]

OtherKind(desc, current) ==
  ~IsGenericDescriptor(desc) /\ IsDataDescriptor(current) # IsDataDescriptor(desc)

RefusedForValue(desc, current) ==
  \/ On(desc.configurable)
  \/ desc.enumerable # Absent /\ On(desc.enumerable) # On(current.enumerable)
  \/ OtherKind(desc, current)
  \/ /\ IsDataDescriptor(current) /\ IsDataDescriptor(desc) /\ ~On(current.writable)
     /\ desc.value # Absent /\ desc.value # current.value
  \/ /\ IsAccessorDescriptor(current) /\ IsAccessorDescriptor(desc)
     /\ \E f \in {"get", "set"} : desc[f] # Absent /\ desc[f] # OrElse(current[f], Undefined)

\* The reasons to refuse a change of a property that is not configurable.
Refused(desc, current) ==
  \/ On(desc.configurable)
  \/ desc.enumerable # Absent /\ On(desc.enumerable) # On(current.enumerable)
  \/ OtherKind(desc, current)
  \/ /\ IsDataDescriptor(current) /\ IsDataDescriptor(desc) /\ ~On(current.writable)
     /\ On(desc.writable) \/ (desc.value # Absent /\ desc.value # current.value)
  \/ /\ IsAccessorDescriptor(current) /\ IsAccessorDescriptor(desc)
     /\ \E f \in {"get", "set"} : desc[f] # Absent /\ desc[f] # OrElse(current[f], Undefined)

\* The stored property as a property of the other kind, its flags kept.
Converted(current) ==
  LET bare == [Empty EXCEPT !.enumerable = current.enumerable, !.configurable = current.configurable]
  IN IF IsDataDescriptor(current) THEN [bare EXCEPT !.get = Undefined, !.set = Undefined]
     ELSE [bare EXCEPT !.value = Undefined]

Applied(desc, current) ==
  LET base == IF OtherKind(desc, current) THEN Converted(current) ELSE current
  IN [value |-> OrElse(desc.value, base.value), get |-> OrElse(desc.get, base.get),
      set |-> OrElse(desc.set, base.set), writable |-> OrElse(desc.writable, base.writable),
      enumerable |-> OrElse(desc.enumerable, base.enumerable),
      configurable |-> OrElse(desc.configurable, base.configurable)]

\* Whether the definition is accepted, and the property afterwards.
ValidateAndApply(extensible, desc, current) ==
  IF current = Missing
  THEN [ok |-> extensible, property |-> IF extensible THEN NewProperty(desc) ELSE Missing]
  ELSE IF current = Empty \/ NothingNew(desc, current) THEN [ok |-> TRUE, property |-> current]
  ELSE IF ~On(current.configurable) /\ Refused(desc, current) THEN [ok |-> FALSE, property |-> current]
  ELSE [ok |-> TRUE, property |-> Applied(desc, current)]

\* ProxyInstance.CompletePropertyDescriptor.
Completed(desc) ==
  LET flags == [desc EXCEPT !.enumerable = On(desc.enumerable), !.configurable = On(desc.configurable)]
  IN IF IsAccessorDescriptor(desc)
     THEN [flags EXCEPT !.get = OrElse(desc.get, Undefined), !.set = OrElse(desc.set, Undefined)]
     ELSE [flags EXCEPT !.value = OrElse(desc.value, Undefined), !.writable = On(desc.writable)]
=============================================================================
