SPECIFICATION Spec
CONSTANTS
  Kinds = {"any"}
  Values = {v, w}
  None = none
  TypeError = typeError
  MaxItems = 3
INVARIANTS AnyDecides
CHECK_DEADLOCK FALSE
