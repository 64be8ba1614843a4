SPECIFICATION Spec
CONSTANTS
  Kinds = {"all", "allSettled", "any", "race"}
  Values = {v, w}
  None = none
  TypeError = typeError
  MaxItems = 3
INVARIANTS TypeOK NothingForgotten IteratorLeft
PROPERTIES ImplementsOutcome
CHECK_DEADLOCK FALSE
