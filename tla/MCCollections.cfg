SPECIFICATION Spec
CONSTANTS
  Keys = {k1, k2, nan}
  NaN = nan
  Iterators = {it1, it2}
  MaxOps = 5
INVARIANTS TypeOK InStep
PROPERTIES ImplementsLiveIteration
CHECK_DEADLOCK FALSE
