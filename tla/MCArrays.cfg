SPECIFICATION Spec
CONSTANTS
  Numbers = {1, 2}
  Undefined = undefined
  Inherited = 3
  NoElement = noElement
  NoCall = noCall
  MaxDense = 5
  Gap = 2
  MaxLength = 5
  MaxOps = 3
INVARIANTS TypeOK FastAccessSound StorageConforms MethodsMean
PROPERTIES NothingSpoiled
CHECK_DEADLOCK FALSE
