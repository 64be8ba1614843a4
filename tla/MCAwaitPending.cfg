SPECIFICATION Spec
CONSTANTS
  NumPromises = 2
  Plain = {v}
  Objects = {o}
  SelfResolution = selfResolution
  NoValue = noValue
  MaxOps = 4
INVARIANT AwaitUnwrapsSettled
CHECK_DEADLOCK FALSE
