SPECIFICATION Spec
CONSTANTS
  NumPromises = 3
  Plain = {v}
  Objects = {o}
  SelfResolution = selfResolution
  NoValue = noValue
  MaxOps = 4
INVARIANTS TypeOK NoDoubleSettle RejectionPropagates PendingHasOwner OneSettler
PROPERTIES ImplementsLifecycle DrainCompletes
CHECK_DEADLOCK FALSE
