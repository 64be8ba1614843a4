SPECIFICATION Spec
CONSTANTS
  Labels = {L, M}
  None = none
  MaxDepth = 5
  MaxLeft = 2
INVARIANTS TypeOK ScopeRestored
PROPERTIES JumpsArrive FinalizersRun IteratorsClosed
CHECK_DEADLOCK FALSE
