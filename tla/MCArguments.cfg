SPECIFICATION Spec
CONSTANTS
  Objects = {o1, o2}
  Arrays = {a1, a2}
  PoolSize = 1
  MaxCalls = 4
SYMMETRY Symmetric
INVARIANTS TypeOK CallsApart OwnArguments
CHECK_DEADLOCK FALSE
