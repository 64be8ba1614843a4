SPECIFICATION Spec
CONSTANTS
  a = a
  b = b
  c = c
  d = d
  Modules = {a, b, c, d}
  Graphs <- AllGraphs
  Values = {0}
  Unconvertible = symbol
  NoModule = noModule
  MaxCalls = 1
INVARIANT OneCycleRoot
CHECK_DEADLOCK FALSE
