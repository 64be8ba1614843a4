SPECIFICATION Spec
CONSTANTS
  a = a
  b = b
  c = c
  d = d
  Modules = {a, b, c, d}
  Graphs <- AllGraphs
  Values <- Completions
  Unconvertible = symbol
  NoModule = noModule
  MaxCalls = 3
INVARIANTS TypeOK SearchesSound BlameReaches
PROPERTIES ImportDone ImplementsOrder ImportsEnd
CHECK_DEADLOCK FALSE
