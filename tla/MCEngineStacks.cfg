SPECIFICATION Spec
CONSTANTS
  ScriptFunctions = {f, g}
  StrictFunctions = {f}
  HostFunctions = {h}
  NoFunction = noFunction
  MaxRecursionDepth = 1
  MaxStatements = 1
  MaxOps = 5
INVARIANTS TypeOK StacksMatch StrictMode
CHECK_DEADLOCK FALSE
