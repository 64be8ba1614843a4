SPECIFICATION Spec
CONSTANTS
  o1 = o1
  o2 = o2
  proxy = proxy
  getter = getter
  key = key
  zero = zero
  minusZero = minusZero
  absent = absent
  Values = {zero, minusZero, undefined}
  Undefined = undefined
  Zero = zero
  MinusZero = minusZero
  Functions = {getter}
  Absent = absent
  Missing = missing
  Ordinary = {o1, o2}
  Proxies = {proxy}
  Null = null
  Target <- Targets
  Keys = {key}
  RevokeKey = revoke
  NoKey = noKey
  Definitions <- SomeDefinitions
  Reports <- SomeReports
  MaxRequests = 3
  MaxDepth = 2
INVARIANTS TypeOK ObservationsHold DecisionsConform
PROPERTIES AnswersConsistent
CHECK_DEADLOCK FALSE
