SPECIFICATION Spec
CONSTANTS
  Producers = {p1}
  Consumers = {c1}
  Values = {v1}
  Nothing = Nothing
  Cap = 1
  Modulus = 8
  Start = 0
  MaxCalls = 3
  StaleLoads = FALSE
INVARIANTS UnreadIsRefused
CHECK_DEADLOCK FALSE
