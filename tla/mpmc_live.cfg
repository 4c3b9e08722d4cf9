SPECIFICATION LiveSpec
CONSTANTS
  Producers = {p1, p2}
  Consumers = {c1, c2}
  Values = {v1}
  Nothing = Nothing
  Cap = 2
  Modulus = 8
  Start = 7
  MaxCalls = 3
  StaleLoads = FALSE
PROPERTIES CallsReturn
CHECK_DEADLOCK FALSE
