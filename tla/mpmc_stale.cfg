SPECIFICATION Spec
CONSTANTS
  Producers = {p1, p2}
  Consumers = {c1, c2}
  Values = {v1}
  Nothing = Nothing
  Cap = 2
  Modulus = 16
  Start = 15
  MaxCalls = 4
  StaleLoads = TRUE
INVARIANTS NoDataRace SlotsAlternate
SYMMETRY Symmetry
CHECK_DEADLOCK FALSE
