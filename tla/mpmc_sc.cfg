SPECIFICATION Spec
CONSTANTS
  Producers = {p1, p2}
  Consumers = {c1, c2}
  Values = {v1, v2}
  Nothing = Nothing
  Cap = 2
  Modulus = 8
  Start = 7
  MaxCalls = 3
  StaleLoads = FALSE
INVARIANTS RefusalIsHonest TypeOK
PROPERTIES DropExact FifoSpec RingSpec
SYMMETRY Symmetry
CHECK_DEADLOCK FALSE
