SPECIFICATION Spec
CONSTANTS
  Cap = 4
  Modulus = 8
  Values = {v1, v2}
  Nothing = Nothing
  StaleLoads = TRUE
INVARIANTS TypeOK NoDataRace SlotsAlternate RefusalIsHonest
PROPERTIES DropExact FifoSpec RingSpec
CHECK_DEADLOCK FALSE
SYMMETRY Symmetry
