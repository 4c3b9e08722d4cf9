SPECIFICATION FairSpec
CONSTANTS
  p1 = p1
  p2 = p2
  c1 = c1
  c2 = c2
  Producers = {p1, p2}
  Consumers = {c1, c2}
  Cap = 2
  StaleLoads = TRUE
  SpinTries = 1
  Setups <- SoundSetups
INVARIANTS TypeOK NoThreadStranded
PROPERTIES AllReturn
CHECK_DEADLOCK FALSE
