SPECIFICATION Spec
CONSTANTS
  a = a
  b = b
  c = c
  d = d
  Elements <- MCElements
  Key <- MCKey
  None = None
  MaxLen = 6
  Panics = TRUE
INVARIANTS TypeOK HeapOrder
PROPERTY PriorityQueueSpec
