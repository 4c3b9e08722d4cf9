SPECIFICATION LayersSpec
CONSTANTS
  Keys <- MCKeys
  Prefixes <- MCPrefixes
  Values = {v, w}
  None = None
  Bytes = {0, 1, 4, 7}
  WordBits = 2
  TAG_MAX = 1
  Junk = Junk
  INLINE_CAP = 1
  Names = {n1, n2, n3, n4, n5, n6}
  Texts <- MCTexts
  MaxText = 2
  Uses <- MCUses
  Buffers <- MCBuffers
INVARIANTS MapTypeOK Traversed
INVARIANTS TypeOK FiledInOrder RoomForAll OwnedOnce NothingLeaks LcpExact
PROPERTIES MapSpec InsertStaysCompressed RemovalLeavesOne ForestSpec
SYMMETRY Symmetry
VIEW Shape
