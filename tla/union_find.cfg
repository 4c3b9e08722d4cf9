SPECIFICATION FairSpec
CONSTANT MaxLen = 5
INVARIANTS TypeOK NoCycle FindsOwnRoot SizesExact ShallowTrees
PROPERTIES PartitionSpec CallsReturn
