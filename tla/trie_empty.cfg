SPECIFICATION TrieSpec
CONSTANTS
  Bytes = {1, 4}
  Keys <- MCKeys
  Prefixes <- MCPrefixes
  Values = {v}
  None = None
  Names = {n1, n2, n3, n4, n5, n6}
INVARIANT EmptyWithoutKeys
VIEW MapShape
