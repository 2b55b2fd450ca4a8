CONSTANTS
  N = 3
  Names = {a, b, c}
  Null = Null
SPECIFICATION FairSpec
INVARIANTS ParentsFirst SortedRefcountExact
PROPERTIES ImplementsEntryOrder
CHECK_DEADLOCK FALSE
