CONSTANTS
  N = 4
  Undeclared = 0
  MaxDepth = 5
  MaxImplements = 2
  MaxStatements = 4
SPECIFICATION MCSpec
INVARIANTS CallsPending CompleteWhenUnlinked CopiedOnce
PROPERTIES Resolves
CHECK_DEADLOCK FALSE
