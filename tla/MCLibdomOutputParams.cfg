CONSTANTS
  N = 2
  Params <- MCParams
  Null = Null
SPECIFICATION Spec
INVARIANTS ParentFullyInitialised
CHECK_DEADLOCK FALSE
