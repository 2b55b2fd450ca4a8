CONSTANTS
  Names = {item, namedItem, length}
  Null = Null
  Args <- MCArgs
  MaxOps = 4
SPECIFICATION MCSpec
INVARIANTS EntriesAreNames OverloadsKept NamelessInFront
CHECK_DEADLOCK FALSE
