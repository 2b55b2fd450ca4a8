CONSTANTS
  Outputs <- MCOutputs
  Absent = Absent
  Chunk = 2
  MaxRuns = 3
  MaxFaults = 2
SPECIFICATION Spec
INVARIANTS UpToDateUnlessPrefix
PROPERTIES UntouchedWhenSame ReplacedWhole
CHECK_DEADLOCK FALSE
