CONSTANTS
  Outputs <- MCPrefix
  Absent = Absent
  Chunk = 2
  MaxRuns = 2
  MaxFaults = 0
SPECIFICATION Spec
INVARIANTS UpToDate
CHECK_DEADLOCK FALSE
