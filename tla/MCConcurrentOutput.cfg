CONSTANTS
  Runs = {p1, p2, p3}
  Outputs <- MCOutputs
  Absent = Absent
  Chunk = 2
SYMMETRY Symmetry
SPECIFICATION Spec
INVARIANTS NeverTorn NoTmpLeft
CHECK_DEADLOCK FALSE
