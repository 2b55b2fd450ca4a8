CONSTANTS
  MaxArguments = 2
  MaxPassed = 3
SPECIFICATION CallSpec
INVARIANTS BodySeesDeclared RefusedForCause ReferencesReleased AccessorYields MemberOrDefault
CHECK_DEADLOCK FALSE
