CONSTANTS
  N = 3
  Params <- MCParams
  Null = Null
  MaxFaults = 2
SPECIFICATION LifecycleSpec
INVARIANTS StructsDefinedFirst CallsResolve ParentInitialisedByOne MakefileLast ExitTellsOutcome InstanceOfAncestors AncestryInitialised FinalisedToTheRoot
CHECK_DEADLOCK FALSE
