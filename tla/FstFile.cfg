SPECIFICATION Spec
CONSTANTS
  MaxHier = 2
  MaxTime = 2
  MaxBlackouts = 1
  Modes <- DistinctModes
  Usage = {}
INVARIANTS
  TypeOK RecoversCompleted OpensWithHandles AlwaysUnderOneName ClosedFileIsWhole
PROPERTIES
  CloseReturns
CHECK_DEADLOCK FALSE
