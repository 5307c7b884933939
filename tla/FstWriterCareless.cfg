SPECIFICATION Spec
CONSTANTS
  MaxHandle = 2
  MaxSigs = 2
  VarLen = {2}
  vx = vx
  v1 = v1
  v0 = v0
  Value = {vx, v1}
  Unset = vx
  MaxTime = 3
  MaxCalls = 5
  BreakSize = 3
  Usage <- Careless
  NoSection = NoSection
INVARIANTS
  SectionsTile
CHECK_DEADLOCK FALSE
