SPECIFICATION Spec
CONSTANTS
  NR_THREAD = 2
  MODULES_PER_TASK = 2
  MaxModules = 5
  Apart <- Either
  Texts <- Circuits
INVARIANTS
  TypeOK TreeIsText NobodyWaits NeverAborts
PROPERTIES
  Terminates
CHECK_DEADLOCK FALSE
