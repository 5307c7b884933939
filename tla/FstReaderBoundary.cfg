SPECIFICATION Spec
CONSTANTS
  MaxHandle = 2
  MaxTime = 6
  Files <- OneFile
  Limits <- Ranges
  Unlimited = Unlimited
  NoValue = NoValue
  Value <- Values
  Usage = {"boundary"}
INVARIANTS
  ScanIsSuccessful
CHECK_DEADLOCK FALSE
