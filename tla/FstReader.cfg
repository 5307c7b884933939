SPECIFICATION Spec
CONSTANTS
  MaxHandle = 2
  MaxTime = 6
  Files <- SmallFiles
  Limits <- Ranges
  Unlimited = Unlimited
  NoValue = NoValue
  Value <- Values
  Usage = {"boundary"}
INVARIANTS
  TypeOK AnswerIsTheValue IterationDecodes IterationReplays
CHECK_DEADLOCK FALSE
