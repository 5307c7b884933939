SPECIFICATION Spec
CONSTANTS
  MaxHandle = 2
  MaxTime = 6
  Files <- OneFile
  Limits <- Ranges
  Unlimited = Unlimited
  NoValue = NoValue
  Value <- Values
  Usage = {"rewind"}
INVARIANTS
  AnswerIsTheValue
