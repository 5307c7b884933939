SPECIFICATION ValueSpec
CONSTANTS
  Width = 30
  VarintLimit = 5
  WordBits = 4
  Numbers <- AllNumbers
  TimeLists <- AllTimes
  Texts <- AllTexts
  Vectors <- AllVectors
  Chains <- AllChains
  Tables <- AllTables
  Handles <- AllHandles
  Wide = TRUE
INVARIANTS
  WideVectorsAgree
