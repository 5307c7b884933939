SPECIFICATION HierSpec
CONSTANTS
  Width = 30
  VarintLimit = 5
  NamSiz = 3
  AttrSiz = 8
  Vars <- FirrtlVars
  Supplements <- SomeSups
  Scopes <- SomeScopes
  Attrs <- SomeAttrs
  Comments <- SomeComments
  Stems <- SomeStems
  EnumTables <- SomeTables
  MaxCalls = 2
INVARIANTS
  IterationComplete
CHECK_DEADLOCK FALSE
