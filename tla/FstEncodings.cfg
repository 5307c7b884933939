SPECIFICATION EncodingsSpec
CONSTANTS
  Width = 30
  VarintLimit = 5
  WordBits = 4
  Numbers <- AllNumbers
  TimeLists <- AllTimes
  Texts <- AllTexts
  Tables <- AllTables
  Vectors <- AllVectors
  Chains <- AllChains
  Handles <- AllHandles
  Wide = FALSE
  NamSiz = 3
  AttrSiz = 8
  Vars <- SomeVars
  Supplements <- SomeSups
  Scopes <- SomeScopes
  Attrs <- SomeAttrs
  Comments <- SomeComments
  Stems <- SomeStems
  EnumTables <- SomeTables
  MaxCalls = 3
  ScopeNames <- Names3
  Dot = 46
  MaxDepth = 3
  VersionSize = 4
  DateSize = 3
  WordSize = 2
  DefaultVersion <- Version1
  DefaultDate <- Date1
  HeaderTexts <- HeaderStrings
  TimescaleExps <- Scales
  FileTypes = {1, 3, 4}
  Timezeros <- Zerotimes
  Closings <- EndTimes
  MaxPatches = 3
  N = 4
  a = a
  b = b
  c = c
  Chain = {a, b, c}
  Size <- SmallSize
  NoChain = NoChain
INVARIANTS
  NumbersArrive TextsArrive VectorsAgree ChainsArrive LinesTellApart
  LengthCounted IterationFaithful IterationComplete DeclarationsAgree StemsResolve
  ScopesFollow HeaderReads BlocksStay
  SeekFindsExactly IterationMissesNothing
CHECK_DEADLOCK FALSE
