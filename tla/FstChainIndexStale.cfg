SPECIFICATION Spec
CONSTANTS
  N = 3
  a = a
  b = b
  c = c
  Chain = {a, b, c}
  Size <- SmallSize
  NoChain = NoChain
INVARIANTS
  IterationFindsExactly
