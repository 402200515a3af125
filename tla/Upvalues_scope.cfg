CONSTANTS
  v1 = v1
  f1 = f1
  f2 = f2
  u1 = u1
  u2 = u2
  script = script
  Val <- OneValue
  Clo <- TwoClosures
  Script = script
  Up <- TwoUpvalues
  Bases <- InPlace
  MinCapacity = 3
  MaxStack = 5
  FramesMax = 3
  MaxCaptures = 1
  MaxArity = 1
  Errors = FALSE
SYMMETRY Symmetry
SPECIFICATION Spec
INVARIANTS OpenComplete NothingLeftOver CapturedReadable
PROPERTIES ImplementsScope
CHECK_DEADLOCK FALSE
