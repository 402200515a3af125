CONSTANTS
  v1 = v1
  f1 = f1
  f2 = f2
  u1 = u1
  u2 = u2
  script = script
  Val <- OneValue
  Clo <- TwoClosures
  Script = script
  Up <- TwoUpvalues
  Bases <- Moving
  MinCapacity = 3
  MaxStack = 4
  FramesMax = 2
  MaxCaptures = 1
  MaxArity = 1
  Errors = FALSE
SYMMETRY Symmetry
SPECIFICATION Spec
INVARIANTS CapturedReadable
CHECK_DEADLOCK FALSE
