CONSTANTS
  x = x
  y = y
  Name <- TwoNames
  This = This
  NoName = NoName
  IndexRange = 7
  MaxLocals = 4
  MaxNesting = 3
  MaxBlocks = 2
SYMMETRY Symmetry
SPECIFICATION Spec
INVARIANTS TypeOK NamesMeanDeclarations UpvaluesAreCaptured LocalsMatchStack
CHECK_DEADLOCK FALSE
