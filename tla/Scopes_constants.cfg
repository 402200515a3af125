CONSTANTS
  x = x
  y = y
  Name <- TwoNames
  This = This
  NoName = NoName
  IndexRange = 8
  MaxLocals = 3
  MaxNesting = 3
  MaxBlocks = 2
SYMMETRY Symmetry
SPECIFICATION Spec
INVARIANTS ConstantsAreKept
CHECK_DEADLOCK FALSE
