CONSTANTS
  o1 = o1
  o2 = o2
  o3 = o3
  o4 = o4
  o5 = o5
  o6 = o6
  Obj <- SixObjects
  None = None
  Plain = Plain
  MaxText = 2
  MinCapacity = 2
  MaxStack = 3
  Nesting = 2
SYMMETRY Symmetry
SPECIFICATION Spec
INVARIANTS TypeOK NothingDangles EqualStringsAreOne ProtectionEnds
CHECK_DEADLOCK FALSE
