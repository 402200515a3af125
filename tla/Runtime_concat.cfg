CONSTANTS
  o1 = o1
  o2 = o2
  o3 = o3
  o4 = o4
  o5 = o5
  o6 = o6
  Obj <- FiveObjects
  None = None
  Plain = Plain
  MaxText = 2
  MinCapacity = 2
  MaxStack = 3
  Nesting = 2
SYMMETRY Symmetry
SPECIFICATION Spec
INVARIANTS ConcatReadsLiveStrings
CHECK_DEADLOCK FALSE
