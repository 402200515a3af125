CONSTANTS
  clock = clock
  one = one
  two = two
  x = x
  Name = {clock, x}
  Value = {one, two}
  Unit = Unit
  Capacity = 4
  Natives <- OneNative
SPECIFICATION GlobalsSpec
INVARIANTS TypeOK
PROPERTIES ImplementsVariables
CHECK_DEADLOCK FALSE
