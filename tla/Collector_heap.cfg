CONSTANTS
  a1 = a1
  a2 = a2
  s1 = s1
  Obj <- ThreeObjects
  Str <- OneString
  StressGC = FALSE
SPECIFICATION FairSpec
INVARIANTS TypeOK HeapSound TriColour MarksClear ExactCollection WeakTable
PROPERTIES InternedStays ImplementsHeap Terminates
CHECK_DEADLOCK FALSE
