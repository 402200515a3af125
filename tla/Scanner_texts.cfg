CONSTANTS
  MaxPieces = 4
  Letter <- SmallLetters
  Digit <- OneDigit
  Sources <- AllTexts
SPECIFICATION Spec
INVARIANTS FollowsLexicon
PROPERTIES ReachesEnd
CHECK_DEADLOCK FALSE
