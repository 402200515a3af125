CONSTANTS
  Identifier = {"x", "y", "z", "f"}
  Word = 10
  Refusals = {"return", "dot", "call"}
  Empty = Empty
  Hole = Hole
  FreeTokens = 3
  Source <- Sources
  NextTokens <- NextInSource
  Alphabet = {"x", "(", ")", "{", "}", ";", ",", ".", ".send", "-", "=", "and", "actor", "else", "for", "fun", "if", "print", "return", "this", "var", "while"}
  Trees <- AllTrees
  MaxReads = 7
SPECIFICATION ExecutionSpec
INVARIANTS BackAtTop CodeIsBalanced RunsAsWritten
PROPERTIES SyntaxExact Terminates
CHECK_DEADLOCK FALSE
