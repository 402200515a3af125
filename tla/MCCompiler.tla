----------------------------- MODULE MCCompiler -----------------------------
(***************************************************************************)
(* The compiler on sources with holes: a hole is any token of the          *)
(* alphabet, or one after a bad lexeme, or the end of the source.          *)
(***************************************************************************)
EXTENDS Compiler

CONSTANTS
  Alphabet,    \* the tokens that stand in a hole
  Hole,
  FreeTokens   \* bound: tokens of a source that is all holes

\* What the scanner may find.
NextInSource(s) ==
  LET end == [token |-> "eof", source |-> <<>>, bad |-> FALSE]
      found(t, bad) == [token |-> t, source |-> Tail(s), bad |-> bad]
  IN  IF s = <<>> THEN {end}
      ELSE IF Head(s) # Hole THEN {found(Head(s), FALSE)}
      ELSE {end} \union {found(t, bad) : t \in Alphabet, bad \in BOOLEAN}

\* One program for each production of the grammar and each context that matters.
Programs ==
  { <<"fun", "x", "(", "x", ",", "x", ")", "{", "return", "x", "=", "x", ";", "}">>,
    <<"actor", "x", "{", "x", "(", ")", "{", "this", ".", "x", "=", "-", "x", ".", "x", ";", "}", "}">>,
    <<"for", "(", "var", "x", "=", "x", ";", "x", ";", "x", ")", "{", "x", "(", "x", ",", "x", ")", ";", "}">>,
    <<"if", "(", "x", "and", "x", ")", "print", "x", ";", "else", "while", "(", "x", ")", "x", ";">>,
    <<"{", "var", "x", ";", "{", "x", "=", "(", "x", ")", ";", "}", "}">>,
    <<"x", ".send", "(", "x", ",", "x", ")", ";", "for", "(", ";", ";", ")", "{", "}">>,
    <<"fun", "x", "(", ")", "{", "actor", "x", "{", "}", "return", ";", "}">> }

\* Each program with one hole more, one hole for a token, or one token less, and
\* every short source.
Sources ==
  {[i \in 1..FreeTokens |-> Hole]}
  \union UNION {{InsertAt(p, i, Hole) : i \in 1..(Len(p) + 1)} : p \in Programs}
  \union UNION {{ReplaceAt(p, i, Hole) : i \in DOMAIN p} : p \in Programs}
  \union UNION {{RemoveAt(p, i) : i \in DOMAIN p} : p \in Programs}

=============================================================================
