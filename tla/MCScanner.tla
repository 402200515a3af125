----------------------------- MODULE MCScanner ------------------------------
(* Texts for the scanner: up to MaxPieces pieces one after the other, the  *)
(* pieces being characters, words and beginnings of words.                 *)
EXTENDS Scanner

CONSTANT MaxPieces   \* bound: pieces of a text

SmallLetters == {"a", "c", "d", "e", "f", "h", "i", "l", "n", "o", "p", "r", "s", "t", "u", "v", "w"}
OneDigit == {"7"}

Pieces ==
  { <<"/">>, <<"*">>, <<"newline">>, <<"blank">>, <<"quote">>, <<".">>, <<"7">>, <<"=">>, <<"@">>,
    <<"s", "e", "n", "d">>, <<"e">>, <<"v", "a", "l">>, <<"v", "a">> }

\* The words alone, whole, cut short, and with a letter more.
Words ==
  LET w == Reserved \union Declarators
  IN  w \union {Append(k, "e") : k \in w} \union {SubSeq(k, 1, Len(k) - 1) : k \in w}

RECURSIVE Texts(_)
Texts(n) == IF n = 0 THEN {<<>>}
            ELSE LET shorter == Texts(n - 1) IN shorter \union {t \o p : t \in shorter, p \in Pieces}

AllTexts == Texts(MaxPieces) \union Words

=============================================================================
