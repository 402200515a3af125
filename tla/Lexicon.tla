------------------------------- MODULE Lexicon -------------------------------
(***************************************************************************)
(* The lexical grammar as classes of texts: the next lexeme is the longest *)
(* one that belongs to a class, and its kind is the kind of the class.     *)
(* Blanks and comments are lexemes that give no token.                     *)
(***************************************************************************)
EXTENDS Integers, Sequences, FiniteSetsExt, TLC

CONSTANTS Letter, Digit

\* The characters with a meaning of their own, "end" being the one that ends a text.
Special ==
  { "end", "blank", "newline", "quote", "(", ")", "{", "}", ";", ",", "-", "+", "/", "*", ".",
    "!", "=", "<", ">" }

\* is_alpha and is_digit have no character in common, and none of those.
ASSUME CharactersDiffer == Letter \intersect Digit = {} /\ (Letter \union Digit) \intersect Special = {}

\* The reserved words.
Reserved ==
  { <<"a", "c", "t", "o", "r">>, <<"a", "n", "d">>, <<"e", "l", "s", "e">>,
    <<"f", "a", "l", "s", "e">>, <<"f", "o", "r">>, <<"f", "u", "n">>, <<"i", "f">>,
    <<"n", "i", "l">>, <<"o", "r">>, <<"p", "r", "i", "n", "t">>,
    <<"r", "e", "t", "u", "r", "n">>, <<"s", "e", "n", "d">>, <<"t", "h", "i", "s">>,
    <<"t", "r", "u", "e">>, <<"w", "h", "i", "l", "e">> }

\* The declarators open every word that begins with them: `value` is `val`.
Declarators == { <<"v", "a", "l">>, <<"v", "a", "r">> }

Symbols ==
  { <<"(">>, <<")">>, <<"{">>, <<"}">>, <<";">>, <<",">>, <<"-">>, <<"+">>, <<"/">>, <<"*">>,
    <<".">>, <<".", "s", "e", "n", "d">>, <<"!">>, <<"!", "=">>, <<"=">>, <<"=", "=">>,
    <<"<">>, <<"<", "=">>, <<">">>, <<">", "=">> }

All(w, set) == \A i \in 1..Len(w) : w[i] \in set
Closes(w, i) == i < Len(w) /\ w[i] = "*" /\ w[i + 1] = "/"

Word(w) == w # <<>> /\ w[1] \in Letter /\ All(w, Letter \union Digit)
Number(w) ==
  \/ w # <<>> /\ All(w, Digit)
  \/ \E dot \in 2..(Len(w) - 1) :
       w[dot] = "." /\ \A i \in 1..Len(w) : i # dot => w[i] \in Digit
Quoted(w) ==
  Len(w) >= 2 /\ \A i \in 1..Len(w) : w[i] = "quote" <=> i \in {1, Len(w)}
LineComment(w) ==
  Len(w) >= 2 /\ w[1] = "/" /\ w[2] = "/" /\ \A i \in 1..Len(w) : w[i] # "newline"
\* The star that opens a block comment may also close it.
BlockComment(w, atEnd) ==
  /\ Len(w) >= 2 /\ w[1] = "/" /\ w[2] = "*"
  /\ \A i \in 2..(Len(w) - 2) : ~Closes(w, i)
  /\ atEnd \/ (Len(w) > 2 /\ Closes(w, Len(w) - 1))

\* What a word or a symbol is called is its own text; `.send` and `send` are one kind.
KindOf(w) ==
  IF Word(w)
  THEN IF \E k \in Declarators : Len(w) >= 3 /\ SubSeq(w, 1, 3) = k THEN SubSeq(w, 1, 3)
       ELSE IF w \in Reserved THEN w ELSE "IDENTIFIER"
  ELSE IF Number(w) THEN "NUMBER"
  ELSE IF Quoted(w) THEN "STRING"
  ELSE IF w = <<".", "s", "e", "n", "d">> THEN <<"s", "e", "n", "d">> ELSE w

Blank(w, atEnd) == w \in {<<"blank">>, <<"newline">>} \/ LineComment(w) \/ BlockComment(w, atEnd)
Lexeme(w, atEnd) == Word(w) \/ Number(w) \/ Quoted(w) \/ w \in Symbols \/ Blank(w, atEnd)

Ends(s, p) == {q \in p..Len(s) : Lexeme(SubSeq(s, p, q), q = Len(s))}
Newlines(s, p, q) == Cardinality({i \in p..q : s[i] = "newline"})

Token(kind, from, to, line) == [kind |-> kind, from |-> from, to |-> to, line |-> line]

\* A reading of a text: the place it has come to, the line there, the tokens before it.
Start == [at |-> 1, line |-> 1, tokens |-> <<>>]

\* One lexeme further.  A quote that nothing closes takes the rest of the text, and any
\* other character that begins no lexeme one place.
Further(s, reading) ==
  LET p == reading.at
      known == Ends(s, p) # {}
      end == IF known THEN Max(Ends(s, p)) ELSE IF s[p] = "quote" THEN Len(s) ELSE p
      w == SubSeq(s, p, end)
      line == reading.line + IF BlockComment(w, TRUE) THEN 0 ELSE Newlines(s, p, end)
      from == IF Len(w) = 5 /\ w \in Symbols THEN p + 1 ELSE p
      token == Token(IF known THEN KindOf(w) ELSE "ERROR", from, end + 1, line)
  IN  [at |-> end + 1, line |-> line,
       tokens |-> IF known /\ Blank(w, end = Len(s)) THEN reading.tokens
                  ELSE Append(reading.tokens, token)]

\* The readings of s, lexeme by lexeme: a text has no more of them than characters.
Readings(s) ==
  LET read[n \in 0..Len(s)] ==
        IF n = 0 THEN Start
        ELSE LET before == read[n - 1]
             IN  IF before.at > Len(s) THEN before ELSE Further(s, before)
  IN  read

Tokens(s) ==
  LET all == Readings(s)[Len(s)] IN Append(all.tokens, Token("EOF", all.at, all.at, all.line))

=============================================================================
