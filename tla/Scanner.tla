------------------------------- MODULE Scanner -------------------------------
(***************************************************************************)
(* The scanner of scanner.c, called by the parser until it gives TOKEN_EOF.*)
(* A step is one turn of skip_whitespace's loop or the rest of a call of   *)
(* scan_token.  A character is a string; "blank", "newline" and "quote"    *)
(* stand for those; positions count from 1, and the text ends with "end".  *)
(***************************************************************************)
EXTENDS Lexicon

CONSTANT Sources   \* the texts that are scanned

\* A text is a string of C: characters, of which none is the one that ends it.
ASSUME SourcesAreTexts == Sources \subseteq Seq(STRING \ {"end"})

VARIABLES
  source,
  current,  \* scanner.current
  line,     \* scanner.line
  tokens    \* the tokens given so far; the last one's start is scanner.start

vars == <<source, current, line, tokens>>

Init == source \in Sources /\ current = 1 /\ line = 1 /\ tokens = <<>>

At(p) == IF p \in 1..Len(source) THEN source[p] ELSE "end"
Peek == At(current)
IsAtEnd == Peek = "end"
PeekNext == IF IsAtEnd THEN "end" ELSE At(current + 1)

\* Where a loop stops that goes on until it meets one of the places, or the end.
Until(places) == Min(places \union {Len(source) + 1})
After(p) == p..Len(source)

Ended == tokens # <<>> /\ tokens[Len(tokens)].kind = "EOF"

-----------------------------------------------------------------------------
(***************************************************************************)
(* skip_whitespace.                                                        *)
(***************************************************************************)

SkipTo(p, lines) == current' = p /\ line' = line + lines /\ UNCHANGED <<source, tokens>>

SkipBlank == ~Ended /\ Peek = "blank" /\ SkipTo(current + 1, 0)
SkipNewline == ~Ended /\ Peek = "newline" /\ SkipTo(current + 1, 1)
SkipLineComment ==
  /\ ~Ended /\ Peek = "/" /\ PeekNext = "/"
  /\ SkipTo(Until({q \in After(current) : At(q) = "newline"}), 0)

\* A slip of skip_whitespace: the two characters are skipped at the end of the text too.
AfterCloseAlways(p) == p + 2

\* The two characters that close a block comment, if the text goes so far.
AfterClose(p) == IF At(p) = "end" THEN p ELSE p + 2

SkipBlockComment ==
  /\ ~Ended /\ Peek = "/" /\ PeekNext = "*"
  /\ SkipTo(AfterClose(Until({q \in After(current) : At(q) = "*" /\ At(q + 1) = "/"})), 0)

Skipping == Peek \in {"blank", "newline"} \/ (Peek = "/" /\ PeekNext \in {"/", "*"})

-----------------------------------------------------------------------------
(***************************************************************************)
(* The keywords, as the trie reads them: a prefix chosen by the switches,  *)
(* the rest that check_keyword compares.  An open entry compares nothing.  *)
(***************************************************************************)

Branch(prefix, rest) == [prefix |-> prefix, rest |-> rest, open |-> FALSE]
OpenBranch(prefix) == [prefix |-> prefix, rest |-> <<>>, open |-> TRUE]

Trie ==
  { Branch(<<"a", "c">>, <<"t", "o", "r">>), Branch(<<"a", "n">>, <<"d">>),
    Branch(<<"e">>, <<"l", "s", "e">>), Branch(<<"f", "a">>, <<"l", "s", "e">>),
    Branch(<<"f", "o">>, <<"r">>), Branch(<<"f", "u">>, <<"n">>), Branch(<<"i">>, <<"f">>),
    Branch(<<"n">>, <<"i", "l">>), Branch(<<"o">>, <<"r">>),
    Branch(<<"p">>, <<"r", "i", "n", "t">>), Branch(<<"r">>, <<"e", "t", "u", "r", "n">>),
    Branch(<<"s">>, <<"e", "n", "d">>), Branch(<<"t", "h">>, <<"i", "s">>),
    Branch(<<"t", "r">>, <<"u", "e">>), OpenBranch(<<"v", "a", "l">>),
    OpenBranch(<<"v", "a", "r">>), Branch(<<"w">>, <<"h", "i", "l", "e">>) }

Begins(prefix, w) == Len(prefix) <= Len(w) /\ SubSeq(w, 1, Len(prefix)) = prefix

\* A slip of check_keyword: the length of the word is not compared.
CheckKeywordPrefix(branch, w) == Begins(branch.prefix \o branch.rest, w)

CheckKeyword(branch, w) == w = branch.prefix \o branch.rest

IdentifierType(w) ==
  IF \E b \in Trie : Begins(b.prefix, w) /\ (b.open \/ CheckKeyword(b, w))
  THEN LET b == CHOOSE b \in Trie : Begins(b.prefix, w) IN b.prefix \o b.rest
  ELSE "IDENTIFIER"

-----------------------------------------------------------------------------
(***************************************************************************)
(* scan_token after the blanks.                                            *)
(***************************************************************************)

\* make_token, or error_token: the token, and where scanner.current is left.
Gives(kind, from, to, lines) ==
  /\ ~Ended /\ ~Skipping
  /\ tokens' = Append(tokens, [kind |-> kind, from |-> from, to |-> to, line |-> line + lines])
  /\ current' = to /\ line' = line + lines /\ UNCHANGED source

ScanEof == IsAtEnd /\ Gives("EOF", current, current, 0)

ScanIdentifier ==
  /\ Peek \in Letter
  /\ LET end == Until({q \in After(current) : At(q) \notin Letter \union Digit})
     IN  Gives(IdentifierType(SubSeq(source, current, end - 1)), current, end, 0)

DigitsFrom(p) == Until({q \in After(p) : At(q) \notin Digit})

\* number: the fraction is taken when a digit follows the dot.
DigitsEnd(p) ==
  LET whole == DigitsFrom(p)
  IN  IF At(whole) = "." /\ At(whole + 1) \in Digit
      THEN DigitsFrom(whole + 1) ELSE whole

ScanNumber == Peek \in Digit /\ Gives("NUMBER", current, DigitsEnd(current), 0)

\* A slip of string: the end of the text is not looked for.
ScanStringClosed ==
  /\ Peek = "quote"
  /\ LET end == Until({q \in After(current + 1) : At(q) = "quote"})
         lines == Cardinality({q \in current..(end - 1) : At(q) = "newline"})
     IN  At(end) = "quote" /\ Gives("STRING", current, end + 1, lines)

ScanString ==
  /\ Peek = "quote"
  /\ LET end == Until({q \in After(current + 1) : At(q) = "quote"})
         lines == Cardinality({q \in current..(end - 1) : At(q) = "newline"})
     IN  \/ At(end) = "end" /\ Gives("ERROR", current, end, lines)
         \/ At(end) = "quote" /\ Gives("STRING", current, end + 1, lines)

Send == <<"s", "e", "n", "d">>

\* is_send: the dot is dropped from the token, and the word may go on after it.
IsSend == \A i \in 1..4 : At(current + i) = Send[i]

ScanDot ==
  /\ Peek = "."
  /\ \/ IsSend /\ Gives(Send, current + 1, current + 5, 0)
     \/ ~IsSend /\ Gives(<<".">>, current, current + 1, 0)

Single == {"(", ")", "{", "}", ";", ",", "-", "+", "/", "*"}
ScanSingle == Peek \in Single /\ Gives(<<Peek>>, current, current + 1, 0)

Double == {"!", "=", "<", ">"}
ScanDouble ==
  /\ Peek \in Double
  /\ \/ PeekNext = "=" /\ Gives(<<Peek, "=">>, current, current + 2, 0)
     \/ PeekNext # "=" /\ Gives(<<Peek>>, current, current + 1, 0)

ScanUnexpected ==
  /\ Peek \notin Letter \union Digit \union Single \union Double \union {"quote", ".", "end"}
  /\ Gives("ERROR", current, current + 1, 0)

Next ==
  \/ SkipBlank \/ SkipNewline \/ SkipLineComment \/ SkipBlockComment
  \/ ScanEof \/ ScanIdentifier \/ ScanNumber \/ ScanString \/ ScanDot
  \/ ScanSingle \/ ScanDouble \/ ScanUnexpected

\* The parser asks for tokens until the last.
Spec == Init /\ [][Next]_vars /\ WF_vars(Next)

-----------------------------------------------------------------------------
(***************************************************************************)
(* Properties.                                                             *)
(***************************************************************************)

\* The tokens are those of the lexical grammar, in order and with none left out, each
\* the longest at its place and with the line it ends on; and scanner.current never
\* passes the end of the text, whatever is left open there.
FollowsLexicon ==
  LET all == Tokens(source)
  IN  /\ Len(tokens) <= Len(all) /\ tokens = SubSeq(all, 1, Len(tokens))
      /\ current \in 1..(Len(source) + 1)

\* Every text comes to an end: the scanner reaches TOKEN_EOF.
ReachesEnd == <>(tokens = Tokens(source))

=============================================================================
