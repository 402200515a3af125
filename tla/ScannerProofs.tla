---------------------------- MODULE ScannerProofs ----------------------------
(***************************************************************************)
(* For any texts, letters and digits: what the scanner has given is the    *)
(* beginning of what the lexical grammar says.  Each step of it is one     *)
(* lexeme of Lexicon.  "Longest" says at which place the longest lexeme    *)
(* ends; the classes of Lexicon, which are about a lexeme by itself, are   *)
(* first put in terms of the places of the text, and then there is a lemma *)
(* for each way a lexeme can begin.                                        *)
(***************************************************************************)
EXTENDS Scanner, ProofLemmas

Char == STRING \ {"end"}
Text == Seq(Char)

\* A text, a place in it, and a place where a lexeme could end.
Place(s, p) == s \in Text /\ p \in 1..Len(s)
Piece(s, p, q) == Place(s, p) /\ q \in p..Len(s)

-----------------------------------------------------------------------------
(***************************************************************************)
(* Least and greatest elements, and characters.                            *)
(***************************************************************************)

\* The greatest element of a set is the one that none exceeds.
LEMMA MaxIs ==
  ASSUME NEW S \in SUBSET Int, NEW e \in S, \A q \in S : q <= e
  PROVE  Max(S) = e
<1>1. \A x \in S : (\A y \in S : x >= y) => x = e
  OBVIOUS
<1>2. \A y \in S : e >= y
  OBVIOUS
<1>. QED BY <1>1, <1>2 DEF Max

\* The least element of a set is the one that is not above any.
LEMMA MinIs ==
  ASSUME NEW S \in SUBSET Int, NEW e \in S, \A q \in S : e <= q
  PROVE  Min(S) = e
<1>1. \A x \in S : (\A y \in S : x <= y) => x = e
  OBVIOUS
<1>2. \A y \in S : e <= y
  OBVIOUS
<1>. QED BY <1>1, <1>2 DEF Min

\* Characters with a meaning of their own are neither letters nor digits, and no
\* letter is a digit.
LEMMA SpecialApart == \A c \in Special : c \notin Letter /\ c \notin Digit
BY CharactersDiffer

LEMMA LettersApart == \A c \in Letter : c \notin Digit
BY CharactersDiffer

LEMMA NamedApart ==
  /\ "end" \notin Letter /\ "end" \notin Digit /\ "blank" \notin Letter /\ "blank" \notin Digit
  /\ "newline" \notin Letter /\ "newline" \notin Digit /\ "quote" \notin Letter /\ "quote" \notin Digit
  /\ "." \notin Letter /\ "." \notin Digit /\ "/" \notin Letter /\ "/" \notin Digit
  /\ "*" \notin Letter /\ "*" \notin Digit
BY SpecialApart DEF Special

LEMMA SymbolsApart ==
  \A c \in Single \union Double : c \notin Letter /\ c \notin Digit
BY SpecialApart DEF Special, Single, Double

-----------------------------------------------------------------------------
(***************************************************************************)
(* The classes in terms of the places of the text.                         *)
(***************************************************************************)

WordAt(s, p, q) == s[p] \in Letter /\ \A i \in p..q : s[i] \in Letter \union Digit
NumberAt(s, p, q) ==
  \/ \A i \in p..q : s[i] \in Digit
  \/ \E dot \in (p + 1)..(q - 1) : s[dot] = "." /\ \A i \in p..q : i # dot => s[i] \in Digit
QuotedAt(s, p, q) == q > p /\ \A i \in p..q : s[i] = "quote" <=> i \in {p, q}
LineAt(s, p, q) ==
  q > p /\ s[p] = "/" /\ s[p + 1] = "/" /\ \A i \in p..q : s[i] # "newline"
CloseAt(s, i) == s[i] = "*" /\ s[i + 1] = "/"
OpensBlock(s, p, q) ==
  q > p /\ s[p] = "/" /\ s[p + 1] = "*" /\ \A i \in (p + 1)..(q - 2) : ~CloseAt(s, i)
BlockAt(s, p, q, atEnd) ==
  OpensBlock(s, p, q) /\ (atEnd \/ (q > p + 1 /\ CloseAt(s, q - 1)))
SendAt(s, p, q) ==
  /\ q = p + 4 /\ s[p] = "." /\ s[p + 1] = "s" /\ s[p + 2] = "e" /\ s[p + 3] = "n"
  /\ s[p + 4] = "d"
SymbolAt(s, p, q) ==
  \/ q = p /\ s[p] \in Single \union Double \union {"."}
  \/ q = p + 1 /\ s[p] \in Double /\ s[p + 1] = "="
  \/ SendAt(s, p, q)
SpaceAt(s, p, q) == q = p /\ s[p] \in {"blank", "newline"}

BlankAt(s, p, q, atEnd) == SpaceAt(s, p, q) \/ LineAt(s, p, q) \/ BlockAt(s, p, q, atEnd)
LexemeAt(s, p, q, atEnd) ==
  WordAt(s, p, q) \/ NumberAt(s, p, q) \/ QuotedAt(s, p, q) \/ SymbolAt(s, p, q)
    \/ BlankAt(s, p, q, atEnd)

\* The characters of a piece are those of the text.
LEMMA PieceIs ==
  ASSUME NEW s, NEW p, NEW q, Piece(s, p, q)
  PROVE  /\ p \in Int /\ q \in Int /\ p <= q /\ 1 <= p /\ q <= Len(s) /\ Len(s) \in Nat
         /\ SubSeq(s, p, q) \in Seq(Char) /\ SubSeq(s, p, q) # <<>>
         /\ Len(SubSeq(s, p, q)) = q - p + 1
         /\ \A i \in 1..(q - p + 1) : SubSeq(s, p, q)[i] = s[p + i - 1]
         /\ \A i \in p..q : SubSeq(s, p, q)[i - p + 1] = s[i]
<1>1. s \in Seq(Char) /\ Len(s) \in Nat /\ p \in 1..Len(s) /\ q \in p..Len(s)
  BY DEF Piece, Place, Text
<1>2. SubSeq(s, p, q) = [i \in 1..(q - p + 1) |-> s[p + i - 1]]
  BY <1>1
<1>3. \A i \in 1..(q - p + 1) : s[p + i - 1] \in Char
  BY <1>1
<1>4. q - p + 1 \in Nat /\ q - p + 1 # 0
  BY <1>1
<1>5. Len(SubSeq(s, p, q)) = q - p + 1 /\ SubSeq(s, p, q) \in Seq(Char)
  BY <1>1, <1>2, <1>3, <1>4
<1>6. SubSeq(s, p, q) # <<>>
  BY <1>4, <1>5
<1>7. \A i \in p..q : i - p + 1 \in 1..(q - p + 1) /\ p + (i - p + 1) - 1 = i
  BY <1>1
<1>8. \A i \in p..q : SubSeq(s, p, q)[i - p + 1] = s[i]
  BY <1>2, <1>7
<1>. QED BY <1>1, <1>2, <1>5, <1>6, <1>8

\* What PieceIs says, with w for the piece.
IsPiece(s, p, q, w) ==
  /\ p \in Int /\ q \in Int /\ p <= q /\ 1 <= p /\ q <= Len(s) /\ Len(s) \in Nat
  /\ w \in Seq(Char) /\ w # <<>> /\ Len(w) = q - p + 1
  /\ \A i \in 1..(q - p + 1) : w[i] = s[p + i - 1]
  /\ \A i \in p..q : w[i - p + 1] = s[i]

LEMMA PieceOf ==
  ASSUME NEW s, NEW p, NEW q, Piece(s, p, q)
  PROVE  IsPiece(s, p, q, SubSeq(s, p, q))
BY PieceIs DEF IsPiece

\* A property of all characters of a piece is one of the places.
LEMMA AllIs ==
  ASSUME NEW s, NEW p, NEW q, NEW w, IsPiece(s, p, q, w), NEW set
  PROVE  All(w, set) <=> \A i \in p..q : s[i] \in set
<1>. USE DEF IsPiece
<1>1. ASSUME All(w, set), NEW i \in p..q PROVE s[i] \in set
  <2>1. i - p + 1 \in 1..Len(w) /\ w[i - p + 1] = s[i]
    OBVIOUS
  <2>. QED BY <1>1, <2>1 DEF All
<1>2. ASSUME \A i \in p..q : s[i] \in set, NEW i \in 1..Len(w) PROVE w[i] \in set
  <2>1. p + i - 1 \in p..q /\ w[i] = s[p + i - 1]
    OBVIOUS
  <2>. QED BY <1>2, <2>1
<1>. QED BY <1>1, <1>2 DEF All

LEMMA WordIs ==
  ASSUME NEW s, NEW p, NEW q, NEW w, IsPiece(s, p, q, w)
  PROVE  Word(w) <=> WordAt(s, p, q)
<1>1. w # <<>> /\ w[1] = s[p]
  BY DEF IsPiece
<1>2. All(w, Letter \union Digit) <=> \A i \in p..q : s[i] \in Letter \union Digit
  BY AllIs
<1>. QED BY <1>1, <1>2, Zenon DEF Word, WordAt

LEMMA NumberIs ==
  ASSUME NEW s, NEW p, NEW q, NEW w, IsPiece(s, p, q, w)
  PROVE  Number(w) <=> NumberAt(s, p, q)
<1>. USE DEF IsPiece
<1>. DEFINE Fraction == \E dot \in 2..(Len(w) - 1) :
                          w[dot] = "." /\ \A i \in 1..Len(w) : i # dot => w[i] \in Digit
            FractionAt == \E dot \in (p + 1)..(q - 1) :
                            s[dot] = "." /\ \A i \in p..q : i # dot => s[i] \in Digit
<1>1. w # <<>> /\ (All(w, Digit) <=> \A i \in p..q : s[i] \in Digit)
  BY AllIs
<1>2. ASSUME Fraction PROVE FractionAt
  <2>1. PICK dot \in 2..(Len(w) - 1) :
           w[dot] = "." /\ \A i \in 1..Len(w) : i # dot => w[i] \in Digit
    BY <1>2
  <2>2. p + dot - 1 \in (p + 1)..(q - 1) /\ s[p + dot - 1] = "."
    BY <2>1
  <2>3. ASSUME NEW i \in p..q, i # p + dot - 1 PROVE s[i] \in Digit
    <3>1. i - p + 1 \in 1..Len(w) /\ i - p + 1 # dot /\ w[i - p + 1] = s[i]
      BY <2>3
    <3>. QED BY <2>1, <3>1
  <2>. QED BY <2>2, <2>3
<1>3. ASSUME FractionAt PROVE Fraction
  <2>1. PICK dot \in (p + 1)..(q - 1) :
           s[dot] = "." /\ \A i \in p..q : i # dot => s[i] \in Digit
    BY <1>3
  <2>2. dot - p + 1 \in 2..(Len(w) - 1) /\ w[dot - p + 1] = "."
    BY <2>1
  <2>3. ASSUME NEW i \in 1..Len(w), i # dot - p + 1 PROVE w[i] \in Digit
    <3>1. p + i - 1 \in p..q /\ p + i - 1 # dot /\ w[i] = s[p + i - 1]
      BY <2>3
    <3>. QED BY <2>1, <3>1
  <2>. QED BY <2>2, <2>3
<1>. QED BY <1>1, <1>2, <1>3, Zenon DEF Number, NumberAt

LEMMA QuotedIs ==
  ASSUME NEW s, NEW p, NEW q, NEW w, IsPiece(s, p, q, w)
  PROVE  Quoted(w) <=> QuotedAt(s, p, q)
<1>. USE DEF IsPiece
<1>1. Len(w) >= 2 <=> q > p
  OBVIOUS
<1>2. ASSUME \A i \in 1..Len(w) : w[i] = "quote" <=> i \in {1, Len(w)}, NEW i \in p..q
      PROVE  s[i] = "quote" <=> i \in {p, q}
  <2>1. i - p + 1 \in 1..Len(w) /\ w[i - p + 1] = s[i]
    OBVIOUS
  <2>2. i - p + 1 \in {1, Len(w)} <=> i \in {p, q}
    OBVIOUS
  <2>. QED BY <1>2, <2>1, <2>2, Zenon
<1>3. ASSUME \A i \in p..q : s[i] = "quote" <=> i \in {p, q}, NEW i \in 1..Len(w)
      PROVE  w[i] = "quote" <=> i \in {1, Len(w)}
  <2>1. p + i - 1 \in p..q /\ w[i] = s[p + i - 1]
    OBVIOUS
  <2>2. i \in {1, Len(w)} <=> p + i - 1 \in {p, q}
    OBVIOUS
  <2>. QED BY <1>3, <2>1, <2>2, Zenon
<1>. QED BY <1>1, <1>2, <1>3, Zenon DEF Quoted, QuotedAt

LEMMA LineIs ==
  ASSUME NEW s, NEW p, NEW q, NEW w, IsPiece(s, p, q, w)
  PROVE  LineComment(w) <=> LineAt(s, p, q)
<1>. USE DEF IsPiece
<1>1. Len(w) >= 2 <=> q > p
  OBVIOUS
<1>2. w[1] = s[p] /\ (q > p => w[2] = s[p + 1])
  OBVIOUS
<1>3. ASSUME \A i \in 1..Len(w) : w[i] # "newline", NEW i \in p..q PROVE s[i] # "newline"
  <2>1. i - p + 1 \in 1..Len(w) /\ w[i - p + 1] = s[i]
    OBVIOUS
  <2>. QED BY <1>3, <2>1, Zenon
<1>4. ASSUME \A i \in p..q : s[i] # "newline", NEW i \in 1..Len(w) PROVE w[i] # "newline"
  <2>1. p + i - 1 \in p..q /\ w[i] = s[p + i - 1]
    OBVIOUS
  <2>. QED BY <1>4, <2>1, Zenon
<1>. QED BY <1>1, <1>2, <1>3, <1>4, Zenon DEF LineComment, LineAt

LEMMA BlockIs ==
  ASSUME NEW s, NEW p, NEW q, NEW w, IsPiece(s, p, q, w), NEW atEnd
  PROVE  BlockComment(w, atEnd) <=> BlockAt(s, p, q, atEnd)
<1>. USE DEF IsPiece
<1>1. (Len(w) >= 2 <=> q > p) /\ (Len(w) > 2 <=> q > p + 1)
  OBVIOUS
<1>2. w[1] = s[p] /\ (q > p => w[2] = s[p + 1])
  OBVIOUS
<1>3. ASSUME NEW i \in 2..(Len(w) - 1), NEW j \in (p + 1)..(q - 1), j = p + i - 1
      PROVE  Closes(w, i) <=> CloseAt(s, j)
  <2>1. i < Len(w) /\ i \in 1..(q - p + 1) /\ i + 1 \in 1..(q - p + 1) /\ p + (i + 1) - 1 = j + 1
    BY <1>3
  <2>2. w[i] = s[j] /\ w[i + 1] = s[j + 1]
    BY <1>3, <2>1
  <2>. QED BY <2>1, <2>2, Zenon DEF Closes, CloseAt
<1>4. ASSUME \A i \in 2..(Len(w) - 2) : ~Closes(w, i), NEW j \in (p + 1)..(q - 2)
      PROVE  ~CloseAt(s, j)
  <2>1. /\ j - p + 1 \in 2..(Len(w) - 2) /\ j - p + 1 \in 2..(Len(w) - 1)
        /\ j \in (p + 1)..(q - 1) /\ j = p + (j - p + 1) - 1
    OBVIOUS
  <2>. QED BY <1>3, <1>4, <2>1, Zenon
<1>5. ASSUME \A j \in (p + 1)..(q - 2) : ~CloseAt(s, j), NEW i \in 2..(Len(w) - 2)
      PROVE  ~Closes(w, i)
  <2>1. p + i - 1 \in (p + 1)..(q - 2) /\ p + i - 1 \in (p + 1)..(q - 1) /\ i \in 2..(Len(w) - 1)
    OBVIOUS
  <2>. QED BY <1>3, <1>5, <2>1, Zenon
<1>6. ASSUME q > p + 1 PROVE Closes(w, Len(w) - 1) <=> CloseAt(s, q - 1)
  <2>1. Len(w) - 1 \in 2..(Len(w) - 1) /\ q - 1 \in (p + 1)..(q - 1) /\ q - 1 = p + (Len(w) - 1) - 1
    BY <1>6
  <2>. QED BY <1>3, <2>1, Zenon
<1>. QED BY <1>1, <1>2, <1>4, <1>5, <1>6, Zenon DEF BlockComment, BlockAt, OpensBlock

\* A text of one, two, three or five characters, character by character.
LEMMA OneCharIs ==
  ASSUME NEW S, NEW w \in Seq(S), NEW a
  PROVE  w = <<a>> <=> Len(w) = 1 /\ w[1] = a
<1>1. ASSUME Len(w) = 1, w[1] = a PROVE w = <<a>>
  <2>1. w = [i \in 1..1 |-> w[i]]
    BY <1>1
  <2>2. \A i \in 1..1 : w[i] = <<a>>[i]
    BY <1>1
  <2>. QED BY <2>1, <2>2
<1>. QED BY <1>1

LEMMA TwoCharsAre ==
  ASSUME NEW S, NEW w \in Seq(S)
  PROVE  \A a, b : w = <<a, b>> <=> Len(w) = 2 /\ w[1] = a /\ w[2] = b
<1>0. SUFFICES ASSUME NEW a, NEW b
               PROVE  w = <<a, b>> <=> Len(w) = 2 /\ w[1] = a /\ w[2] = b
  OBVIOUS
<1>1. ASSUME Len(w) = 2, w[1] = a, w[2] = b PROVE w = <<a, b>>
  <2>1. w = [i \in 1..2 |-> w[i]]
    BY <1>1
  <2>2. \A i \in 1..2 : w[i] = <<a, b>>[i]
    BY <1>1
  <2>. QED BY <2>1, <2>2
<1>. QED BY <1>1

LEMMA ThreeCharsAre ==
  ASSUME NEW S, NEW w \in Seq(S)
  PROVE  \A a, b, c : w = <<a, b, c>> <=> Len(w) = 3 /\ w[1] = a /\ w[2] = b /\ w[3] = c
<1>0. SUFFICES ASSUME NEW a, NEW b, NEW c
               PROVE  w = <<a, b, c>> <=> Len(w) = 3 /\ w[1] = a /\ w[2] = b /\ w[3] = c
  OBVIOUS
<1>1. ASSUME Len(w) = 3, w[1] = a, w[2] = b, w[3] = c PROVE w = <<a, b, c>>
  <2>1. w = [i \in 1..3 |-> w[i]]
    BY <1>1
  <2>2. \A i \in 1..3 : w[i] = <<a, b, c>>[i]
    BY <1>1
  <2>. QED BY <2>1, <2>2
<1>. QED BY <1>1

LEMMA FiveCharsAre ==
  ASSUME NEW S, NEW w \in Seq(S)
  PROVE  \A a, b, c, d, e :
           w = <<a, b, c, d, e>> <=>
             Len(w) = 5 /\ w[1] = a /\ w[2] = b /\ w[3] = c /\ w[4] = d /\ w[5] = e
<1>0. SUFFICES ASSUME NEW a, NEW b, NEW c, NEW d, NEW e
               PROVE  w = <<a, b, c, d, e>> <=>
                        Len(w) = 5 /\ w[1] = a /\ w[2] = b /\ w[3] = c /\ w[4] = d /\ w[5] = e
  OBVIOUS
<1>1. ASSUME Len(w) = 5, w[1] = a, w[2] = b, w[3] = c, w[4] = d, w[5] = e
      PROVE  w = <<a, b, c, d, e>>
  <2>1. w = [i \in 1..5 |-> w[i]]
    BY <1>1
  <2>2. \A i \in 1..5 : w[i] = <<a, b, c, d, e>>[i]
    BY <1>1
  <2>. QED BY <2>1, <2>2
<1>. QED BY <1>1

\* The symbols by their length.
LEMMA SymbolsAre ==
  \A w : w \in Symbols <=>
     \/ \E c \in Single \union Double \union {"."} : w = <<c>>
     \/ \E c \in Double : w = <<c, "=">>
     \/ w = <<".", "s", "e", "n", "d">>
BY Zenon DEF Symbols, Single, Double

LEMMA SendIs ==
  ASSUME NEW s, NEW p, NEW q, NEW w, IsPiece(s, p, q, w)
  PROVE  w = <<".", "s", "e", "n", "d">> <=> SendAt(s, p, q)
<1>1. w \in Seq(Char) /\ w[1] = s[p]
  BY DEF IsPiece
<1>2. \A a, b, c, d, e :
        w = <<a, b, c, d, e>> <=>
          Len(w) = 5 /\ w[1] = a /\ w[2] = b /\ w[3] = c /\ w[4] = d /\ w[5] = e
  BY <1>1, FiveCharsAre
<1>3. w = <<".", "s", "e", "n", "d">> <=>
        Len(w) = 5 /\ w[1] = "." /\ w[2] = "s" /\ w[3] = "e" /\ w[4] = "n" /\ w[5] = "d"
  BY <1>2, ZenonT(40)
<1>4. Len(w) = 5 <=> q = p + 4
  BY DEF IsPiece
<1>5. q = p + 4 => w[2] = s[p + 1] /\ w[3] = s[p + 2] /\ w[4] = s[p + 3] /\ w[5] = s[p + 4]
  BY DEF IsPiece
<1>. QED BY <1>1, <1>3, <1>4, <1>5, Zenon DEF SendAt

LEMMA SymbolIs ==
  ASSUME NEW s, NEW p, NEW q, NEW w, IsPiece(s, p, q, w)
  PROVE  w \in Symbols <=> SymbolAt(s, p, q)
<1>. USE DEF IsPiece
<1>1. w \in Seq(Char) /\ w[1] = s[p]
  OBVIOUS
<1>2. ASSUME NEW c PROVE w = <<c>> <=> q = p /\ s[p] = c
  <2>1. w = <<c>> <=> Len(w) = 1 /\ w[1] = c
    BY <1>1, OneCharIs
  <2>2. Len(w) = 1 <=> q = p
    OBVIOUS
  <2>. QED BY <1>1, <2>1, <2>2, Zenon
<1>3. ASSUME NEW c PROVE w = <<c, "=">> <=> q = p + 1 /\ s[p] = c /\ s[p + 1] = "="
  <2>1. w = <<c, "=">> <=> Len(w) = 2 /\ w[1] = c /\ w[2] = "="
    <3>. HIDE DEF IsPiece
    <3>1. w \in Seq(Char)
      BY <1>1
    <3>2. \A a, b : w = <<a, b>> <=> Len(w) = 2 /\ w[1] = a /\ w[2] = b
      BY <3>1, TwoCharsAre
    <3>. QED BY <3>2, Zenon
  <2>2. (Len(w) = 2 <=> q = p + 1) /\ (q = p + 1 => w[2] = s[p + 1])
    OBVIOUS
  <2>. QED BY <1>1, <2>1, <2>2, Zenon
<1>4. w = <<".", "s", "e", "n", "d">> <=> SendAt(s, p, q)
  BY SendIs
<1>5. (\E c \in Single \union Double \union {"."} : w = <<c>>) <=>
        q = p /\ s[p] \in Single \union Double \union {"."}
  BY <1>2, Zenon
<1>6. (\E c \in Double : w = <<c, "=">>) <=> q = p + 1 /\ s[p] \in Double /\ s[p + 1] = "="
  BY <1>3, Zenon
<1>. QED BY <1>4, <1>5, <1>6, SymbolsAre, Zenon DEF SymbolAt

LEMMA SpaceIs ==
  ASSUME NEW s, NEW p, NEW q, NEW w, IsPiece(s, p, q, w)
  PROVE  w \in {<<"blank">>, <<"newline">>} <=> SpaceAt(s, p, q)
<1>1. \A c : w = <<c>> <=> Len(w) = 1 /\ w[1] = c
  BY OneCharIs DEF IsPiece
<1>2. w[1] = s[p] /\ (Len(w) = 1 <=> q = p)
  BY DEF IsPiece
<1>. QED BY <1>1, <1>2, Zenon DEF SpaceAt

LEMMA BlankIs ==
  ASSUME NEW s, NEW p, NEW q, NEW w, IsPiece(s, p, q, w), NEW atEnd
  PROVE  Blank(w, atEnd) <=> BlankAt(s, p, q, atEnd)
BY SpaceIs, LineIs, BlockIs, Zenon DEF Blank, BlankAt

LEMMA LexemeIs ==
  ASSUME NEW s, NEW p, NEW q, NEW w, IsPiece(s, p, q, w), NEW atEnd
  PROVE  Lexeme(w, atEnd) <=> LexemeAt(s, p, q, atEnd)
BY WordIs, NumberIs, QuotedIs, SymbolIs, BlankIs, Zenon DEF Lexeme, LexemeAt

-----------------------------------------------------------------------------
(***************************************************************************)
(* The longest lexeme at a place, and what a reading makes of it.          *)
(***************************************************************************)

LongestAt(s, p, e) ==
  /\ Piece(s, p, e) /\ LexemeAt(s, p, e, e = Len(s))
  /\ \A q \in (e + 1)..Len(s) : ~LexemeAt(s, p, q, q = Len(s))

NoneAt(s, p) == Place(s, p) /\ \A q \in p..Len(s) : ~LexemeAt(s, p, q, q = Len(s))

LEMMA EndsAre ==
  ASSUME NEW s, NEW p, Place(s, p), NEW q \in p..Len(s)
  PROVE  q \in Ends(s, p) <=> LexemeAt(s, p, q, q = Len(s))
<1>1. IsPiece(s, p, q, SubSeq(s, p, q))
  BY PieceOf DEF Piece
<1>2. Lexeme(SubSeq(s, p, q), q = Len(s)) <=> LexemeAt(s, p, q, q = Len(s))
  BY <1>1, LexemeIs
<1>. QED BY <1>2, Zenon DEF Ends

LEMMA LongestIs ==
  ASSUME NEW s, NEW p, NEW e, LongestAt(s, p, e)
  PROVE  Ends(s, p) # {} /\ Max(Ends(s, p)) = e
<1>1. Place(s, p) /\ e \in p..Len(s) /\ p \in Int /\ Len(s) \in Int /\ e \in Int
  BY DEF LongestAt, Piece, Place, Text
<1>2. e \in Ends(s, p)
  BY <1>1, EndsAre DEF LongestAt
<1>3. Ends(s, p) \subseteq p..Len(s)
  BY DEF Ends
<1>4. ASSUME NEW q \in Ends(s, p) PROVE q <= e
  <2>1. q \in p..Len(s) /\ LexemeAt(s, p, q, q = Len(s))
    BY <1>1, <1>3, EndsAre
  <2>2. q \notin (e + 1)..Len(s)
    BY <2>1 DEF LongestAt
  <2>. QED BY <1>1, <2>1, <2>2
<1>5. Ends(s, p) \in SUBSET Int
  BY <1>1, <1>3
<1>. QED BY <1>2, <1>4, <1>5, MaxIs

LEMMA NoneIs ==
  ASSUME NEW s, NEW p, NoneAt(s, p)
  PROVE  Ends(s, p) = {}
<1>1. Ends(s, p) \subseteq p..Len(s)
  BY DEF Ends
<1>2. \A q \in p..Len(s) : q \notin Ends(s, p)
  BY EndsAre DEF NoneAt
<1>. QED BY <1>1, <1>2

\* A block comment opens the piece exactly if the classes say so at the end of a text.
LEMMA OpensIs ==
  ASSUME NEW s, NEW p, NEW q, Piece(s, p, q)
  PROVE  /\ BlockComment(SubSeq(s, p, q), TRUE) <=> OpensBlock(s, p, q)
         /\ \A atEnd : Blank(SubSeq(s, p, q), atEnd) <=> BlankAt(s, p, q, atEnd)
         /\ Len(SubSeq(s, p, q)) = 5 /\ SubSeq(s, p, q) \in Symbols <=> SendAt(s, p, q)
<1>1. IsPiece(s, p, q, SubSeq(s, p, q))
  BY PieceOf
<1>2. PICK w : w = SubSeq(s, p, q)
  BY Zenon
<1>3. IsPiece(s, p, q, w)
  BY <1>1, <1>2, Zenon
<1>4. BlockComment(w, TRUE) <=> OpensBlock(s, p, q)
  BY <1>3, BlockIs, Zenon DEF BlockAt
<1>5. \A atEnd : Blank(w, atEnd) <=> BlankAt(s, p, q, atEnd)
  BY <1>3, BlankIs, Zenon
<1>6. Len(w) = 5 /\ w \in Symbols <=> SendAt(s, p, q)
  <2>1. w \in Symbols <=> SymbolAt(s, p, q)
    BY <1>3, SymbolIs
  <2>2. p \in Int /\ q \in Int /\ Len(w) = q - p + 1
    BY <1>3 DEF IsPiece
  <2>. QED BY <2>1, <2>2 DEF SymbolAt, SendAt
<1>. QED BY <1>2, <1>4, <1>5, <1>6, Zenon

\* The longest lexeme at p ends at e and is a blank or a comment with so many newlines;
\* the one that ends there is any other, of this kind and with a token from there; and
\* there is none, but what is taken instead ends at e.
SkipsAt(s, p, e, lines) ==
  /\ LongestAt(s, p, e) /\ BlankAt(s, p, e, e = Len(s))
  /\ lines = IF OpensBlock(s, p, e) THEN 0 ELSE Newlines(s, p, e)
GivesAt(s, p, e, kind, from, lines) ==
  /\ LongestAt(s, p, e) /\ ~BlankAt(s, p, e, e = Len(s)) /\ ~OpensBlock(s, p, e)
  /\ kind = KindOf(SubSeq(s, p, e)) /\ from = IF SendAt(s, p, e) THEN p + 1 ELSE p
  /\ lines = Newlines(s, p, e)
FailsAt(s, p, e, lines) ==
  /\ NoneAt(s, p) /\ s[p] \notin {"/", "."} /\ e = IF s[p] = "quote" THEN Len(s) ELSE p
  /\ lines = Newlines(s, p, e)

\* What a reading is after a lexeme that ends at e, and the token it makes.
ReadOn(r, e, lines, toks) == [at |-> e + 1, line |-> r.line + lines, tokens |-> toks]
TokenOf(r, kind, from, e, lines) == Token(kind, from, e + 1, r.line + lines)

\* A reading passes over a blank or a comment.
LEMMA FurtherSkips ==
  ASSUME NEW s, NEW r, NEW e, NEW lines, SkipsAt(s, r.at, e, lines)
  PROVE  Further(s, r) = ReadOn(r, e, lines, r.tokens)
<1>1. Ends(s, r.at) # {} /\ Max(Ends(s, r.at)) = e
  BY LongestIs DEF SkipsAt
<1>2. /\ BlockComment(SubSeq(s, r.at, e), TRUE) <=> OpensBlock(s, r.at, e)
      /\ Blank(SubSeq(s, r.at, e), e = Len(s))
  BY OpensIs DEF SkipsAt, LongestAt
<1>. QED BY <1>1, <1>2, Zenon DEF Further, SkipsAt, ReadOn

\* A reading makes a token of any other lexeme, with the line it ends on.
LEMMA FurtherGives ==
  ASSUME NEW s, NEW r, NEW e, NEW kind, NEW from, NEW lines,
         GivesAt(s, r.at, e, kind, from, lines)
  PROVE  Further(s, r) = ReadOn(r, e, lines, Append(r.tokens, TokenOf(r, kind, from, e, lines)))
<1>1. Ends(s, r.at) # {} /\ Max(Ends(s, r.at)) = e
  BY LongestIs DEF GivesAt
<1>2. Piece(s, r.at, e)
  BY DEF GivesAt, LongestAt
<1>3. ~BlockComment(SubSeq(s, r.at, e), TRUE) /\ ~Blank(SubSeq(s, r.at, e), e = Len(s))
  BY <1>2, OpensIs DEF GivesAt
<1>4. Len(SubSeq(s, r.at, e)) = 5 /\ SubSeq(s, r.at, e) \in Symbols <=> SendAt(s, r.at, e)
  BY <1>2, OpensIs
<1>. QED BY <1>1, <1>3, <1>4, Zenon DEF Further, GivesAt, ReadOn, TokenOf

\* What begins no lexeme is an error, which takes the rest of the text after a quote.
LEMMA FurtherErrs ==
  ASSUME NEW s, NEW r, NEW e, NEW lines, FailsAt(s, r.at, e, lines)
  PROVE  Further(s, r) =
           ReadOn(r, e, lines, Append(r.tokens, TokenOf(r, "ERROR", r.at, e, lines)))
<1>1. Ends(s, r.at) = {}
  BY NoneIs DEF FailsAt
<1>2. Piece(s, r.at, e)
  BY DEF FailsAt, NoneAt, Piece, Place, Text
<1>3. ~BlockComment(SubSeq(s, r.at, e), TRUE)
  BY <1>2, OpensIs DEF FailsAt, OpensBlock
<1>4. ~(Len(SubSeq(s, r.at, e)) = 5 /\ SubSeq(s, r.at, e) \in Symbols)
  <2>1. ~SendAt(s, r.at, e)
    BY DEF FailsAt, SendAt
  <2>. QED BY <1>2, <2>1, OpensIs, Zenon
<1>. QED BY <1>1, <1>3, <1>4, Zenon DEF Further, FailsAt, ReadOn, TokenOf

-----------------------------------------------------------------------------
(***************************************************************************)
(* How a lexeme begins says what it can be.                                *)
(***************************************************************************)

LEMMA Beginnings ==
  ASSUME NEW s, NEW p, NEW q, NEW atEnd, Piece(s, p, q)
  PROVE  /\ WordAt(s, p, q) => s[p] \in Letter
         /\ NumberAt(s, p, q) => s[p] \in Digit
         /\ QuotedAt(s, p, q) => s[p] = "quote"
         /\ SymbolAt(s, p, q) => s[p] \in Single \union Double \union {"."}
         /\ SpaceAt(s, p, q) => s[p] \in {"blank", "newline"}
         /\ LineAt(s, p, q) => s[p] = "/"
         /\ OpensBlock(s, p, q) => s[p] = "/"
         /\ SendAt(s, p, q) => s[p] = "."
         /\ BlockAt(s, p, q, atEnd) => OpensBlock(s, p, q)
<1>1. p \in p..q /\ p \in Int /\ q \in Int
  BY DEF Piece, Place, Text
<1>2. NumberAt(s, p, q) => s[p] \in Digit
  <2>1. \A dot \in (p + 1)..(q - 1) : p # dot
    BY <1>1
  <2>. QED BY <1>1, <2>1 DEF NumberAt
<1>3. QuotedAt(s, p, q) => s[p] = "quote"
  BY <1>1 DEF QuotedAt
<1>4. SymbolAt(s, p, q) => s[p] \in Single \union Double \union {"."}
  BY Zenon DEF SymbolAt, SendAt
<1>. QED BY <1>2, <1>3, <1>4, Zenon DEF WordAt, SpaceAt, LineAt, OpensBlock, SendAt, BlockAt

\* All that the first character of a piece leaves open.
OnlyWord(s, p, q) ==
  /\ \A atEnd : LexemeAt(s, p, q, atEnd) <=> WordAt(s, p, q)
  /\ \A atEnd : ~BlankAt(s, p, q, atEnd)
  /\ ~OpensBlock(s, p, q) /\ ~SendAt(s, p, q)
OnlyNumber(s, p, q) ==
  /\ \A atEnd : LexemeAt(s, p, q, atEnd) <=> NumberAt(s, p, q)
  /\ \A atEnd : ~BlankAt(s, p, q, atEnd)
  /\ ~OpensBlock(s, p, q) /\ ~SendAt(s, p, q) /\ ~WordAt(s, p, q)
OnlyQuoted(s, p, q) ==
  /\ \A atEnd : LexemeAt(s, p, q, atEnd) <=> QuotedAt(s, p, q)
  /\ \A atEnd : ~BlankAt(s, p, q, atEnd)
  /\ ~OpensBlock(s, p, q) /\ ~SendAt(s, p, q) /\ ~WordAt(s, p, q) /\ ~NumberAt(s, p, q)
OnlySymbol(s, p, q) ==
  /\ \A atEnd : LexemeAt(s, p, q, atEnd) <=> SymbolAt(s, p, q)
  /\ \A atEnd : ~BlankAt(s, p, q, atEnd)
  /\ ~OpensBlock(s, p, q) /\ ~WordAt(s, p, q) /\ ~NumberAt(s, p, q) /\ ~QuotedAt(s, p, q)
OnlySpace(s, p, q) ==
  /\ \A atEnd : LexemeAt(s, p, q, atEnd) <=> SpaceAt(s, p, q)
  /\ ~OpensBlock(s, p, q)
SymbolOrComment(s, p, q) ==
  /\ \A atEnd : LexemeAt(s, p, q, atEnd) <=> SymbolAt(s, p, q) \/ BlankAt(s, p, q, atEnd)
  /\ \A atEnd : BlankAt(s, p, q, atEnd) <=> LineAt(s, p, q) \/ BlockAt(s, p, q, atEnd)
  /\ ~SendAt(s, p, q) /\ ~WordAt(s, p, q) /\ ~NumberAt(s, p, q) /\ ~QuotedAt(s, p, q)
Nothing(s, p, q) == \A atEnd : ~LexemeAt(s, p, q, atEnd)

LEMMA Classes ==
  ASSUME NEW s, NEW p, NEW q, Piece(s, p, q)
  PROVE  /\ s[p] \in Letter => OnlyWord(s, p, q)
         /\ s[p] \in Digit => OnlyNumber(s, p, q)
         /\ s[p] = "quote" => OnlyQuoted(s, p, q)
         /\ s[p] \in (Single \union Double \union {"."}) \ {"/"} => OnlySymbol(s, p, q)
         /\ s[p] \in {"blank", "newline"} => OnlySpace(s, p, q)
         /\ s[p] = "/" => SymbolOrComment(s, p, q)
         /\ s[p] \notin Letter \union Digit \union Single \union Double
                          \union {"quote", ".", "blank", "newline"} => Nothing(s, p, q)
<1>1. /\ WordAt(s, p, q) => s[p] \in Letter
      /\ NumberAt(s, p, q) => s[p] \in Digit
      /\ QuotedAt(s, p, q) => s[p] = "quote"
      /\ SymbolAt(s, p, q) => s[p] \in Single \union Double \union {"."}
      /\ SpaceAt(s, p, q) => s[p] \in {"blank", "newline"}
      /\ LineAt(s, p, q) => s[p] = "/"
      /\ OpensBlock(s, p, q) => s[p] = "/"
      /\ SendAt(s, p, q) => s[p] = "."
  BY Beginnings
<1>2. \A atEnd : BlockAt(s, p, q, atEnd) => OpensBlock(s, p, q)
  BY DEF BlockAt
<1>3. "." \notin Letter /\ "." \notin Digit /\ "/" \notin Letter /\ "/" \notin Digit
  BY NamedApart
<1>4. /\ "quote" \notin Letter /\ "quote" \notin Digit
      /\ "blank" \notin Letter /\ "blank" \notin Digit
      /\ "newline" \notin Letter /\ "newline" \notin Digit
  BY NamedApart
<1>5. \A c \in Single \union Double : c \notin Letter /\ c \notin Digit
  BY SymbolsApart
<1>6. "/" \in Single /\ \A c \in {"quote", "blank", "newline", "."} : c \notin Single \union Double
  BY DEF Single, Double
<1>. USE <1>1, <1>2, LettersApart DEF LexemeAt, BlankAt
<1>7. s[p] \in Letter => OnlyWord(s, p, q)
  BY <1>3, <1>4, <1>5, <1>6 DEF OnlyWord
<1>8. s[p] \in Digit => OnlyNumber(s, p, q)
  BY <1>3, <1>4, <1>5, <1>6 DEF OnlyNumber
<1>9. s[p] = "quote" => OnlyQuoted(s, p, q)
  BY <1>4, <1>6 DEF OnlyQuoted
<1>10. s[p] \in (Single \union Double \union {"."}) \ {"/"} => OnlySymbol(s, p, q)
  BY <1>3, <1>5, <1>6 DEF OnlySymbol
<1>11. s[p] \in {"blank", "newline"} => OnlySpace(s, p, q)
  BY <1>4, <1>6 DEF OnlySpace
<1>12. s[p] = "/" => SymbolOrComment(s, p, q)
  BY <1>3, <1>6 DEF SymbolOrComment
<1>13. s[p] \notin Letter \union Digit \union Single \union Double
                    \union {"quote", ".", "blank", "newline"} => Nothing(s, p, q)
  BY <1>6 DEF Nothing
<1>. QED BY <1>7, <1>8, <1>9, <1>10, <1>11, <1>12, <1>13, Zenon

LEMMA Pieces ==
  ASSUME NEW s, NEW p, Place(s, p)
  PROVE  /\ p \in Int /\ Len(s) \in Nat /\ 1 <= p /\ p <= Len(s)
         /\ \A q \in p..Len(s) : Piece(s, p, q)
BY DEF Place, Piece, Text

\* A blank is a lexeme of one character.
LEMMA SpaceLongest ==
  ASSUME NEW s, NEW p, Place(s, p), s[p] \in {"blank", "newline"}
  PROVE  LongestAt(s, p, p) /\ (\A atEnd : BlankAt(s, p, p, atEnd)) /\ ~OpensBlock(s, p, p)
<1>1. p \in Int /\ Len(s) \in Nat /\ p <= Len(s) /\ \A q \in p..Len(s) : Piece(s, p, q)
  BY Pieces
<1>2. \A q \in p..Len(s) : OnlySpace(s, p, q)
  BY <1>1, Classes
<1>3. SpaceAt(s, p, p) /\ \A q \in (p + 1)..Len(s) : ~SpaceAt(s, p, q)
  BY <1>1 DEF SpaceAt
<1>. QED BY <1>1, <1>2, <1>3 DEF LongestAt, OnlySpace, BlankAt

\* A word ends before the first character that is no letter and no digit.
LEMMA WordLongest ==
  ASSUME NEW s, NEW p, Place(s, p), s[p] \in Letter, NEW e \in p..Len(s),
         \A i \in p..e : s[i] \in Letter \union Digit,
         e < Len(s) => s[e + 1] \notin Letter \union Digit
  PROVE  LongestAt(s, p, e) /\ WordAt(s, p, e) /\ OnlyWord(s, p, e)
<1>1. p \in Int /\ Len(s) \in Nat /\ \A q \in p..Len(s) : Piece(s, p, q)
  BY Pieces
<1>2. \A q \in p..Len(s) : OnlyWord(s, p, q)
  BY <1>1, Classes
<1>3. WordAt(s, p, e)
  BY DEF WordAt
<1>4. ASSUME NEW q \in (e + 1)..Len(s) PROVE ~WordAt(s, p, q) /\ q \in p..Len(s)
  <2>1. e + 1 \in p..q /\ e < Len(s) /\ q \in p..Len(s)
    BY <1>1
  <2>. QED BY <2>1 DEF WordAt
<1>. QED BY <1>1, <1>2, <1>3, <1>4 DEF LongestAt, OnlyWord

\* A number without a fraction ends with its digits, ...
LEMMA WholeLongest ==
  ASSUME NEW s, NEW p, Place(s, p), NEW e \in p..Len(s), \A i \in p..e : s[i] \in Digit,
         e < Len(s) => s[e + 1] \notin Digit,
         ~(e + 2 <= Len(s) /\ s[e + 1] = "." /\ s[e + 2] \in Digit)
  PROVE  LongestAt(s, p, e) /\ NumberAt(s, p, e) /\ OnlyNumber(s, p, e)
<1>1. p \in Int /\ Len(s) \in Nat /\ \A q \in p..Len(s) : Piece(s, p, q)
  BY Pieces
<1>2. \A q \in p..Len(s) : OnlyNumber(s, p, q)
  <2>1. s[p] \in Digit
    BY <1>1
  <2>. QED BY <1>1, <2>1, Classes
<1>3. NumberAt(s, p, e)
  BY DEF NumberAt
<1>4. ASSUME NEW q \in (e + 1)..Len(s) PROVE ~NumberAt(s, p, q) /\ q \in p..Len(s)
  <2>1. e + 1 \in p..q /\ e < Len(s) /\ q \in p..Len(s) /\ e \in Int /\ q \in Int
    BY <1>1
  <2>2. s[e + 1] \notin Digit
    BY <2>1
  <2>3. ASSUME NEW dot \in (p + 1)..(q - 1), s[dot] = ".",
               \A i \in p..q : i # dot => s[i] \in Digit
        PROVE  FALSE
    <3>1. dot = e + 1
      BY <2>1, <2>2, <2>3
    <3>2. e + 2 \in p..q /\ e + 2 # dot /\ e + 2 <= Len(s)
      BY <1>1, <2>1, <3>1
    <3>. QED BY <2>3, <3>1, <3>2
  <2>. QED BY <2>1, <2>2, <2>3 DEF NumberAt
<1>. QED BY <1>1, <1>2, <1>3, <1>4 DEF LongestAt, OnlyNumber

\* ... one with a fraction with the digits after the dot.
LEMMA FractionLongest ==
  ASSUME NEW s, NEW p, Place(s, p), NEW e \in p..Len(s), NEW dot \in (p + 1)..(e - 1),
         s[dot] = ".", \A i \in p..e : i # dot => s[i] \in Digit,
         e < Len(s) => s[e + 1] \notin Digit
  PROVE  LongestAt(s, p, e) /\ NumberAt(s, p, e) /\ OnlyNumber(s, p, e)
<1>1. p \in Int /\ Len(s) \in Nat /\ \A q \in p..Len(s) : Piece(s, p, q)
  BY Pieces
<1>2. \A q \in p..Len(s) : OnlyNumber(s, p, q)
  <2>1. p \in p..e /\ p # dot
    BY <1>1
  <2>. QED BY <1>1, <2>1, Classes
<1>3. NumberAt(s, p, e)
  BY DEF NumberAt
<1>4. ASSUME NEW q \in (e + 1)..Len(s) PROVE ~NumberAt(s, p, q) /\ q \in p..Len(s)
  <2>1. e + 1 \in p..q /\ e < Len(s) /\ q \in p..Len(s) /\ dot \in p..q /\ dot # e + 1
    BY <1>1
  <2>2. s[e + 1] \notin Digit /\ s[dot] \notin Digit
    BY <2>1, NamedApart
  <2>3. ASSUME NEW other \in (p + 1)..(q - 1),
               \A i \in p..q : i # other => s[i] \in Digit
        PROVE  FALSE
    <3>1. dot = other /\ e + 1 = other
      BY <2>1, <2>2, <2>3
    <3>. QED BY <2>1, <3>1
  <2>. QED BY <2>1, <2>2, <2>3 DEF NumberAt
<1>. QED BY <1>1, <1>2, <1>3, <1>4 DEF LongestAt, OnlyNumber

\* A string ends at the next quote; without one there is no lexeme.
LEMMA QuotedLongest ==
  ASSUME NEW s, NEW p, Place(s, p), s[p] = "quote", NEW e \in (p + 1)..Len(s),
         s[e] = "quote", \A i \in (p + 1)..(e - 1) : s[i] # "quote"
  PROVE  LongestAt(s, p, e) /\ QuotedAt(s, p, e) /\ OnlyQuoted(s, p, e)
<1>1. p \in Int /\ Len(s) \in Nat /\ e \in p..Len(s) /\ \A q \in p..Len(s) : Piece(s, p, q)
  BY Pieces
<1>2. \A q \in p..Len(s) : OnlyQuoted(s, p, q)
  BY <1>1, Classes
<1>3. QuotedAt(s, p, e)
  BY <1>1 DEF QuotedAt
<1>4. ASSUME NEW q \in (e + 1)..Len(s) PROVE ~QuotedAt(s, p, q) /\ q \in p..Len(s)
  <2>1. e \in p..q /\ e \notin {p, q} /\ q \in p..Len(s)
    BY <1>1
  <2>. QED BY <2>1 DEF QuotedAt
<1>. QED BY <1>1, <1>2, <1>3, <1>4 DEF LongestAt, OnlyQuoted

LEMMA QuotedNone ==
  ASSUME NEW s, NEW p, Place(s, p), s[p] = "quote", \A i \in (p + 1)..Len(s) : s[i] # "quote"
  PROVE  NoneAt(s, p)
<1>1. p \in Int /\ Len(s) \in Nat /\ \A q \in p..Len(s) : Piece(s, p, q)
  BY Pieces
<1>2. \A q \in p..Len(s) : OnlyQuoted(s, p, q)
  BY <1>1, Classes
<1>3. ASSUME NEW q \in p..Len(s), QuotedAt(s, p, q) PROVE FALSE
  <2>1. q > p /\ q \in p..q /\ q \in (p + 1)..Len(s)
    BY <1>1, <1>3 DEF QuotedAt
  <2>. QED BY <1>3, <2>1 DEF QuotedAt
<1>. QED BY <1>2, <1>3 DEF NoneAt, OnlyQuoted

\* A line comment ends before the newline.
LEMMA LineLongest ==
  ASSUME NEW s, NEW p, Place(s, p), s[p] = "/", NEW e \in (p + 1)..Len(s), s[p + 1] = "/",
         \A i \in p..e : s[i] # "newline", e < Len(s) => s[e + 1] = "newline"
  PROVE  LongestAt(s, p, e) /\ LineAt(s, p, e) /\ ~OpensBlock(s, p, e)
<1>1. p \in Int /\ Len(s) \in Nat /\ e \in p..Len(s) /\ \A q \in p..Len(s) : Piece(s, p, q)
  BY Pieces
<1>2. \A q \in p..Len(s) : SymbolOrComment(s, p, q) /\ ~OpensBlock(s, p, q)
  BY <1>1, Classes DEF OpensBlock
<1>3. LineAt(s, p, e)
  BY <1>1 DEF LineAt
<1>4. ASSUME NEW q \in (e + 1)..Len(s)
      PROVE  ~LineAt(s, p, q) /\ ~SymbolAt(s, p, q) /\ q \in p..Len(s)
  <2>1. e + 1 \in p..q /\ s[e + 1] = "newline" /\ q \in p..Len(s) /\ q # p
    BY <1>1
  <2>2. ~LineAt(s, p, q)
    BY <2>1 DEF LineAt
  <2>3. ~SymbolAt(s, p, q)
    BY <2>1 DEF SymbolAt, SendAt, Double
  <2>. QED BY <2>1, <2>2, <2>3
<1>. QED BY <1>1, <1>2, <1>3, <1>4 DEF LongestAt, SymbolOrComment, BlockAt

\* A block comment ends with the first star and slash after its first character, ...
LEMMA BlockLongest ==
  ASSUME NEW s, NEW p, Place(s, p), s[p] = "/", s[p + 1] = "*",
         NEW close \in (p + 1)..(Len(s) - 1), CloseAt(s, close),
         \A i \in (p + 1)..(close - 1) : ~CloseAt(s, i)
  PROVE  LongestAt(s, p, close + 1) /\ BlockAt(s, p, close + 1, close + 1 = Len(s))
<1>. DEFINE e == close + 1
<1>1. /\ p \in Int /\ Len(s) \in Nat /\ close \in Int /\ e \in p..Len(s)
      /\ \A q \in p..Len(s) : Piece(s, p, q)
  BY Pieces
<1>2. \A q \in p..Len(s) : SymbolOrComment(s, p, q)
  BY <1>1, Classes
<1>3. BlockAt(s, p, e, e = Len(s))
  <2>1. e > p + 1 /\ e - 1 = close /\ e - 2 = close - 1
    BY <1>1
  <2>. QED BY <1>1, <2>1 DEF BlockAt, OpensBlock
<1>4. ASSUME NEW q \in (e + 1)..Len(s)
      PROVE  ~LineAt(s, p, q) /\ ~OpensBlock(s, p, q) /\ ~SymbolAt(s, p, q) /\ q \in p..Len(s)
  <2>1. close \in (p + 1)..(q - 2) /\ q \in p..Len(s) /\ q # p
    BY <1>1
  <2>2. ~OpensBlock(s, p, q) /\ ~LineAt(s, p, q)
    BY <2>1 DEF OpensBlock, LineAt
  <2>3. ~SymbolAt(s, p, q)
    BY <2>1 DEF SymbolAt, SendAt, Double
  <2>. QED BY <2>1, <2>2, <2>3
<1>. QED BY <1>1, <1>2, <1>3, <1>4 DEF LongestAt, SymbolOrComment, BlockAt

\* ... or with the text.
LEMMA OpenBlockLongest ==
  ASSUME NEW s, NEW p, Place(s, p), s[p] = "/", s[p + 1] = "*", p < Len(s),
         \A i \in (p + 1)..(Len(s) - 1) : ~CloseAt(s, i)
  PROVE  LongestAt(s, p, Len(s)) /\ BlockAt(s, p, Len(s), TRUE)
<1>1. p \in Int /\ Len(s) \in Nat /\ Len(s) \in p..Len(s) /\ \A q \in p..Len(s) : Piece(s, p, q)
  BY Pieces
<1>2. SymbolOrComment(s, p, Len(s))
  BY <1>1, Classes
<1>3. BlockAt(s, p, Len(s), TRUE)
  BY <1>1 DEF BlockAt, OpensBlock
<1>4. (Len(s) + 1)..Len(s) = {}
  BY <1>1
<1>. QED BY <1>1, <1>2, <1>3, <1>4 DEF LongestAt, SymbolOrComment

\* A symbol is the longest that the characters make, and .send is one.
LEMMA SymbolLongest ==
  ASSUME NEW s, NEW p, Place(s, p), NEW e \in p..Len(s), SymbolAt(s, p, e),
         \A q \in (e + 1)..Len(s) : ~SymbolAt(s, p, q),
         s[p] = "/" /\ p < Len(s) => s[p + 1] \notin {"/", "*"}
  PROVE  /\ LongestAt(s, p, e) /\ (\A atEnd : ~BlankAt(s, p, e, atEnd))
         /\ ~OpensBlock(s, p, e)
         /\ ~WordAt(s, p, e) /\ ~NumberAt(s, p, e) /\ ~QuotedAt(s, p, e)
<1>1. p \in Int /\ Len(s) \in Nat /\ \A q \in p..Len(s) : Piece(s, p, q)
  BY Pieces
<1>2. s[p] \in Single \union Double \union {"."}
  BY <1>1, Beginnings
<1>3. CASE s[p] # "/"
  <2>1. \A q \in p..Len(s) : OnlySymbol(s, p, q)
    BY <1>1, <1>2, <1>3, Classes
  <2>2. \A q \in (e + 1)..Len(s) : q \in p..Len(s)
    BY <1>1
  <2>. QED BY <1>1, <2>1, <2>2 DEF LongestAt, OnlySymbol
<1>4. CASE s[p] = "/"
  <2>1. ASSUME NEW q \in p..Len(s)
        PROVE  SymbolOrComment(s, p, q) /\ ~LineAt(s, p, q) /\ ~OpensBlock(s, p, q)
    <3>1. SymbolOrComment(s, p, q)
      BY <1>1, <1>4, Classes
    <3>2. q > p => p < Len(s)
      BY <1>1
    <3>. QED BY <1>4, <3>1, <3>2 DEF LineAt, OpensBlock
  <2>2. \A q \in (e + 1)..Len(s) : q \in p..Len(s)
    BY <1>1
  <2>. QED BY <1>1, <2>1, <2>2 DEF LongestAt, SymbolOrComment, BlockAt
<1>. QED BY <1>3, <1>4

\* What is neither begins no lexeme.
LEMMA OtherNone ==
  ASSUME NEW s, NEW p, Place(s, p),
         s[p] \notin Letter \union Digit \union Single \union Double
                \union {"quote", ".", "blank", "newline"}
  PROVE  NoneAt(s, p)
<1>1. \A q \in p..Len(s) : Piece(s, p, q)
  BY Pieces
<1>2. \A q \in p..Len(s) : Nothing(s, p, q)
  BY <1>1, Classes
<1>. QED BY <1>2 DEF NoneAt, Nothing

\* The newlines of a piece: a number, none, or the one of a newline by itself.
LEMMA NewlinesAre ==
  ASSUME NEW s, NEW p \in Int, NEW q \in Int
  PROVE  /\ Newlines(s, p, q) \in Nat
         /\ (\A i \in p..q : s[i] # "newline") => Newlines(s, p, q) = 0
         /\ p = q /\ s[p] = "newline" => Newlines(s, p, q) = 1
<1>. DEFINE S == {i \in p..q : s[i] = "newline"}
<1>1. IsFiniteSet(p..q) /\ S \subseteq p..q
  BY FS_Interval
<1>2. IsFiniteSet(S)
  BY <1>1, FS_Subset
<1>3. Cardinality(S) \in Nat
  BY <1>2, FS_CardinalityType
<1>4. ASSUME \A i \in p..q : s[i] # "newline" PROVE Cardinality(S) = 0
  <2>1. S = {}
    BY <1>4
  <2>. QED BY <2>1, FS_EmptySet
<1>5. ASSUME p = q, s[p] = "newline" PROVE Cardinality(S) = 1
  <2>1. S = {p}
    BY <1>5
  <2>. QED BY <2>1, FS_Singleton
<1>. QED BY <1>3, <1>4, <1>5, Zenon DEF Newlines

-----------------------------------------------------------------------------
(***************************************************************************)
(* The trie of the keywords: at most one entry of it begins a word, and    *)
(* the words its entries give are the reserved ones.                       *)
(***************************************************************************)

\* A text begins what it makes with another after it.
LEMMA BeginsJoined ==
  ASSUME NEW S, NEW x \in Seq(S), NEW y \in Seq(S)
  PROVE  Begins(x, x \o y)
<1>1. PICK z \in Seq(S) : z = x \o y
  BY ConcatIs, Zenon
<1>2. Len(z) = Len(x) + Len(y) /\ \A i \in 1..Len(x) : z[i] = x[i]
  BY <1>1, ConcatIs
<1>3. Len(x) \in 0..Len(z)
  BY <1>2
<1>4. PICK v \in Seq(S) : v = SubSeq(z, 1, Len(x))
  BY <1>3, PrefixIs, Zenon
<1>5. Len(v) = Len(x) /\ \A i \in 1..Len(x) : v[i] = z[i]
  BY <1>3, <1>4, PrefixIs
<1>6. v = x
  BY <1>2, <1>5, SameSeq
<1>7. Len(x) <= Len(z)
  BY <1>2
<1>. QED BY <1>1, <1>4, <1>6, <1>7, Zenon DEF Begins

\* The prefixes and the rests of the entries, put together.
LEMMA JoinOneOne == \A a, b : <<a>> \o <<b>> = <<a, b>> /\ Begins(<<a>>, <<a, b>>)
<1>1. SUFFICES ASSUME NEW a, NEW b
               PROVE  <<a>> \o <<b>> = <<a, b>> /\ Begins(<<a>>, <<a, b>>)
  OBVIOUS
<1>2. PICK S : S = {a, b}
  OBVIOUS
<1>3. <<a>> \in Seq(S) /\ <<b>> \in Seq(S) /\ <<a, b>> \in Seq(S)
  BY <1>2
<1>4. Joins(<<a>>, <<b>>, <<a, b>>)
  <2>1. Len(<<a>>) = 1 /\ Len(<<b>>) = 1 /\ Len(<<a, b>>) = 2
    OBVIOUS
  <2>2. <<a, b>>[1] = a /\ <<a, b>>[2] = b /\ <<a>>[1] = a /\ <<b>>[1] = b
    OBVIOUS
  <2>3. (\A i \in 1..Len(<<a>>) : i = 1) /\ (\A i \in 1..Len(<<b>>) : i = 1)
    BY <2>1
  <2>4. Len(<<a>>) + 1 = 2 /\ Len(<<a>>) + Len(<<b>>) = 2
    BY <2>1
  <2>. QED BY <2>1, <2>2, <2>3, <2>4, Zenon DEF Joins
<1>5. <<a>> \o <<b>> = <<a, b>>
  BY <1>3, <1>4, Joined
<1>6. Begins(<<a>>, <<a>> \o <<b>>)
  BY <1>3, BeginsJoined
<1>. QED BY <1>5, <1>6, Zenon

LEMMA JoinOneTwo == \A a, b, c : <<a>> \o <<b, c>> = <<a, b, c>> /\ Begins(<<a>>, <<a, b, c>>)
<1>1. SUFFICES ASSUME NEW a, NEW b, NEW c
               PROVE  <<a>> \o <<b, c>> = <<a, b, c>> /\ Begins(<<a>>, <<a, b, c>>)
  OBVIOUS
<1>2. PICK S : S = {a, b, c}
  OBVIOUS
<1>3. <<a>> \in Seq(S) /\ <<b, c>> \in Seq(S) /\ <<a, b, c>> \in Seq(S)
  BY <1>2
<1>4. Joins(<<a>>, <<b, c>>, <<a, b, c>>)
  BY DEF Joins
<1>5. <<a>> \o <<b, c>> = <<a, b, c>>
  BY <1>3, <1>4, Joined
<1>6. Begins(<<a>>, <<a>> \o <<b, c>>)
  BY <1>3, BeginsJoined
<1>. QED BY <1>5, <1>6, Zenon

LEMMA JoinOneThree == \A a, b, c, d : <<a>> \o <<b, c, d>> = <<a, b, c, d>> /\ Begins(<<a>>, <<a, b, c, d>>)
<1>1. SUFFICES ASSUME NEW a, NEW b, NEW c, NEW d
               PROVE  <<a>> \o <<b, c, d>> = <<a, b, c, d>> /\ Begins(<<a>>, <<a, b, c, d>>)
  OBVIOUS
<1>2. PICK S : S = {a, b, c, d}
  OBVIOUS
<1>3. <<a>> \in Seq(S) /\ <<b, c, d>> \in Seq(S) /\ <<a, b, c, d>> \in Seq(S)
  BY <1>2
<1>4. Joins(<<a>>, <<b, c, d>>, <<a, b, c, d>>)
  BY DEF Joins
<1>5. <<a>> \o <<b, c, d>> = <<a, b, c, d>>
  BY <1>3, <1>4, Joined
<1>6. Begins(<<a>>, <<a>> \o <<b, c, d>>)
  BY <1>3, BeginsJoined
<1>. QED BY <1>5, <1>6, Zenon

LEMMA JoinOneFour == \A a, b, c, d, e : <<a>> \o <<b, c, d, e>> = <<a, b, c, d, e>> /\ Begins(<<a>>, <<a, b, c, d, e>>)
<1>1. SUFFICES ASSUME NEW a, NEW b, NEW c, NEW d, NEW e
               PROVE  <<a>> \o <<b, c, d, e>> = <<a, b, c, d, e>> /\ Begins(<<a>>, <<a, b, c, d, e>>)
  OBVIOUS
<1>2. PICK S : S = {a, b, c, d, e}
  OBVIOUS
<1>3. <<a>> \in Seq(S) /\ <<b, c, d, e>> \in Seq(S) /\ <<a, b, c, d, e>> \in Seq(S)
  BY <1>2
<1>4. Joins(<<a>>, <<b, c, d, e>>, <<a, b, c, d, e>>)
  BY DEF Joins
<1>5. <<a>> \o <<b, c, d, e>> = <<a, b, c, d, e>>
  BY <1>3, <1>4, Joined
<1>6. Begins(<<a>>, <<a>> \o <<b, c, d, e>>)
  BY <1>3, BeginsJoined
<1>. QED BY <1>5, <1>6, Zenon

LEMMA JoinOneFive == \A a, b, c, d, e, f : <<a>> \o <<b, c, d, e, f>> = <<a, b, c, d, e, f>> /\ Begins(<<a>>, <<a, b, c, d, e, f>>)
<1>1. SUFFICES ASSUME NEW a, NEW b, NEW c, NEW d, NEW e, NEW f
               PROVE  <<a>> \o <<b, c, d, e, f>> = <<a, b, c, d, e, f>> /\ Begins(<<a>>, <<a, b, c, d, e, f>>)
  OBVIOUS
<1>2. PICK S : S = {a, b, c, d, e, f}
  OBVIOUS
<1>3. <<a>> \in Seq(S) /\ <<b, c, d, e, f>> \in Seq(S) /\ <<a, b, c, d, e, f>> \in Seq(S)
  BY <1>2
<1>4. Joins(<<a>>, <<b, c, d, e, f>>, <<a, b, c, d, e, f>>)
  BY DEF Joins
<1>5. <<a>> \o <<b, c, d, e, f>> = <<a, b, c, d, e, f>>
  BY <1>3, <1>4, Joined
<1>6. Begins(<<a>>, <<a>> \o <<b, c, d, e, f>>)
  BY <1>3, BeginsJoined
<1>. QED BY <1>5, <1>6, Zenon

LEMMA JoinTwoOne == \A a, b, c : <<a, b>> \o <<c>> = <<a, b, c>> /\ Begins(<<a, b>>, <<a, b, c>>)
<1>1. SUFFICES ASSUME NEW a, NEW b, NEW c
               PROVE  <<a, b>> \o <<c>> = <<a, b, c>> /\ Begins(<<a, b>>, <<a, b, c>>)
  OBVIOUS
<1>2. PICK S : S = {a, b, c}
  OBVIOUS
<1>3. <<a, b>> \in Seq(S) /\ <<c>> \in Seq(S) /\ <<a, b, c>> \in Seq(S)
  BY <1>2
<1>4. Joins(<<a, b>>, <<c>>, <<a, b, c>>)
  BY DEF Joins
<1>5. <<a, b>> \o <<c>> = <<a, b, c>>
  BY <1>3, <1>4, Joined
<1>6. Begins(<<a, b>>, <<a, b>> \o <<c>>)
  BY <1>3, BeginsJoined
<1>. QED BY <1>5, <1>6, Zenon

LEMMA JoinTwoTwo == \A a, b, c, d : <<a, b>> \o <<c, d>> = <<a, b, c, d>> /\ Begins(<<a, b>>, <<a, b, c, d>>)
<1>1. SUFFICES ASSUME NEW a, NEW b, NEW c, NEW d
               PROVE  <<a, b>> \o <<c, d>> = <<a, b, c, d>> /\ Begins(<<a, b>>, <<a, b, c, d>>)
  OBVIOUS
<1>2. PICK S : S = {a, b, c, d}
  OBVIOUS
<1>3. <<a, b>> \in Seq(S) /\ <<c, d>> \in Seq(S) /\ <<a, b, c, d>> \in Seq(S)
  BY <1>2
<1>4. Joins(<<a, b>>, <<c, d>>, <<a, b, c, d>>)
  BY DEF Joins
<1>5. <<a, b>> \o <<c, d>> = <<a, b, c, d>>
  BY <1>3, <1>4, Joined
<1>6. Begins(<<a, b>>, <<a, b>> \o <<c, d>>)
  BY <1>3, BeginsJoined
<1>. QED BY <1>5, <1>6, Zenon

LEMMA JoinTwoThree == \A a, b, c, d, e : <<a, b>> \o <<c, d, e>> = <<a, b, c, d, e>> /\ Begins(<<a, b>>, <<a, b, c, d, e>>)
<1>1. SUFFICES ASSUME NEW a, NEW b, NEW c, NEW d, NEW e
               PROVE  <<a, b>> \o <<c, d, e>> = <<a, b, c, d, e>> /\ Begins(<<a, b>>, <<a, b, c, d, e>>)
  OBVIOUS
<1>2. PICK S : S = {a, b, c, d, e}
  OBVIOUS
<1>3. <<a, b>> \in Seq(S) /\ <<c, d, e>> \in Seq(S) /\ <<a, b, c, d, e>> \in Seq(S)
  BY <1>2
<1>4. Joins(<<a, b>>, <<c, d, e>>, <<a, b, c, d, e>>)
  BY DEF Joins
<1>5. <<a, b>> \o <<c, d, e>> = <<a, b, c, d, e>>
  BY <1>3, <1>4, Joined
<1>6. Begins(<<a, b>>, <<a, b>> \o <<c, d, e>>)
  BY <1>3, BeginsJoined
<1>. QED BY <1>5, <1>6, Zenon

LEMMA JoinThreeZero == \A a, b, c : <<a, b, c>> \o <<>> = <<a, b, c>> /\ Begins(<<a, b, c>>, <<a, b, c>>)
<1>1. SUFFICES ASSUME NEW a, NEW b, NEW c
               PROVE  <<a, b, c>> \o <<>> = <<a, b, c>> /\ Begins(<<a, b, c>>, <<a, b, c>>)
  OBVIOUS
<1>2. PICK S : S = {a, b, c}
  OBVIOUS
<1>3. <<a, b, c>> \in Seq(S) /\ <<>> \in Seq(S) /\ <<a, b, c>> \in Seq(S)
  BY <1>2
<1>4. Joins(<<a, b, c>>, <<>>, <<a, b, c>>)
  BY DEF Joins
<1>5. <<a, b, c>> \o <<>> = <<a, b, c>>
  BY <1>3, <1>4, Joined
<1>6. Begins(<<a, b, c>>, <<a, b, c>> \o <<>>)
  BY <1>3, BeginsJoined
<1>. QED BY <1>5, <1>6, Zenon

\* The entry with this prefix and this rest gives the reserved word w.
IsEntry(prefix, rest, w) ==
  /\ prefix \o rest = w /\ Begins(prefix, w) /\ w \in Reserved
  /\ Branch(prefix, rest) \in Trie

LEMMA EntryWords ==
  /\ IsEntry(<<"a", "c">>, <<"t", "o", "r">>, <<"a", "c", "t", "o", "r">>)
  /\ IsEntry(<<"a", "n">>, <<"d">>, <<"a", "n", "d">>)
  /\ IsEntry(<<"e">>, <<"l", "s", "e">>, <<"e", "l", "s", "e">>)
  /\ IsEntry(<<"f", "a">>, <<"l", "s", "e">>, <<"f", "a", "l", "s", "e">>)
  /\ IsEntry(<<"f", "o">>, <<"r">>, <<"f", "o", "r">>)
  /\ IsEntry(<<"f", "u">>, <<"n">>, <<"f", "u", "n">>)
  /\ IsEntry(<<"i">>, <<"f">>, <<"i", "f">>)
  /\ IsEntry(<<"n">>, <<"i", "l">>, <<"n", "i", "l">>)
  /\ IsEntry(<<"o">>, <<"r">>, <<"o", "r">>)
  /\ IsEntry(<<"p">>, <<"r", "i", "n", "t">>, <<"p", "r", "i", "n", "t">>)
  /\ IsEntry(<<"r">>, <<"e", "t", "u", "r", "n">>, <<"r", "e", "t", "u", "r", "n">>)
  /\ IsEntry(<<"s">>, <<"e", "n", "d">>, <<"s", "e", "n", "d">>)
  /\ IsEntry(<<"t", "h">>, <<"i", "s">>, <<"t", "h", "i", "s">>)
  /\ IsEntry(<<"t", "r">>, <<"u", "e">>, <<"t", "r", "u", "e">>)
  /\ IsEntry(<<"w">>, <<"h", "i", "l", "e">>, <<"w", "h", "i", "l", "e">>)
<1>1. IsEntry(<<"a", "c">>, <<"t", "o", "r">>, <<"a", "c", "t", "o", "r">>)
  <2>1. <<"a", "c">> \o <<"t", "o", "r">> = <<"a", "c", "t", "o", "r">> /\ Begins(<<"a", "c">>, <<"a", "c", "t", "o", "r">>)
    BY JoinTwoThree, Zenon
  <2>. QED BY <2>1, Zenon DEF IsEntry, Reserved, Trie
<1>2. IsEntry(<<"a", "n">>, <<"d">>, <<"a", "n", "d">>)
  <2>1. <<"a", "n">> \o <<"d">> = <<"a", "n", "d">> /\ Begins(<<"a", "n">>, <<"a", "n", "d">>)
    BY JoinTwoOne, Zenon
  <2>. QED BY <2>1, Zenon DEF IsEntry, Reserved, Trie
<1>3. IsEntry(<<"e">>, <<"l", "s", "e">>, <<"e", "l", "s", "e">>)
  <2>1. <<"e">> \o <<"l", "s", "e">> = <<"e", "l", "s", "e">> /\ Begins(<<"e">>, <<"e", "l", "s", "e">>)
    BY JoinOneThree, Zenon
  <2>. QED BY <2>1, Zenon DEF IsEntry, Reserved, Trie
<1>4. IsEntry(<<"f", "a">>, <<"l", "s", "e">>, <<"f", "a", "l", "s", "e">>)
  <2>1. <<"f", "a">> \o <<"l", "s", "e">> = <<"f", "a", "l", "s", "e">> /\ Begins(<<"f", "a">>, <<"f", "a", "l", "s", "e">>)
    BY JoinTwoThree, Zenon
  <2>. QED BY <2>1, Zenon DEF IsEntry, Reserved, Trie
<1>5. IsEntry(<<"f", "o">>, <<"r">>, <<"f", "o", "r">>)
  <2>1. <<"f", "o">> \o <<"r">> = <<"f", "o", "r">> /\ Begins(<<"f", "o">>, <<"f", "o", "r">>)
    BY JoinTwoOne, Zenon
  <2>. QED BY <2>1, Zenon DEF IsEntry, Reserved, Trie
<1>6. IsEntry(<<"f", "u">>, <<"n">>, <<"f", "u", "n">>)
  <2>1. <<"f", "u">> \o <<"n">> = <<"f", "u", "n">> /\ Begins(<<"f", "u">>, <<"f", "u", "n">>)
    BY JoinTwoOne, Zenon
  <2>. QED BY <2>1, Zenon DEF IsEntry, Reserved, Trie
<1>7. IsEntry(<<"i">>, <<"f">>, <<"i", "f">>)
  <2>1. <<"i">> \o <<"f">> = <<"i", "f">> /\ Begins(<<"i">>, <<"i", "f">>)
    BY JoinOneOne, Zenon
  <2>. QED BY <2>1, Zenon DEF IsEntry, Reserved, Trie
<1>8. IsEntry(<<"n">>, <<"i", "l">>, <<"n", "i", "l">>)
  <2>1. <<"n">> \o <<"i", "l">> = <<"n", "i", "l">> /\ Begins(<<"n">>, <<"n", "i", "l">>)
    BY JoinOneTwo, Zenon
  <2>. QED BY <2>1, Zenon DEF IsEntry, Reserved, Trie
<1>9. IsEntry(<<"o">>, <<"r">>, <<"o", "r">>)
  <2>1. <<"o">> \o <<"r">> = <<"o", "r">> /\ Begins(<<"o">>, <<"o", "r">>)
    BY JoinOneOne, Zenon
  <2>. QED BY <2>1, Zenon DEF IsEntry, Reserved, Trie
<1>10. IsEntry(<<"p">>, <<"r", "i", "n", "t">>, <<"p", "r", "i", "n", "t">>)
  <2>1. <<"p">> \o <<"r", "i", "n", "t">> = <<"p", "r", "i", "n", "t">> /\ Begins(<<"p">>, <<"p", "r", "i", "n", "t">>)
    BY JoinOneFour, Zenon
  <2>. QED BY <2>1, Zenon DEF IsEntry, Reserved, Trie
<1>11. IsEntry(<<"r">>, <<"e", "t", "u", "r", "n">>, <<"r", "e", "t", "u", "r", "n">>)
  <2>1. <<"r">> \o <<"e", "t", "u", "r", "n">> = <<"r", "e", "t", "u", "r", "n">> /\ Begins(<<"r">>, <<"r", "e", "t", "u", "r", "n">>)
    BY JoinOneFive, Zenon
  <2>. QED BY <2>1, Zenon DEF IsEntry, Reserved, Trie
<1>12. IsEntry(<<"s">>, <<"e", "n", "d">>, <<"s", "e", "n", "d">>)
  <2>1. <<"s">> \o <<"e", "n", "d">> = <<"s", "e", "n", "d">> /\ Begins(<<"s">>, <<"s", "e", "n", "d">>)
    BY JoinOneThree, Zenon
  <2>. QED BY <2>1, Zenon DEF IsEntry, Reserved, Trie
<1>13. IsEntry(<<"t", "h">>, <<"i", "s">>, <<"t", "h", "i", "s">>)
  <2>1. <<"t", "h">> \o <<"i", "s">> = <<"t", "h", "i", "s">> /\ Begins(<<"t", "h">>, <<"t", "h", "i", "s">>)
    BY JoinTwoTwo, Zenon
  <2>. QED BY <2>1, Zenon DEF IsEntry, Reserved, Trie
<1>14. IsEntry(<<"t", "r">>, <<"u", "e">>, <<"t", "r", "u", "e">>)
  <2>1. <<"t", "r">> \o <<"u", "e">> = <<"t", "r", "u", "e">> /\ Begins(<<"t", "r">>, <<"t", "r", "u", "e">>)
    BY JoinTwoTwo, Zenon
  <2>. QED BY <2>1, Zenon DEF IsEntry, Reserved, Trie
<1>15. IsEntry(<<"w">>, <<"h", "i", "l", "e">>, <<"w", "h", "i", "l", "e">>)
  <2>1. <<"w">> \o <<"h", "i", "l", "e">> = <<"w", "h", "i", "l", "e">> /\ Begins(<<"w">>, <<"w", "h", "i", "l", "e">>)
    BY JoinOneFour, Zenon
  <2>. QED BY <2>1, Zenon DEF IsEntry, Reserved, Trie
<1>. QED BY <1>1, <1>2, <1>3, <1>4, <1>5, <1>6, <1>7, <1>8, <1>9, <1>10, <1>11, <1>12, <1>13, <1>14, <1>15, Zenon

\* What an entry is made of.
LEMMA EntryParts ==
  /\ \A prefix, rest : /\ Branch(prefix, rest).prefix = prefix
                       /\ Branch(prefix, rest).rest = rest
                       /\ Branch(prefix, rest).open = FALSE
  /\ \A prefix : /\ OpenBranch(prefix).prefix = prefix
                 /\ OpenBranch(prefix).rest = <<>>
                 /\ OpenBranch(prefix).open = TRUE
BY DEF Branch, OpenBranch

\* An entry that compares the rest of the word gives a reserved word, and each of them
\* has such an entry; the others are those of the declarators.
GivesReserved(b) == b.open = FALSE /\ b.prefix \o b.rest \in Reserved
GivesDeclarator(b) ==
  b.open = TRUE /\ b.prefix \in Declarators /\ b.prefix \o b.rest = b.prefix

LEMMA EntryGives == \A b \in Trie : GivesReserved(b) \/ GivesDeclarator(b)
<1>1. ASSUME NEW prefix, NEW rest, NEW w, IsEntry(prefix, rest, w)
      PROVE  GivesReserved(Branch(prefix, rest))
  <2>1. prefix \o rest \in Reserved
    BY <1>1 DEF IsEntry
  <2>2. /\ Branch(prefix, rest).prefix = prefix /\ Branch(prefix, rest).rest = rest
        /\ Branch(prefix, rest).open = FALSE
    BY EntryParts
  <2>. QED BY <2>1, <2>2, Zenon DEF GivesReserved
<1>2. ASSUME NEW k \in Declarators PROVE GivesDeclarator(OpenBranch(k))
  <2>1. k \o <<>> = k
    BY JoinThreeZero, Zenon DEF Declarators
  <2>. QED BY <2>1, EntryParts, Zenon DEF GivesDeclarator
<1>3. <<"v", "a", "l">> \in Declarators /\ <<"v", "a", "r">> \in Declarators
  BY Zenon DEF Declarators
<1>. QED BY <1>1, <1>2, <1>3, EntryWords, Zenon DEF Trie

HasEntry(w) ==
  \E b \in Trie : b.open = FALSE /\ b.prefix \o b.rest = w /\ Begins(b.prefix, w)

LEMMA ReservedHaveEntry == \A w \in Reserved : HasEntry(w)
<1>1. ASSUME NEW prefix, NEW rest, NEW w, IsEntry(prefix, rest, w) PROVE HasEntry(w)
  <2>1. /\ prefix \o rest = w /\ Begins(prefix, w) /\ Branch(prefix, rest) \in Trie
    BY <1>1 DEF IsEntry
  <2>2. PICK b \in Trie : b = Branch(prefix, rest)
    BY <2>1, Zenon
  <2>3. b.prefix = prefix /\ b.rest = rest /\ b.open = FALSE
    BY <2>2, EntryParts, Zenon
  <2>. QED BY <2>1, <2>3, Zenon DEF HasEntry
<1>. QED BY <1>1, EntryWords, Zenon DEF Reserved

LEMMA DeclaratorsHaveEntry ==
  \A k \in Declarators : \E b \in Trie : b.open = TRUE /\ b.prefix = k
<1>1. \A k \in Declarators : OpenBranch(k) \in Trie
  BY Zenon DEF Declarators, Trie
<1>. QED BY <1>1, EntryParts, Zenon

\* The entry b is the one for words that begin with the characters x, y and z.
EntryAt(b, x, y, z) ==
  \/ b = Branch(<<"a", "c">>, <<"t", "o", "r">>) /\ x = "a" /\ y = "c"
  \/ b = Branch(<<"a", "n">>, <<"d">>) /\ x = "a" /\ y = "n"
  \/ b = Branch(<<"e">>, <<"l", "s", "e">>) /\ x = "e"
  \/ b = Branch(<<"f", "a">>, <<"l", "s", "e">>) /\ x = "f" /\ y = "a"
  \/ b = Branch(<<"f", "o">>, <<"r">>) /\ x = "f" /\ y = "o"
  \/ b = Branch(<<"f", "u">>, <<"n">>) /\ x = "f" /\ y = "u"
  \/ b = Branch(<<"i">>, <<"f">>) /\ x = "i"
  \/ b = Branch(<<"n">>, <<"i", "l">>) /\ x = "n"
  \/ b = Branch(<<"o">>, <<"r">>) /\ x = "o"
  \/ b = Branch(<<"p">>, <<"r", "i", "n", "t">>) /\ x = "p"
  \/ b = Branch(<<"r">>, <<"e", "t", "u", "r", "n">>) /\ x = "r"
  \/ b = Branch(<<"s">>, <<"e", "n", "d">>) /\ x = "s"
  \/ b = Branch(<<"t", "h">>, <<"i", "s">>) /\ x = "t" /\ y = "h"
  \/ b = Branch(<<"t", "r">>, <<"u", "e">>) /\ x = "t" /\ y = "r"
  \/ b = Branch(<<"w">>, <<"h", "i", "l", "e">>) /\ x = "w"
  \/ b = OpenBranch(<<"v", "a", "l">>) /\ x = "v" /\ y = "a" /\ z = "l"
  \/ b = OpenBranch(<<"v", "a", "r">>) /\ x = "v" /\ y = "a" /\ z = "r"

LEMMA EntryAtIsOne ==
  ASSUME NEW x, NEW y, NEW z, NEW b, EntryAt(b, x, y, z), NEW c, EntryAt(c, x, y, z)
  PROVE  b = c
BY DEF EntryAt

\* A word that begins with a prefix has its characters.
LEMMA BeginsWith ==
  ASSUME NEW w \in Seq(Char)
  PROVE  /\ \A a : Begins(<<a>>, w) => w[1] = a
         /\ \A a, b : Begins(<<a, b>>, w) => w[1] = a /\ w[2] = b
         /\ \A a, b, c : Begins(<<a, b, c>>, w) <=>
                          Len(w) >= 3 /\ SubSeq(w, 1, 3) = <<a, b, c>>
         /\ \A a, b, c : Begins(<<a, b, c>>, w) => w[1] = a /\ w[2] = b /\ w[3] = c
<1>1. \A n \in 1..Len(w) : \A i \in 1..n : SubSeq(w, 1, n)[i] = w[i]
  OBVIOUS
<1>2. ASSUME NEW a, Begins(<<a>>, w) PROVE w[1] = a
  <2>1. Len(<<a>>) = 1 /\ <<a>>[1] = a
    OBVIOUS
  <2>2. 1 <= Len(w) /\ SubSeq(w, 1, 1) = <<a>>
    BY <1>2, <2>1, Zenon DEF Begins
  <2>3. 1 \in 1..Len(w) /\ 1 \in 1..1
    BY <2>2
  <2>. QED BY <1>1, <2>1, <2>2, <2>3, Zenon
<1>3. ASSUME NEW a, NEW b, Begins(<<a, b>>, w) PROVE w[1] = a /\ w[2] = b
  <2>1. Len(<<a, b>>) = 2 /\ <<a, b>>[1] = a /\ <<a, b>>[2] = b
    OBVIOUS
  <2>2. 2 <= Len(w) /\ SubSeq(w, 1, 2) = <<a, b>>
    BY <1>3, <2>1, Zenon DEF Begins
  <2>3. 2 \in 1..Len(w) /\ 1 \in 1..2 /\ 2 \in 1..2
    BY <2>2
  <2>. QED BY <1>1, <2>1, <2>2, <2>3, Zenon
<1>4. ASSUME NEW a, NEW b, NEW c
      PROVE  Begins(<<a, b, c>>, w) <=> Len(w) >= 3 /\ SubSeq(w, 1, 3) = <<a, b, c>>
  <2>1. Len(<<a, b, c>>) = 3
    OBVIOUS
  <2>. QED BY <2>1 DEF Begins
<1>5. ASSUME NEW a, NEW b, NEW c, Begins(<<a, b, c>>, w) PROVE w[1] = a /\ w[2] = b /\ w[3] = c
  <2>1. <<a, b, c>>[1] = a /\ <<a, b, c>>[2] = b /\ <<a, b, c>>[3] = c
    OBVIOUS
  <2>2. Len(w) >= 3 /\ SubSeq(w, 1, 3) = <<a, b, c>>
    BY <1>4, <1>5
  <2>3. 3 \in 1..Len(w) /\ 1 \in 1..3 /\ 2 \in 1..3 /\ 3 \in 1..3
    BY <2>2
  <2>. QED BY <1>1, <2>1, <2>2, <2>3, Zenon
<1>. QED BY <1>2, <1>3, <1>4, <1>5, Zenon

AtStart(b, w) == Begins(b.prefix, w) => EntryAt(b, w[1], w[2], w[3])

LEMMA EntryAtStart ==
  ASSUME NEW w \in Seq(Char)
  PROVE  \A b \in Trie : AtStart(b, w)
<1>1. ASSUME NEW a, NEW rest, Begins(Branch(<<a>>, rest).prefix, w)
      PROVE  w[1] = a
  <2>1. Branch(<<a>>, rest).prefix = <<a>>
    BY EntryParts
  <2>2. Begins(<<a>>, w)
    BY <1>1, <2>1, Zenon
  <2>. QED BY <2>2, BeginsWith, Zenon
<1>2. ASSUME NEW a, NEW b, NEW rest, Begins(Branch(<<a, b>>, rest).prefix, w)
      PROVE  w[1] = a /\ w[2] = b
  <2>1. Branch(<<a, b>>, rest).prefix = <<a, b>>
    BY EntryParts
  <2>2. Begins(<<a, b>>, w)
    BY <1>2, <2>1, Zenon
  <2>. QED BY <2>2, BeginsWith, Zenon
<1>3. ASSUME NEW a, NEW b, NEW c, Begins(OpenBranch(<<a, b, c>>).prefix, w)
      PROVE  w[1] = a /\ w[2] = b /\ w[3] = c
  <2>1. OpenBranch(<<a, b, c>>).prefix = <<a, b, c>>
    BY EntryParts
  <2>2. Begins(<<a, b, c>>, w)
    BY <1>3, <2>1, Zenon
  <2>. QED BY <2>2, BeginsWith, Zenon
<1>4. AtStart(Branch(<<"a", "c">>, <<"t", "o", "r">>), w)
  BY <1>2, Zenon DEF AtStart, EntryAt
<1>5. AtStart(Branch(<<"a", "n">>, <<"d">>), w)
  BY <1>2, Zenon DEF AtStart, EntryAt
<1>6. AtStart(Branch(<<"e">>, <<"l", "s", "e">>), w)
  BY <1>1, Zenon DEF AtStart, EntryAt
<1>7. AtStart(Branch(<<"f", "a">>, <<"l", "s", "e">>), w)
  BY <1>2, Zenon DEF AtStart, EntryAt
<1>8. AtStart(Branch(<<"f", "o">>, <<"r">>), w)
  BY <1>2, Zenon DEF AtStart, EntryAt
<1>9. AtStart(Branch(<<"f", "u">>, <<"n">>), w)
  BY <1>2, Zenon DEF AtStart, EntryAt
<1>10. AtStart(Branch(<<"i">>, <<"f">>), w)
  BY <1>1, Zenon DEF AtStart, EntryAt
<1>11. AtStart(Branch(<<"n">>, <<"i", "l">>), w)
  BY <1>1, Zenon DEF AtStart, EntryAt
<1>12. AtStart(Branch(<<"o">>, <<"r">>), w)
  BY <1>1, Zenon DEF AtStart, EntryAt
<1>13. AtStart(Branch(<<"p">>, <<"r", "i", "n", "t">>), w)
  BY <1>1, Zenon DEF AtStart, EntryAt
<1>14. AtStart(Branch(<<"r">>, <<"e", "t", "u", "r", "n">>), w)
  BY <1>1, Zenon DEF AtStart, EntryAt
<1>15. AtStart(Branch(<<"s">>, <<"e", "n", "d">>), w)
  BY <1>1, Zenon DEF AtStart, EntryAt
<1>16. AtStart(Branch(<<"t", "h">>, <<"i", "s">>), w)
  BY <1>2, Zenon DEF AtStart, EntryAt
<1>17. AtStart(Branch(<<"t", "r">>, <<"u", "e">>), w)
  BY <1>2, Zenon DEF AtStart, EntryAt
<1>18. AtStart(Branch(<<"w">>, <<"h", "i", "l", "e">>), w)
  BY <1>1, Zenon DEF AtStart, EntryAt
<1>19. AtStart(OpenBranch(<<"v", "a", "l">>), w)
  BY <1>3, Zenon DEF AtStart, EntryAt
<1>20. AtStart(OpenBranch(<<"v", "a", "r">>), w)
  BY <1>3, Zenon DEF AtStart, EntryAt
<1>. QED BY <1>4, <1>5, <1>6, <1>7, <1>8, <1>9, <1>10, <1>11, <1>12, <1>13, <1>14, <1>15, <1>16, <1>17, <1>18, <1>19, <1>20, Zenon DEF Trie

\* The trie gives every word the kind of the lexical grammar.
LEMMA IdentifierTypeIs ==
  ASSUME NEW w \in Seq(Char), Word(w)
  PROVE  IdentifierType(w) = KindOf(w)
<1>1. ASSUME NEW b \in Trie, Begins(b.prefix, w), NEW c \in Trie, Begins(c.prefix, w) PROVE b = c
  <2>1. EntryAt(b, w[1], w[2], w[3]) /\ EntryAt(c, w[1], w[2], w[3])
    BY <1>1, EntryAtStart, Zenon DEF AtStart
  <2>. QED BY <2>1, EntryAtIsOne
<1>2. ASSUME NEW k \in Declarators PROVE Begins(k, w) <=> Len(w) >= 3 /\ SubSeq(w, 1, 3) = k
  <2>1. \A a, b, c : Begins(<<a, b, c>>, w) <=> Len(w) >= 3 /\ SubSeq(w, 1, 3) = <<a, b, c>>
    BY BeginsWith
  <2>2. PICK a, b, c : k = <<a, b, c>>
    BY Zenon DEF Declarators
  <2>3. Begins(<<a, b, c>>, w) <=> Len(w) >= 3 /\ SubSeq(w, 1, 3) = <<a, b, c>>
    BY <2>1, Zenon
  <2>. QED BY <2>2, <2>3, Zenon
<1>3. ASSUME NEW b \in Trie, Begins(b.prefix, w), b.open = TRUE \/ CheckKeyword(b, w)
      PROVE  IdentifierType(w) = b.prefix \o b.rest
  <2>1. (CHOOSE c \in Trie : Begins(c.prefix, w)) = b
    BY <1>1, <1>3
  <2>. QED BY <1>3, <2>1, Zenon DEF IdentifierType
<1>4. CASE \E k \in Declarators : Begins(k, w)
  <2>1. PICK k \in Declarators : Begins(k, w)
    BY <1>4
  <2>2. PICK b \in Trie : b.open = TRUE /\ b.prefix = k
    BY DeclaratorsHaveEntry
  <2>3. b.prefix \o b.rest = b.prefix
    BY <2>2, EntryGives, Zenon DEF GivesReserved, GivesDeclarator
  <2>4. IdentifierType(w) = k
    BY <1>3, <2>1, <2>2, <2>3, Zenon
  <2>5. KindOf(w) = k
    BY <1>2, <2>1 DEF KindOf
  <2>. QED BY <2>4, <2>5, Zenon
<1>5. CASE (\A k \in Declarators : ~Begins(k, w)) /\ w \in Reserved
  <2>1. PICK b \in Trie : b.open = FALSE /\ b.prefix \o b.rest = w /\ Begins(b.prefix, w)
    BY <1>5, ReservedHaveEntry, Zenon DEF HasEntry
  <2>2. IdentifierType(w) = w
    BY <1>3, <2>1, Zenon DEF CheckKeyword
  <2>3. KindOf(w) = w
    BY <1>2, <1>5, Zenon DEF KindOf
  <2>. QED BY <2>2, <2>3, Zenon
<1>6. CASE (\A k \in Declarators : ~Begins(k, w)) /\ w \notin Reserved
  <2>1. ASSUME NEW b \in Trie, Begins(b.prefix, w) PROVE ~(b.open \/ CheckKeyword(b, w))
    <3>1. CASE GivesReserved(b)
      BY <1>6, <3>1, Zenon DEF GivesReserved, CheckKeyword
    <3>2. CASE GivesDeclarator(b)
      BY <1>6, <2>1, <3>2, Zenon DEF GivesDeclarator
    <3>. QED BY <3>1, <3>2, EntryGives
  <2>2. IdentifierType(w) = "IDENTIFIER"
    BY <2>1, Zenon DEF IdentifierType
  <2>3. KindOf(w) = "IDENTIFIER"
    BY <1>2, <1>6, Zenon DEF KindOf
  <2>. QED BY <2>2, <2>3, Zenon
<1>. QED BY <1>4, <1>5, <1>6

-----------------------------------------------------------------------------
(***************************************************************************)
(* The readings of a text.                                                 *)
(***************************************************************************)

AnyKind(s) == {"ERROR"} \union {KindOf(SubSeq(s, p, q)) : p \in 1..Len(s), q \in 1..Len(s)}
AnyToken(s) == [kind : AnyKind(s), from : Nat, to : Nat, line : Nat]
AnyReading(s) == [at : 1..(Len(s) + 1), line : Nat, tokens : Seq(AnyToken(s))]

\* A reading goes on by one place at least, and keeps the tokens it has.
Continues(s, r, next) ==
  /\ next \in AnyReading(s) /\ next.at > r.at
  /\ next.tokens = r.tokens \/ \E token \in AnyToken(s) : next.tokens = Append(r.tokens, token)

LEMMA FurtherContinues ==
  ASSUME NEW s \in Text, NEW r \in AnyReading(s), ~(r.at > Len(s))
  PROVE  Continues(s, r, Further(s, r))
<1>. DEFINE p == r.at
            known == Ends(s, p) # {}
            end == IF known THEN Max(Ends(s, p)) ELSE IF s[p] = "quote" THEN Len(s) ELSE p
            w == SubSeq(s, p, end)
            line1 == r.line + IF BlockComment(w, TRUE) THEN 0 ELSE Newlines(s, p, end)
            from == IF Len(w) = 5 /\ w \in Symbols THEN p + 1 ELSE p
            kind == IF known THEN KindOf(w) ELSE "ERROR"
            token == Token(kind, from, end + 1, line1)
<1>1. /\ p \in 1..Len(s) /\ Len(s) \in Nat /\ r.line \in Nat /\ r.tokens \in Seq(AnyToken(s))
      /\ p \in Nat
  BY DEF AnyReading, Text
<1>2. end \in p..Len(s)
  <2>1. CASE known
    <3>1. Ends(s, p) \subseteq p..Len(s)
      BY DEF Ends
    <3>2. Ends(s, p) \in SUBSET (1..Len(s))
      BY <1>1, <3>1
    <3>3. PICK e \in Ends(s, p) : \A q \in Ends(s, p) : e >= q
      BY <1>1, <2>1, <3>2, GreatestElement
    <3>4. Max(Ends(s, p)) = e
      <4>1. Ends(s, p) \in SUBSET Int
        BY <1>1, <3>1
      <4>2. \A q \in Ends(s, p) : q <= e
        BY <3>3, <4>1
      <4>. QED BY <4>1, <4>2, MaxIs
    <3>5. end = e
      BY <2>1, <3>4
    <3>. HIDE DEF end
    <3>. QED BY <3>1, <3>3, <3>5
  <2>2. CASE ~known
    BY <1>1, <2>2
  <2>. QED BY <2>1, <2>2
<1>3. end \in Int /\ end \in 1..Len(s) /\ end + 1 \in 1..(Len(s) + 1) /\ end + 1 > p
  <2>. HIDE DEF end
  <2>. QED BY <1>1, <1>2
<1>4. line1 \in Nat
  <2>. HIDE DEF end, w
  <2>1. Newlines(s, p, end) \in Nat
    BY <1>1, <1>3, NewlinesAre
  <2>2. PICK m : m = IF BlockComment(w, TRUE) THEN 0 ELSE Newlines(s, p, end)
    BY Zenon
  <2>3. m \in Nat
    BY <2>1, <2>2
  <2>4. line1 = r.line + m
    BY <2>2, Zenon
  <2>. HIDE DEF line1
  <2>. QED BY <1>1, <2>3, <2>4
<1>5. token \in AnyToken(s)
  <2>1. kind \in AnyKind(s)
    <3>. HIDE DEF end
    <3>. QED BY <1>1, <1>3 DEF AnyKind
  <2>2. from \in Nat
    BY <1>1
  <2>3. end + 1 \in Nat
    <3>. HIDE DEF end
    <3>. QED BY <1>3
  <2>. HIDE DEF kind, from, end, line1
  <2>. QED BY <1>4, <2>1, <2>2, <2>3 DEF Token, AnyToken
<1>6. PICK toks : toks = IF known /\ Blank(w, end = Len(s)) THEN r.tokens
                         ELSE Append(r.tokens, token)
  BY Zenon
<1>7. toks = r.tokens \/ toks = Append(r.tokens, token)
  BY <1>6, Zenon
<1>8. toks \in Seq(AnyToken(s))
  <2>. HIDE DEF token
  <2>. QED BY <1>1, <1>5, <1>7
<1>9. Further(s, r) = [at |-> end + 1, line |-> line1, tokens |-> toks]
  BY <1>6, Zenon DEF Further
<1>. HIDE DEF end, line1, token
<1>10. PICK next : next = [at |-> end + 1, line |-> line1, tokens |-> toks]
  BY Zenon
<1>11. next \in AnyReading(s) /\ next.at = end + 1 /\ next.tokens = toks
  BY <1>3, <1>4, <1>8, <1>10 DEF AnyReading
<1>12. Continues(s, r, next)
  <2>1. next.at > r.at
    BY <1>3, <1>11, Zenon
  <2>. QED BY <1>5, <1>7, <1>11, <2>1, Zenon DEF Continues
<1>. QED BY <1>9, <1>10, <1>12, Zenon

\* One step of Readings.
Step(s, r) == IF r.at > Len(s) THEN r ELSE Further(s, r)

IsReadings(s, f) ==
  f = [n \in 0..Len(s) |-> IF n = 0 THEN Start ELSE Step(s, f[n - 1])]

LEMMA StepType ==
  ASSUME NEW s \in Text, NEW r \in AnyReading(s)
  PROVE  Step(s, r) \in AnyReading(s)
BY FurtherContinues DEF Step, Continues

LEMMA StartType == ASSUME NEW s \in Text PROVE Start \in AnyReading(s)
<1>1. Len(s) \in Nat /\ 1 \in 1..(Len(s) + 1) /\ 1 \in Nat /\ <<>> \in Seq(AnyToken(s))
  BY DEF Text
<1>. QED BY <1>1 DEF Start, AnyReading

LEMMA ReadingsExist == ASSUME NEW s \in Text PROVE \E f : IsReadings(s, f)
<1>. DEFINE S == AnyReading(s)
            next == [m \in 0..Len(s) |-> [r \in S |-> Step(s, r)]]
<1>1. Len(s) \in Nat /\ 0 \in Nat /\ Start \in S
  BY StartType DEF Text
<1>2. next \in [0..Len(s) -> [S -> S]]
  BY StepType
<1>3. Steps(0, Len(s), S, Start, next)
  <2>. HIDE DEF next, S
  <2>. QED BY <1>1, <1>2 DEF Steps
<1>4. PICK f : IsRecursion(f, 0, Len(s), S, Start, next)
  <2>. HIDE DEF next, S
  <2>. QED BY <1>3, RecursionExists
<1>5. /\ f \in [0..Len(s) -> S]
      /\ \A m \in 0..Len(s) : f[m] = IF m = 0 THEN Start ELSE next[m][f[m - 1]]
  BY <1>4 DEF IsRecursion
<1>6. ASSUME NEW m \in 0..Len(s) PROVE f[m] = IF m = 0 THEN Start ELSE Step(s, f[m - 1])
  <2>1. CASE m = 0
    BY <1>5, <2>1
  <2>2. CASE m # 0
    <3>1. m - 1 \in 0..Len(s)
      BY <1>1, <2>2
    <3>2. f[m - 1] \in S
      BY <1>5, <3>1
    <3>3. next[m][f[m - 1]] = Step(s, f[m - 1])
      <4>. HIDE DEF S
      <4>. QED BY <3>2
    <3>. QED BY <1>5, <2>2, <3>3, Zenon
  <2>. QED BY <2>1, <2>2
<1>7. f = [m \in 0..Len(s) |-> IF m = 0 THEN Start ELSE Step(s, f[m - 1])]
  <2>. HIDE DEF next, S
  <2>1. f = [m \in 0..Len(s) |-> f[m]]
    BY <1>5
  <2>. QED BY <1>6, <2>1
<1>. QED BY <1>7, Zenon DEF IsReadings

LEMMA ReadingsAre ==
  ASSUME NEW s \in Text
  PROVE  /\ Readings(s)[0] = Start
         /\ \A n \in 0..Len(s) : Readings(s)[n] \in AnyReading(s)
         /\ \A n \in 0..Len(s) : n # 0 => Readings(s)[n] = Step(s, Readings(s)[n - 1])
<1>0. Len(s) \in Nat /\ 0 \in 0..Len(s)
  BY DEF Text
<1>1. Readings(s) = CHOOSE f : IsReadings(s, f)
  BY Zenon DEF Readings, IsReadings, Step
<1>2. PICK f : f = Readings(s)
  BY Zenon
<1>3. IsReadings(s, f)
  BY <1>1, <1>2, ReadingsExist, Zenon
<1>4. f = [n \in 0..Len(s) |-> IF n = 0 THEN Start ELSE Step(s, f[n - 1])]
  BY <1>3, Zenon DEF IsReadings
<1>5. \A n \in 0..Len(s) : f[n] = IF n = 0 THEN Start ELSE Step(s, f[n - 1])
  BY <1>4, Zenon
<1>6. \A n \in 0..Len(s) : f[n] \in AnyReading(s)
  <2>. DEFINE Bad == {n \in 0..Len(s) : f[n] \notin AnyReading(s)}
  <2>1. ASSUME Bad # {} PROVE FALSE
    <3>1. PICK n \in Bad : \A m \in Bad : n <= m
      <4>1. Bad \in SUBSET Nat
        OBVIOUS
      <4>. HIDE DEF Bad
      <4>. QED BY <2>1, <4>1, LeastElement
    <3>2. n \in 0..Len(s) /\ f[n] \notin AnyReading(s)
      BY <3>1
    <3>3. n # 0
      BY <1>5, <3>2, StartType
    <3>4. n - 1 \in 0..Len(s) /\ ~(n <= n - 1)
      BY <1>0, <3>2, <3>3
    <3>5. f[n - 1] \in AnyReading(s)
      BY <3>1, <3>4
    <3>6. f[n] = Step(s, f[n - 1])
      BY <1>5, <3>2, <3>3, Zenon
    <3>. QED BY <3>2, <3>5, <3>6, StepType
  <2>. QED BY <2>1
<1>. QED BY <1>0, <1>2, <1>5, <1>6, Zenon

\* Each reading is further than the one before, until the text is read.
LEMMA ReadingsAdvance ==
  ASSUME NEW s \in Text, NEW n \in 0..Len(s), Readings(s)[n].at <= Len(s)
  PROVE  n + 1 <= Readings(s)[n].at
<1>. DEFINE Bad == {m \in 0..Len(s) : Readings(s)[m].at <= Len(s) /\ ~(m + 1 <= Readings(s)[m].at)}
<1>0. Len(s) \in Nat
  BY DEF Text
<1>1. ASSUME Bad # {} PROVE FALSE
  <2>1. PICK m \in Bad : \A l \in Bad : m <= l
    <3>1. Bad \in SUBSET Nat
      OBVIOUS
    <3>. HIDE DEF Bad
    <3>. QED BY <1>1, <3>1, LeastElement
  <2>2. m \in 0..Len(s) /\ Readings(s)[m].at <= Len(s) /\ ~(m + 1 <= Readings(s)[m].at)
    BY <2>1
  <2>3. m # 0
    BY <2>2, ReadingsAre DEF Start
  <2>4. m - 1 \in 0..Len(s) /\ ~(m <= m - 1) /\ m \in Int
    BY <1>0, <2>2, <2>3
  <2>5. PICK r \in AnyReading(s) : r = Readings(s)[m - 1]
    BY <2>4, ReadingsAre, Zenon
  <2>6. PICK next \in AnyReading(s) : next = Readings(s)[m]
    BY <2>2, ReadingsAre, Zenon
  <2>7. next = Step(s, r)
    BY <2>2, <2>3, <2>5, <2>6, ReadingsAre, Zenon
  <2>8. r.at \in Int /\ next.at \in Int
    BY <1>0 DEF AnyReading
  <2>9. next.at <= Len(s) /\ ~(m + 1 <= next.at)
    BY <2>2, <2>6, Zenon
  <2>10. ~(r.at > Len(s))
    BY <2>7, <2>8, <2>9, <1>0 DEF Step
  <2>11. next.at > r.at
    BY <2>7, <2>10, FurtherContinues DEF Step, Continues
  <2>12. r.at <= Len(s) /\ m - 1 + 1 <= r.at
    <3>1. m - 1 \notin Bad
      BY <2>1, <2>4
    <3>2. r.at <= Len(s)
      BY <1>0, <2>8, <2>10
    <3>. QED BY <2>4, <2>5, <3>1, <3>2
  <2>. QED BY <2>4, <2>8, <2>9, <2>11, <2>12
<1>. QED BY <1>1

Prefix(t, u) == Len(t) <= Len(u) /\ \A i \in 1..Len(t) : t[i] = u[i]

\* Readings keep the tokens they have, and stay the same once the text is read.
Keeps(s, n, m) ==
  /\ Prefix(Readings(s)[n].tokens, Readings(s)[m].tokens)
  /\ Readings(s)[n].at > Len(s) => Readings(s)[m] = Readings(s)[n]

LEMMA ReadingsKeep ==
  ASSUME NEW s \in Text, NEW n \in 0..Len(s)
  PROVE  \A m \in n..Len(s) : Keeps(s, n, m)
<1>. DEFINE Bad == {m \in n..Len(s) : ~Keeps(s, n, m)}
<1>0. Len(s) \in Nat /\ n \in Nat
  BY DEF Text
<1>1. ASSUME Bad # {} PROVE FALSE
  <2>1. PICK m \in Bad : \A l \in Bad : m <= l
    <3>1. Bad \in SUBSET Nat
      BY <1>0
    <3>. HIDE DEF Bad
    <3>. QED BY <1>1, <3>1, LeastElement
  <2>2. m \in n..Len(s) /\ ~Keeps(s, n, m) /\ m \in 0..Len(s)
    BY <1>0, <2>1
  <2>3. PICK r \in AnyReading(s) : r = Readings(s)[n]
    BY ReadingsAre, Zenon
  <2>4. PICK next \in AnyReading(s) : next = Readings(s)[m]
    BY <2>2, ReadingsAre, Zenon
  <2>5. r.tokens \in Seq(AnyToken(s)) /\ next.tokens \in Seq(AnyToken(s))
    BY DEF AnyReading
  <2>6. m # n
    <3>1. Prefix(r.tokens, r.tokens)
      BY <2>5 DEF Prefix
    <3>2. Keeps(s, n, n)
      BY <2>3, <3>1, Zenon DEF Keeps
    <3>. QED BY <2>2, <3>2, Zenon
  <2>7. m - 1 \in n..Len(s) /\ m - 1 \in 0..Len(s) /\ ~(m <= m - 1) /\ m # 0
    BY <1>0, <2>2, <2>6
  <2>8. Keeps(s, n, m - 1)
    BY <2>1, <2>7
  <2>9. PICK before \in AnyReading(s) : before = Readings(s)[m - 1]
    BY <2>7, ReadingsAre, Zenon
  <2>10. next = Step(s, before)
    BY <2>2, <2>4, <2>7, <2>9, ReadingsAre, Zenon
  <2>11. Prefix(r.tokens, before.tokens) /\ (r.at > Len(s) => before = r)
    BY <2>3, <2>8, <2>9, Zenon DEF Keeps
  <2>12. r.at > Len(s) => next = r
    BY <2>10, <2>11, Zenon DEF Step
  <2>13. Prefix(r.tokens, next.tokens)
    <3>1. CASE before.at > Len(s)
      BY <2>10, <2>11, <3>1, Zenon DEF Step
    <3>2. CASE ~(before.at > Len(s))
      <4>1. next.tokens = before.tokens
              \/ \E token \in AnyToken(s) : next.tokens = Append(before.tokens, token)
        BY <2>10, <3>2, FurtherContinues, Zenon DEF Step, Continues
      <4>2. CASE next.tokens = before.tokens
        BY <2>11, <4>2, Zenon
      <4>3. ASSUME NEW token \in AnyToken(s), next.tokens = Append(before.tokens, token)
            PROVE  Prefix(r.tokens, next.tokens)
        <5>1. before.tokens \in Seq(AnyToken(s))
          BY DEF AnyReading
        <5>2. PICK t \in Seq(AnyToken(s)) : t = before.tokens
          BY <5>1, Zenon
        <5>3. PICK u : u = Append(t, token)
          BY Zenon
        <5>4. Len(u) = Len(t) + 1 /\ (\A i \in 1..Len(t) : u[i] = t[i]) /\ Len(t) \in Nat
          BY <5>3
        <5>5. PICK old \in Seq(AnyToken(s)) : old = r.tokens
          BY <2>5, Zenon
        <5>6. Len(old) <= Len(t) /\ (\A i \in 1..Len(old) : old[i] = t[i]) /\ Len(old) \in Nat
          BY <2>11, <5>2, <5>5 DEF Prefix
        <5>7. Prefix(old, u)
          BY <5>4, <5>6 DEF Prefix
        <5>. QED BY <4>3, <5>2, <5>3, <5>5, <5>7, Zenon
      <4>. QED BY <4>1, <4>2, <4>3
    <3>. QED BY <3>1, <3>2
  <2>14. Keeps(s, n, m)
    BY <2>3, <2>4, <2>12, <2>13, Zenon DEF Keeps
  <2>. QED BY <2>2, <2>14, Zenon
<1>. QED BY <1>1

\* The tokens of a reading are the first of the text's.
LEMMA ReadingBegins ==
  ASSUME NEW s \in Text, NEW n \in 0..Len(s),
         NEW toks, toks = Readings(s)[n].tokens
  PROVE  Len(toks) <= Len(Tokens(s)) /\ toks = SubSeq(Tokens(s), 1, Len(toks))
<1>0. Len(s) \in Nat /\ Len(s) \in 0..Len(s) /\ Len(s) \in n..Len(s)
  BY DEF Text
<1>1. PICK last \in AnyReading(s) : last = Readings(s)[Len(s)]
  BY <1>0, ReadingsAre, Zenon
<1>2. PICK all \in Seq(AnyToken(s)) : all = last.tokens
  BY DEF AnyReading
<1>3. Prefix(toks, all)
  BY <1>0, <1>1, <1>2, ReadingsKeep, Zenon DEF Keeps
<1>4. PICK eof : eof = Token("EOF", last.at, last.at, last.line)
  BY Zenon
<1>5. Tokens(s) = Append(all, eof)
  BY <1>1, <1>2, <1>4, Zenon DEF Tokens
<1>6. PICK S : S = AnyToken(s) \union {eof}
  BY Zenon
<1>7. all \in Seq(S) /\ eof \in S
  <2>1. AnyToken(s) \subseteq S /\ eof \in S
    BY <1>6
  <2>. QED BY <2>1, SeqOfMore
<1>8. PICK u \in Seq(S) : u = Append(all, eof)
  <2>1. Append(all, eof) \in Seq(S)
    BY <1>7
  <2>. QED BY <2>1, Zenon
<1>9. Len(u) = Len(all) + 1 /\ (\A i \in 1..Len(all) : u[i] = all[i]) /\ Len(all) \in Nat
  BY <1>7, <1>8
<1>10. toks \in Seq(AnyToken(s))
  <2>1. Readings(s)[n] \in AnyReading(s)
    BY ReadingsAre
  <2>. QED BY <2>1 DEF AnyReading
<1>11. Len(toks) \in 0..Len(u) /\ \A i \in 1..Len(toks) : toks[i] = u[i]
  BY <1>3, <1>9, <1>10 DEF Prefix
<1>12. PICK v \in Seq(S) : v = SubSeq(u, 1, Len(toks))
  BY <1>11, PrefixIs, Zenon
<1>13. Len(v) = Len(toks) /\ \A i \in 1..Len(toks) : v[i] = u[i]
  BY <1>11, <1>12, PrefixIs
<1>14. toks = v
  BY <1>10, <1>11, <1>13, SameSeq
<1>15. Len(toks) <= Len(u)
  BY <1>11
<1>. QED BY <1>5, <1>8, <1>12, <1>14, <1>15, Zenon

-----------------------------------------------------------------------------
(***************************************************************************)
(* The steps of the scanner.                                               *)
(***************************************************************************)

\* The reading that the scanner has come to.
Reading == [at |-> current, line |-> line, tokens |-> tokens]

Here == source \in Text /\ current \in 1..(Len(source) + 1) /\ line \in Nat

\* A step that reads one lexeme.
Goes == Reading' = Further(source, Reading) /\ UNCHANGED source /\ current <= Len(source)

\* Peek and the characters after it.
LEMMA AtIs ==
  ASSUME Here
  PROVE  /\ Len(source) \in Nat /\ current \in Nat
         /\ \A p \in 1..Len(source) : At(p) = source[p] /\ source[p] # "end"
         /\ \A p \in Int : p > Len(source) => At(p) = "end"
BY DEF Here, Text, Char, At

LEMMA PeekIs ==
  ASSUME Here, Peek # "end"
  PROVE  /\ Place(source, current) /\ Peek = source[current] /\ PeekNext = At(current + 1)
         /\ current < Len(source) => PeekNext = source[current + 1]
<1>1. current \in 1..Len(source)
  BY DEF Here, Text, Peek, At
<1>2. Peek = source[current]
  BY <1>1, AtIs DEF Peek
<1>3. PeekNext = At(current + 1)
  BY DEF PeekNext, IsAtEnd
<1>4. current < Len(source) => current + 1 \in 1..Len(source)
  BY <1>1
<1>. QED BY <1>1, <1>2, <1>3, <1>4, AtIs DEF Place, Here

\* Where a loop stops that goes on from p until it meets one of the places.
LEMMA UntilIs ==
  ASSUME Len(source) \in Nat, NEW p \in 1..(Len(source) + 1), NEW places \in SUBSET After(p),
         NEW e, e = Until(places)
  PROVE  /\ e \in p..(Len(source) + 1) /\ (e # Len(source) + 1 => e \in places)
         /\ \A q \in p..(e - 1) : q \notin places
<1>1. After(p) = p..Len(source)
  BY DEF After
<1>2. PICK S : S = places \union {Len(source) + 1}
  BY Zenon
<1>3. S \in SUBSET Nat /\ S # {} /\ S \subseteq p..(Len(source) + 1)
  BY <1>1, <1>2
<1>4. PICK n \in S : \A m \in S : n <= m
  BY <1>3, LeastElement
<1>5. S \in SUBSET Int
  BY <1>3
<1>6. Min(S) = n
  BY <1>4, <1>5, MinIs
<1>7. e = n
  BY <1>2, <1>6, Zenon DEF Until
<1>8. \A q \in p..(e - 1) : q \notin S
  BY <1>3, <1>4, <1>7
<1>. QED BY <1>2, <1>3, <1>4, <1>7, <1>8

\* A step of skip_whitespace over a blank or a comment.
LEMMA SkipGoes ==
  ASSUME NEW e, NEW lines, SkipsAt(source, current, e, lines), SkipTo(e + 1, lines)
  PROVE  Goes
<1>1. PICK r : r = Reading
  BY Zenon
<1>2. r.at = current /\ r.line = line /\ r.tokens = tokens
  BY <1>1 DEF Reading
<1>3. SkipsAt(source, r.at, e, lines)
  BY <1>2, Zenon
<1>4. Further(source, r) = ReadOn(r, e, lines, r.tokens)
  BY <1>3, FurtherSkips
<1>5. current' = e + 1 /\ line' = line + lines /\ source' = source /\ tokens' = tokens
  BY DEF SkipTo
<1>6. Reading' = [at |-> e + 1, line |-> line + lines, tokens |-> tokens]
  BY <1>5, Zenon DEF Reading
<1>7. current <= Len(source)
  BY DEF SkipsAt, LongestAt, Piece, Place, Text
<1>. QED BY <1>1, <1>2, <1>4, <1>5, <1>6, <1>7, Zenon DEF Goes, ReadOn, TokenOf

\* A token for a lexeme.
LEMMA GiveGoes ==
  ASSUME NEW e, NEW kind, NEW from, NEW lines, GivesAt(source, current, e, kind, from, lines),
         Gives(kind, from, e + 1, lines)
  PROVE  Goes
<1>1. PICK r : r = Reading
  BY Zenon
<1>2. r.at = current /\ r.line = line /\ r.tokens = tokens
  BY <1>1 DEF Reading
<1>3. GivesAt(source, r.at, e, kind, from, lines)
  BY <1>2, Zenon
<1>4. Further(source, r) =
        ReadOn(r, e, lines, Append(r.tokens, TokenOf(r, kind, from, e, lines)))
  BY <1>3, FurtherGives
<1>5. /\ current' = e + 1 /\ line' = line + lines /\ source' = source
      /\ tokens' = Append(tokens, Token(kind, from, e + 1, line + lines))
  BY Zenon DEF Gives, Token
<1>6. Reading' = [at |-> e + 1, line |-> line + lines,
                  tokens |-> Append(tokens, Token(kind, from, e + 1, line + lines))]
  BY <1>5, Zenon DEF Reading
<1>7. current <= Len(source)
  BY DEF GivesAt, LongestAt, Piece, Place, Text
<1>. QED BY <1>1, <1>2, <1>4, <1>5, <1>6, <1>7, Zenon DEF Goes, ReadOn, TokenOf

\* An error for what is no lexeme.
LEMMA ErrorGoes ==
  ASSUME NEW e, NEW lines, FailsAt(source, current, e, lines),
         Gives("ERROR", current, e + 1, lines)
  PROVE  Goes
<1>1. PICK r : r = Reading
  BY Zenon
<1>2. r.at = current /\ r.line = line /\ r.tokens = tokens
  BY <1>1 DEF Reading
<1>3. FailsAt(source, r.at, e, lines)
  BY <1>2, Zenon
<1>4. Further(source, r) =
        ReadOn(r, e, lines, Append(r.tokens, TokenOf(r, "ERROR", r.at, e, lines)))
  BY <1>3, FurtherErrs
<1>5. /\ current' = e + 1 /\ line' = line + lines /\ source' = source
      /\ tokens' = Append(tokens, Token("ERROR", current, e + 1, line + lines))
  BY Zenon DEF Gives, Token
<1>6. Reading' = [at |-> e + 1, line |-> line + lines,
                  tokens |-> Append(tokens, Token("ERROR", current, e + 1, line + lines))]
  BY <1>5, Zenon DEF Reading
<1>7. current <= Len(source)
  BY DEF FailsAt, NoneAt, Place, Text
<1>. QED BY <1>1, <1>2, <1>4, <1>5, <1>6, <1>7, Zenon DEF Goes, ReadOn, TokenOf

-----------------------------------------------------------------------------
(***************************************************************************)
(* Each action reads one lexeme.                                           *)
(***************************************************************************)

\* The kinds of lexemes that are no words.
LEMMA KindIs ==
  ASSUME NEW s, NEW p, NEW q, Piece(s, p, q), ~WordAt(s, p, q)
  PROVE  /\ NumberAt(s, p, q) => KindOf(SubSeq(s, p, q)) = "NUMBER"
         /\ ~NumberAt(s, p, q) /\ QuotedAt(s, p, q) => KindOf(SubSeq(s, p, q)) = "STRING"
         /\ ~NumberAt(s, p, q) /\ ~QuotedAt(s, p, q) =>
              KindOf(SubSeq(s, p, q)) = IF SendAt(s, p, q) THEN Send ELSE SubSeq(s, p, q)
<1>1. PICK w : w = SubSeq(s, p, q)
  BY Zenon
<1>2. IsPiece(s, p, q, w)
  BY <1>1, PieceOf, Zenon
<1>3. Word(w) <=> WordAt(s, p, q)
  BY <1>2, WordIs
<1>4. Number(w) <=> NumberAt(s, p, q)
  BY <1>2, NumberIs
<1>5. Quoted(w) <=> QuotedAt(s, p, q)
  BY <1>2, QuotedIs
<1>6. w = <<".", "s", "e", "n", "d">> <=> SendAt(s, p, q)
  BY <1>2, SendIs
<1>7. /\ NumberAt(s, p, q) => KindOf(w) = "NUMBER"
      /\ ~NumberAt(s, p, q) /\ QuotedAt(s, p, q) => KindOf(w) = "STRING"
      /\ ~NumberAt(s, p, q) /\ ~QuotedAt(s, p, q) =>
           KindOf(w) = IF SendAt(s, p, q) THEN Send ELSE w
  BY <1>3, <1>4, <1>5, <1>6, Zenon DEF KindOf, Send
<1>. QED BY <1>1, <1>7, Zenon

\* Pieces of one and of two characters.
LEMMA ShortPieces ==
  ASSUME NEW s, NEW p, Place(s, p)
  PROVE  /\ SubSeq(s, p, p) = <<s[p]>>
         /\ p < Len(s) => SubSeq(s, p, p + 1) = <<s[p], s[p + 1]>>
<1>1. p \in Int /\ Len(s) \in Nat /\ p <= Len(s) /\ \A q \in p..Len(s) : Piece(s, p, q)
  BY Pieces
<1>2. SubSeq(s, p, p) = <<s[p]>>
  <2>1. PICK w : w = SubSeq(s, p, p)
    BY Zenon
  <2>2. Piece(s, p, p)
    BY <1>1
  <2>3. IsPiece(s, p, p, w)
    BY <2>1, <2>2, PieceOf, Zenon
  <2>4. w \in Seq(Char) /\ Len(w) = 1 /\ w[1] = s[p]
    BY <2>3 DEF IsPiece
  <2>5. w = <<s[p]>>
    BY <2>4, OneCharIs
  <2>. QED BY <2>1, <2>5, Zenon
<1>3. ASSUME p < Len(s) PROVE SubSeq(s, p, p + 1) = <<s[p], s[p + 1]>>
  <2>1. PICK w : w = SubSeq(s, p, p + 1)
    BY Zenon
  <2>2. Piece(s, p, p + 1)
    BY <1>1, <1>3
  <2>3. IsPiece(s, p, p + 1, w)
    BY <2>1, <2>2, PieceOf, Zenon
  <2>4. w \in Seq(Char) /\ Len(w) = 2 /\ w[1] = s[p] /\ w[2] = s[p + 1]
    BY <2>3 DEF IsPiece
  <2>5. \A a, b : w = <<a, b>> <=> Len(w) = 2 /\ w[1] = a /\ w[2] = b
    BY <2>4, TwoCharsAre
  <2>. QED BY <2>1, <2>4, <2>5, Zenon
<1>. QED BY <1>2, <1>3

LEMMA SkipBlankGoes == ASSUME Here, SkipBlank PROVE Goes
<1>1. Peek = "blank" /\ SkipTo(current + 1, 0)
  BY DEF SkipBlank
<1>2. Place(source, current) /\ source[current] = "blank"
  BY <1>1, PeekIs
<1>3. /\ LongestAt(source, current, current)
      /\ (\A atEnd : BlankAt(source, current, current, atEnd))
      /\ ~OpensBlock(source, current, current)
  BY <1>2, SpaceLongest
<1>4. Newlines(source, current, current) = 0
  <2>1. current \in Int /\ \A i \in current..current : source[i] # "newline"
    BY <1>2, AtIs
  <2>. QED BY <2>1, NewlinesAre
<1>5. SkipsAt(source, current, current, 0)
  BY <1>3, <1>4, Zenon DEF SkipsAt
<1>. QED BY <1>1, <1>5, SkipGoes

LEMMA SkipNewlineGoes == ASSUME Here, SkipNewline PROVE Goes
<1>1. Peek = "newline" /\ SkipTo(current + 1, 1)
  BY DEF SkipNewline
<1>2. Place(source, current) /\ source[current] = "newline"
  BY <1>1, PeekIs
<1>3. /\ LongestAt(source, current, current)
      /\ (\A atEnd : BlankAt(source, current, current, atEnd))
      /\ ~OpensBlock(source, current, current)
  BY <1>2, SpaceLongest
<1>4. Newlines(source, current, current) = 1
  <2>1. current \in Int
    BY AtIs
  <2>. QED BY <1>2, <2>1, NewlinesAre
<1>5. SkipsAt(source, current, current, 1)
  BY <1>3, <1>4, Zenon DEF SkipsAt
<1>. QED BY <1>1, <1>5, SkipGoes

LEMMA SkipLineCommentGoes == ASSUME Here, SkipLineComment PROVE Goes
<1>1. PICK places : places = {q \in After(current) : At(q) = "newline"}
  BY Zenon
<1>2. PICK u : u = Until(places)
  BY Zenon
<1>3. Peek = "/" /\ PeekNext = "/" /\ SkipTo(u, 0)
  BY <1>1, <1>2, Zenon DEF SkipLineComment
<1>4. Place(source, current) /\ source[current] = "/" /\ At(current + 1) = "/"
  BY <1>3, PeekIs
<1>5. /\ Len(source) \in Nat /\ current \in 1..Len(source) /\ current \in Nat
      /\ current + 1 \in 1..Len(source) /\ source[current + 1] = "/"
  BY <1>4, AtIs DEF Place
<1>6. places \in SUBSET After(current) /\ current \in 1..(Len(source) + 1)
  BY <1>1, <1>5
<1>7. /\ u \in current..(Len(source) + 1) /\ (u # Len(source) + 1 => u \in places)
      /\ \A q \in current..(u - 1) : q \notin places
  BY <1>2, <1>5, <1>6, UntilIs
<1>8. \A q \in current..Len(source) : q \in places <=> source[q] = "newline"
  BY <1>1, <1>5, AtIs DEF After
<1>9. u # current /\ u # current + 1
  BY <1>4, <1>5, <1>7, <1>8
<1>10. PICK e \in (current + 1)..Len(source) : e = u - 1
  BY <1>5, <1>7, <1>9
<1>11. \A i \in current..e : source[i] # "newline"
  BY <1>5, <1>7, <1>8, <1>10
<1>12. e < Len(source) => source[e + 1] = "newline"
  BY <1>5, <1>7, <1>8, <1>10
<1>13. /\ LongestAt(source, current, e) /\ LineAt(source, current, e)
       /\ ~OpensBlock(source, current, e)
  BY <1>4, <1>5, <1>11, <1>12, LineLongest
<1>14. Newlines(source, current, e) = 0
  <2>1. current \in Int /\ e \in Int
    BY <1>5
  <2>. QED BY <1>11, <2>1, NewlinesAre
<1>15. SkipsAt(source, current, e, 0)
  BY <1>13, <1>14, Zenon DEF SkipsAt, BlankAt
<1>16. SkipTo(e + 1, 0)
  <2>1. e + 1 = u
    BY <1>5, <1>7, <1>10
  <2>. QED BY <1>3, <2>1, Zenon
<1>. QED BY <1>15, <1>16, SkipGoes

LEMMA SkipBlockCommentGoes == ASSUME Here, SkipBlockComment PROVE Goes
<1>1. PICK places : places = {q \in After(current) : At(q) = "*" /\ At(q + 1) = "/"}
  BY Zenon
<1>2. PICK u : u = Until(places)
  BY Zenon
<1>3. Peek = "/" /\ PeekNext = "*" /\ SkipTo(AfterClose(u), 0)
  BY <1>1, <1>2, Zenon DEF SkipBlockComment
<1>4. Place(source, current) /\ source[current] = "/" /\ At(current + 1) = "*"
  BY <1>3, PeekIs
<1>5. /\ Len(source) \in Nat /\ current \in 1..Len(source) /\ current \in Nat
      /\ current + 1 \in 1..Len(source) /\ source[current + 1] = "*" /\ current < Len(source)
  BY <1>4, AtIs DEF Place
<1>6. places \in SUBSET After(current) /\ current \in 1..(Len(source) + 1)
  BY <1>1, <1>5
<1>7. /\ u \in current..(Len(source) + 1) /\ (u # Len(source) + 1 => u \in places)
      /\ \A q \in current..(u - 1) : q \notin places
  BY <1>2, <1>5, <1>6, UntilIs
<1>8. \A q \in current..(Len(source) - 1) : q \in places <=> CloseAt(source, q)
  <2>1. \A q \in current..(Len(source) - 1) : q \in 1..Len(source) /\ q + 1 \in 1..Len(source)
    BY <1>5
  <2>. QED BY <1>1, <1>5, <2>1, AtIs DEF After, CloseAt
<1>9. Len(source) \notin places
  <2>1. At(Len(source) + 1) = "end"
    BY <1>5, AtIs
  <2>. QED BY <1>1, <2>1
<1>10. CASE u = Len(source) + 1
  <2>1. \A i \in (current + 1)..(Len(source) - 1) : ~CloseAt(source, i)
    BY <1>5, <1>7, <1>8, <1>10
  <2>2. LongestAt(source, current, Len(source)) /\ BlockAt(source, current, Len(source), TRUE)
    BY <1>4, <1>5, <2>1, OpenBlockLongest
  <2>3. SkipsAt(source, current, Len(source), 0)
    BY <2>2, Zenon DEF SkipsAt, BlankAt, BlockAt
  <2>4. SkipTo(Len(source) + 1, 0)
    <3>1. At(u) = "end"
      BY <1>5, <1>10, AtIs
    <3>. QED BY <1>3, <1>10, <3>1, Zenon DEF AfterClose
  <2>. QED BY <2>3, <2>4, SkipGoes
<1>11. CASE u # Len(source) + 1
  <2>1. u \in places /\ u # Len(source) /\ u # current
    <3>1. At(current) = "/"
      BY <1>4, <1>5, AtIs
    <3>. QED BY <1>1, <1>7, <1>9, <1>11, <3>1
  <2>2. u \in (current + 1)..(Len(source) - 1) /\ u \in current..(Len(source) - 1)
    BY <1>5, <1>7, <1>11, <2>1
  <2>3. CloseAt(source, u) /\ \A i \in (current + 1)..(u - 1) : ~CloseAt(source, i)
    BY <1>5, <1>7, <1>8, <2>1, <2>2
  <2>4. PICK e : e = u + 1
    BY Zenon
  <2>5. LongestAt(source, current, e) /\ BlockAt(source, current, e, e = Len(source))
    BY <1>4, <1>5, <2>2, <2>3, <2>4, BlockLongest
  <2>6. SkipsAt(source, current, e, 0)
    BY <2>5, Zenon DEF SkipsAt, BlankAt, BlockAt
  <2>7. SkipTo(e + 1, 0)
    <3>1. At(u) # "end"
      BY <1>1, <2>1
    <3>2. AfterClose(u) = u + 2 /\ e + 1 = u + 2
      BY <2>2, <2>4, <3>1 DEF AfterClose
    <3>. QED BY <1>3, <3>2, Zenon
  <2>. QED BY <2>6, <2>7, SkipGoes
<1>. QED BY <1>10, <1>11

\* A word: letters and digits as far as they go.
LEMMA ScanIdentifierGoes == ASSUME Here, ScanIdentifier PROVE Goes
<1>1. PICK places : places = {q \in After(current) : At(q) \notin Letter \union Digit}
  BY Zenon
<1>2. PICK u : u = Until(places)
  BY Zenon
<1>3. Peek \in Letter /\ Gives(IdentifierType(SubSeq(source, current, u - 1)), current, u, 0)
  BY <1>1, <1>2, Zenon DEF ScanIdentifier
<1>4. Place(source, current) /\ source[current] \in Letter
  BY <1>3, PeekIs, NamedApart
<1>5. Len(source) \in Nat /\ current \in 1..Len(source) /\ current \in Nat
  BY <1>4, AtIs DEF Place
<1>6. places \in SUBSET After(current) /\ current \in 1..(Len(source) + 1)
  BY <1>1, <1>5
<1>7. /\ u \in current..(Len(source) + 1) /\ (u # Len(source) + 1 => u \in places)
      /\ \A q \in current..(u - 1) : q \notin places
  BY <1>2, <1>5, <1>6, UntilIs
<1>8. \A q \in current..Len(source) : q \in places <=> source[q] \notin Letter \union Digit
  BY <1>1, <1>5, AtIs DEF After
<1>9. u # current
  BY <1>4, <1>5, <1>7, <1>8
<1>10. PICK e \in current..Len(source) : e = u - 1
  BY <1>5, <1>7, <1>9
<1>11. \A i \in current..e : source[i] \in Letter \union Digit
  BY <1>5, <1>7, <1>8, <1>10
<1>12. e < Len(source) => source[e + 1] \notin Letter \union Digit
  BY <1>5, <1>7, <1>8, <1>10
<1>13. LongestAt(source, current, e) /\ WordAt(source, current, e) /\ OnlyWord(source, current, e)
  BY <1>4, <1>11, <1>12, WordLongest
<1>14. Newlines(source, current, e) = 0
  <2>1. current \in Int /\ e \in Int /\ \A i \in current..e : source[i] # "newline"
    BY <1>5, <1>11, NamedApart
  <2>. QED BY <2>1, NewlinesAre
<1>15. PICK w : w = SubSeq(source, current, e)
  BY Zenon
<1>16. w \in Seq(Char) /\ Word(w)
  <2>1. IsPiece(source, current, e, w)
    BY <1>13, <1>15, PieceOf, Zenon DEF LongestAt
  <2>. QED BY <1>13, <2>1, WordIs, Zenon DEF IsPiece
<1>17. IdentifierType(w) = KindOf(w)
  BY <1>16, IdentifierTypeIs
<1>18. GivesAt(source, current, e, KindOf(w), current, 0)
  BY <1>13, <1>14, <1>15, Zenon DEF GivesAt, OnlyWord
<1>19. Gives(KindOf(w), current, e + 1, 0)
  <2>1. u = e + 1
    BY <1>5, <1>7, <1>10
  <2>. QED BY <1>3, <1>10, <1>15, <1>17, <2>1, Zenon
<1>. QED BY <1>18, <1>19, GiveGoes

\* Digits from a place on, as far as they go.
LEMMA DigitsAre ==
  ASSUME Here, NEW p \in 1..(Len(source) + 1), NEW u, u = DigitsFrom(p)
  PROVE  /\ u \in p..(Len(source) + 1) /\ \A i \in p..(u - 1) : source[i] \in Digit
         /\ u <= Len(source) => source[u] \notin Digit
<1>1. PICK places : places = {q \in After(p) : At(q) \notin Digit}
  BY Zenon
<1>2. u = Until(places)
  BY <1>1, Zenon DEF DigitsFrom
<1>3. Len(source) \in Nat /\ places \in SUBSET After(p)
  BY <1>1, AtIs
<1>4. /\ u \in p..(Len(source) + 1) /\ (u # Len(source) + 1 => u \in places)
      /\ \A q \in p..(u - 1) : q \notin places
  BY <1>2, <1>3, UntilIs
<1>5. \A q \in p..Len(source) : q \in places <=> source[q] \notin Digit
  BY <1>1, <1>3, AtIs DEF After
<1>. QED BY <1>3, <1>4, <1>5

LEMMA ScanNumberGoes == ASSUME Here, ScanNumber PROVE Goes
<1>1. PICK whole : whole = DigitsFrom(current)
  BY Zenon
<1>2. PICK u : u = DigitsEnd(current)
  BY Zenon
<1>3. /\ Peek \in Digit /\ Gives("NUMBER", current, u, 0)
      /\ u = IF At(whole) = "." /\ At(whole + 1) \in Digit THEN DigitsFrom(whole + 1) ELSE whole
  BY <1>1, <1>2, Zenon DEF ScanNumber, DigitsEnd
<1>4. Place(source, current) /\ source[current] \in Digit
  BY <1>3, PeekIs, NamedApart
<1>5. /\ Len(source) \in Nat /\ current \in 1..Len(source) /\ current \in Nat
      /\ current \in 1..(Len(source) + 1)
  BY <1>4, AtIs DEF Place
<1>6. /\ whole \in current..(Len(source) + 1) /\ (\A i \in current..(whole - 1) : source[i] \in Digit)
      /\ (whole <= Len(source) => source[whole] \notin Digit)
  BY <1>1, <1>5, DigitsAre
<1>7. whole # current
  BY <1>4, <1>5, <1>6
<1>8. ASSUME NEW e \in current..Len(source), LongestAt(source, current, e),
             NumberAt(source, current, e), OnlyNumber(source, current, e), u = e + 1,
             \A i \in current..e : source[i] # "newline"
      PROVE  Goes
  <2>1. Newlines(source, current, e) = 0
    <3>1. current \in Int /\ e \in Int
      BY <1>5
    <3>. QED BY <1>8, <3>1, NewlinesAre
  <2>2. KindOf(SubSeq(source, current, e)) = "NUMBER"
    BY <1>8, KindIs DEF LongestAt, OnlyNumber
  <2>3. GivesAt(source, current, e, "NUMBER", current, 0)
    BY <1>8, <2>1, <2>2, Zenon DEF GivesAt, OnlyNumber
  <2>4. Gives("NUMBER", current, e + 1, 0)
    BY <1>3, <1>8, Zenon
  <2>. QED BY <2>3, <2>4, GiveGoes
<1>9. CASE At(whole) = "." /\ At(whole + 1) \in Digit
  <2>1. whole \in 1..Len(source) /\ whole + 1 \in 1..Len(source)
    BY <1>5, <1>6, <1>9, AtIs, NamedApart
  <2>2. source[whole] = "." /\ source[whole + 1] \in Digit /\ whole + 1 \in 1..(Len(source) + 1)
    BY <1>9, <2>1, AtIs
  <2>3. u = DigitsFrom(whole + 1)
    BY <1>3, <1>9, Zenon
  <2>4. /\ u \in (whole + 1)..(Len(source) + 1)
        /\ (\A i \in (whole + 1)..(u - 1) : source[i] \in Digit)
        /\ (u <= Len(source) => source[u] \notin Digit)
    BY <2>2, <2>3, DigitsAre
  <2>5. u # whole + 1
    BY <2>1, <2>2, <2>4
  <2>6. PICK e \in current..Len(source) : e = u - 1
    BY <1>5, <1>6, <2>1, <2>4, <2>5
  <2>7. whole \in (current + 1)..(e - 1) /\ u = e + 1
    BY <1>5, <1>6, <1>7, <2>1, <2>4, <2>5, <2>6
  <2>8. \A i \in current..e : i # whole => source[i] \in Digit
    BY <1>5, <1>6, <2>1, <2>4, <2>6
  <2>9. e < Len(source) => source[e + 1] \notin Digit
    BY <1>5, <2>4, <2>6, <2>7
  <2>10. /\ LongestAt(source, current, e) /\ NumberAt(source, current, e)
         /\ OnlyNumber(source, current, e)
    BY <1>4, <2>2, <2>7, <2>8, <2>9, FractionLongest
  <2>11. \A i \in current..e : source[i] # "newline"
    BY <2>2, <2>8, NamedApart
  <2>. QED BY <1>8, <2>7, <2>10, <2>11
<1>10. CASE ~(At(whole) = "." /\ At(whole + 1) \in Digit)
  <2>1. u = whole
    BY <1>3, <1>10, Zenon
  <2>2. PICK e \in current..Len(source) : e = u - 1
    BY <1>5, <1>6, <1>7, <2>1
  <2>3. u = e + 1 /\ whole = e + 1
    BY <1>5, <1>6, <2>1, <2>2
  <2>4. \A i \in current..e : source[i] \in Digit
    BY <1>5, <1>6, <2>1, <2>2
  <2>5. e < Len(source) => source[e + 1] \notin Digit
    BY <1>5, <1>6, <2>3
  <2>6. ~(e + 2 <= Len(source) /\ source[e + 1] = "." /\ source[e + 2] \in Digit)
    <3>1. SUFFICES ASSUME e + 2 <= Len(source) PROVE At(whole) = source[e + 1] /\ At(whole + 1) = source[e + 2]
      BY <1>10
    <3>2. e + 1 \in 1..Len(source) /\ e + 2 \in 1..Len(source) /\ whole + 1 = e + 2
      BY <1>5, <2>3, <3>1
    <3>. QED BY <2>3, <3>2, AtIs
  <2>7. /\ LongestAt(source, current, e) /\ NumberAt(source, current, e)
        /\ OnlyNumber(source, current, e)
    BY <1>4, <2>4, <2>5, <2>6, WholeLongest
  <2>8. \A i \in current..e : source[i] # "newline"
    BY <2>4, NamedApart
  <2>. QED BY <1>8, <2>3, <2>7, <2>8
<1>. QED BY <1>9, <1>10

LEMMA ScanStringGoes == ASSUME Here, ScanString PROVE Goes
<1>1. PICK places : places = {q \in After(current + 1) : At(q) = "quote"}
  BY Zenon
<1>2. PICK u : u = Until(places)
  BY Zenon
<1>3. PICK lines : lines = Cardinality({q \in current..(u - 1) : At(q) = "newline"})
  BY Zenon
<1>4. /\ Peek = "quote"
      /\ \/ At(u) = "end" /\ Gives("ERROR", current, u, lines)
         \/ At(u) = "quote" /\ Gives("STRING", current, u + 1, lines)
  BY <1>1, <1>2, <1>3, Zenon DEF ScanString
<1>5. Place(source, current) /\ source[current] = "quote"
  BY <1>4, PeekIs
<1>6. Len(source) \in Nat /\ current \in 1..Len(source) /\ current \in Nat
  BY <1>5, AtIs DEF Place
<1>7. places \in SUBSET After(current + 1) /\ current + 1 \in 1..(Len(source) + 1)
  BY <1>1, <1>6
<1>8. /\ u \in (current + 1)..(Len(source) + 1) /\ (u # Len(source) + 1 => u \in places)
      /\ \A q \in (current + 1)..(u - 1) : q \notin places
  BY <1>2, <1>6, <1>7, UntilIs
<1>9. \A q \in (current + 1)..Len(source) : q \in places <=> source[q] = "quote"
  BY <1>1, <1>6, AtIs DEF After
<1>10. \A i \in (current + 1)..(u - 1) : source[i] # "quote"
  BY <1>6, <1>8, <1>9
<1>11. {q \in current..(u - 1) : At(q) = "newline"} = {q \in current..(u - 1) : source[q] = "newline"}
  <2>1. \A q \in current..(u - 1) : At(q) = source[q]
    BY <1>6, <1>8, AtIs
  <2>. QED BY <2>1
<1>12. CASE u = Len(source) + 1
  <2>1. At(u) = "end"
    BY <1>6, <1>12, AtIs
  <2>2. Gives("ERROR", current, u, lines)
    BY <1>4, <2>1
  <2>3. NoneAt(source, current)
    <3>1. \A i \in (current + 1)..Len(source) : source[i] # "quote"
      BY <1>6, <1>10, <1>12
    <3>. QED BY <1>5, <3>1, QuotedNone
  <2>4. u - 1 = Len(source)
    BY <1>6, <1>12
  <2>5. lines = Newlines(source, current, Len(source))
    BY <1>3, <1>11, <2>4, Zenon DEF Newlines
  <2>6. FailsAt(source, current, Len(source), lines)
    BY <1>5, <2>3, <2>5 DEF FailsAt
  <2>7. Gives("ERROR", current, Len(source) + 1, lines)
    BY <1>12, <2>2, Zenon
  <2>. QED BY <2>6, <2>7, ErrorGoes
<1>13. CASE u # Len(source) + 1
  <2>1. u \in (current + 1)..Len(source) /\ source[u] = "quote"
    BY <1>6, <1>8, <1>9, <1>13
  <2>2. At(u) # "end"
    BY <1>6, <2>1, AtIs
  <2>3. Gives("STRING", current, u + 1, lines)
    BY <1>4, <2>2
  <2>4. LongestAt(source, current, u) /\ QuotedAt(source, current, u) /\ OnlyQuoted(source, current, u)
    BY <1>5, <1>10, <2>1, QuotedLongest
  <2>5. KindOf(SubSeq(source, current, u)) = "STRING"
    BY <2>4, KindIs DEF LongestAt, OnlyQuoted
  <2>6. {q \in current..(u - 1) : source[q] = "newline"} = {q \in current..u : source[q] = "newline"}
    BY <1>6, <2>1
  <2>7. lines = Newlines(source, current, u)
    BY <1>3, <1>11, <2>6, Zenon DEF Newlines
  <2>8. GivesAt(source, current, u, "STRING", current, lines)
    BY <2>4, <2>5, <2>7, Zenon DEF GivesAt, OnlyQuoted
  <2>. QED BY <2>3, <2>8, GiveGoes
<1>. QED BY <1>12, <1>13

\* What the longest symbol here is, and that it is one token.
LEMMA SymbolGoes ==
  ASSUME Here, Place(source, current), NEW e \in current..Len(source),
         SymbolAt(source, current, e),
         \A q \in (e + 1)..Len(source) : ~SymbolAt(source, current, q),
         source[current] = "/" /\ current < Len(source) => source[current + 1] \notin {"/", "*"},
         \A i \in current..e : source[i] # "newline",
         NEW kind, kind = KindOf(SubSeq(source, current, e)),
         NEW from, from = IF SendAt(source, current, e) THEN current + 1 ELSE current,
         Gives(kind, from, e + 1, 0)
  PROVE  Goes
<1>1. /\ LongestAt(source, current, e) /\ (\A atEnd : ~BlankAt(source, current, e, atEnd))
      /\ ~OpensBlock(source, current, e)
  BY SymbolLongest
<1>2. Newlines(source, current, e) = 0
  <2>1. current \in Int /\ e \in Int
    BY AtIs
  <2>. QED BY <2>1, NewlinesAre
<1>3. GivesAt(source, current, e, kind, from, 0)
  BY <1>1, <1>2, Zenon DEF GivesAt
<1>. QED BY <1>3, GiveGoes

\* The kind of the longest symbol.
LEMMA SymbolKind ==
  ASSUME NEW s, NEW p, Place(s, p), NEW e \in p..Len(s), SymbolAt(s, p, e)
  PROVE  KindOf(SubSeq(s, p, e)) = IF SendAt(s, p, e) THEN Send ELSE SubSeq(s, p, e)
<1>1. Piece(s, p, e) /\ s[p] \in Single \union Double \union {"."}
  BY Zenon DEF Piece, SymbolAt, SendAt
<1>2. s[p] \notin Letter /\ s[p] \notin Digit /\ s[p] # "quote"
  BY <1>1, SymbolsApart, NamedApart DEF Single, Double
<1>3. ~WordAt(s, p, e) /\ ~NumberAt(s, p, e) /\ ~QuotedAt(s, p, e)
  BY <1>1, <1>2, Beginnings
<1>. QED BY <1>1, <1>3, KindIs

LEMMA ScanDotGoes == ASSUME Here, ScanDot PROVE Goes
<1>1. /\ Peek = "."
      /\ \/ IsSend /\ Gives(Send, current + 1, current + 5, 0)
         \/ ~IsSend /\ Gives(<<".">>, current, current + 1, 0)
  BY DEF ScanDot
<1>2. Place(source, current) /\ source[current] = "."
  BY <1>1, PeekIs
<1>3. Len(source) \in Nat /\ current \in 1..Len(source) /\ current \in Nat
  BY <1>2, AtIs DEF Place
<1>4. IsSend <=> /\ At(current + 1) = "s" /\ At(current + 2) = "e"
                 /\ At(current + 3) = "n" /\ At(current + 4) = "d"
  <2>1. Send[1] = "s" /\ Send[2] = "e" /\ Send[3] = "n" /\ Send[4] = "d"
    BY DEF Send
  <2>. QED BY <2>1 DEF IsSend
<1>5. \A q \in (current + 1)..Len(source) :
        SymbolAt(source, current, q) <=> SendAt(source, current, q)
  BY <1>2, <1>3 DEF SymbolAt, Double
<1>6. IsSend <=> current + 4 <= Len(source) /\ SendAt(source, current, current + 4)
  <2>1. current + 1 \in Int /\ current + 2 \in Int /\ current + 3 \in Int /\ current + 4 \in Int
    BY <1>3
  <2>2. At(current + 4) = "d" => current + 4 <= Len(source)
    BY <1>3, <2>1, AtIs
  <2>3. ASSUME current + 4 <= Len(source)
        PROVE  /\ At(current + 1) = source[current + 1] /\ At(current + 2) = source[current + 2]
               /\ At(current + 3) = source[current + 3] /\ At(current + 4) = source[current + 4]
    <3>1. /\ current + 1 \in 1..Len(source) /\ current + 2 \in 1..Len(source)
          /\ current + 3 \in 1..Len(source) /\ current + 4 \in 1..Len(source)
      BY <1>3, <2>3
    <3>. QED BY <3>1, AtIs
  <2>. QED BY <1>2, <1>4, <2>2, <2>3, Zenon DEF SendAt
<1>7. CASE IsSend
  <2>1. PICK e : e = current + 4
    BY Zenon
  <2>2. e \in current..Len(source) /\ SendAt(source, current, e) /\ current + 5 = e + 1
    BY <1>3, <1>6, <1>7, <2>1
  <2>3. SymbolAt(source, current, e)
    BY <2>2, Zenon DEF SymbolAt
  <2>4. \A q \in (e + 1)..Len(source) : ~SymbolAt(source, current, q)
    BY <1>3, <1>5, <2>1 DEF SendAt
  <2>5. \A i \in current..e : source[i] # "newline"
    <3>1. \A i \in current..e : i \in {current, current + 1, current + 2, current + 3, current + 4}
      BY <1>3, <2>1
    <3>. QED BY <2>2, <3>1 DEF SendAt
  <2>6. KindOf(SubSeq(source, current, e)) = Send
    BY <1>2, <2>2, <2>3, SymbolKind
  <2>7. Gives(Send, current + 1, e + 1, 0)
    BY <1>1, <1>7, <2>2, Zenon
  <2>8. source[current] # "/"
    BY <1>2
  <2>. QED BY <1>2, <2>2, <2>3, <2>4, <2>5, <2>6, <2>7, <2>8, SymbolGoes
<1>8. CASE ~IsSend
  <2>1. SymbolAt(source, current, current) /\ ~SendAt(source, current, current)
    BY <1>2, <1>3 DEF SymbolAt, SendAt
  <2>2. \A q \in (current + 1)..Len(source) : ~SymbolAt(source, current, q)
    BY <1>3, <1>5, <1>6, <1>8 DEF SendAt
  <2>3. \A i \in current..current : source[i] # "newline"
    BY <1>2, <1>3
  <2>4. KindOf(SubSeq(source, current, current)) = <<".">>
    <3>1. SubSeq(source, current, current) = <<".">>
      BY <1>2, ShortPieces
    <3>2. current \in current..Len(source)
      BY <1>3
    <3>. QED BY <1>2, <2>1, <3>1, <3>2, SymbolKind
  <2>5. Gives(<<".">>, current, current + 1, 0)
    BY <1>1, <1>8
  <2>6. source[current] # "/" /\ current \in current..Len(source)
    BY <1>2, <1>3
  <2>. QED BY <1>2, <2>1, <2>2, <2>3, <2>4, <2>5, <2>6, SymbolGoes
<1>. QED BY <1>7, <1>8

LEMMA ScanSingleGoes == ASSUME Here, ScanSingle PROVE Goes
<1>1. Peek \in Single /\ ~Skipping /\ Gives(<<Peek>>, current, current + 1, 0)
  BY Zenon DEF ScanSingle, Gives
<1>2. Peek # "end"
  BY <1>1 DEF Single
<1>3. /\ Place(source, current) /\ Peek = source[current] /\ PeekNext = At(current + 1)
      /\ (current < Len(source) => PeekNext = source[current + 1])
  BY <1>2, PeekIs
<1>4. Len(source) \in Nat /\ current \in current..Len(source) /\ current \in Nat
  BY <1>3, AtIs DEF Place
<1>5. /\ source[current] \in Single /\ source[current] \notin Double
      /\ source[current] # "." /\ source[current] # "newline"
  BY <1>1, <1>3 DEF Single, Double
<1>6. SymbolAt(source, current, current) /\ ~SendAt(source, current, current)
  BY <1>5, Zenon DEF SymbolAt, SendAt
<1>7. \A q \in (current + 1)..Len(source) : ~SymbolAt(source, current, q)
  BY <1>4, <1>5 DEF SymbolAt, SendAt
<1>8. source[current] = "/" /\ current < Len(source) => source[current + 1] \notin {"/", "*"}
  BY <1>1, <1>3 DEF Skipping
<1>9. \A i \in current..current : source[i] # "newline"
  BY <1>4, <1>5
<1>10. KindOf(SubSeq(source, current, current)) = <<Peek>>
  <2>1. SubSeq(source, current, current) = <<Peek>>
    BY <1>3, ShortPieces
  <2>. QED BY <1>3, <1>4, <1>6, <2>1, SymbolKind
<1>. QED BY <1>1, <1>3, <1>4, <1>6, <1>7, <1>8, <1>9, <1>10, SymbolGoes

LEMMA ScanDoubleGoes == ASSUME Here, ScanDouble PROVE Goes
<1>1. /\ Peek \in Double
      /\ \/ PeekNext = "=" /\ Gives(<<Peek, "=">>, current, current + 2, 0)
         \/ PeekNext # "=" /\ Gives(<<Peek>>, current, current + 1, 0)
  BY Zenon DEF ScanDouble
<1>2. Peek # "end"
  BY <1>1 DEF Double
<1>3. /\ Place(source, current) /\ Peek = source[current] /\ PeekNext = At(current + 1)
      /\ (current < Len(source) => PeekNext = source[current + 1])
  BY <1>2, PeekIs
<1>4. Len(source) \in Nat /\ current \in current..Len(source) /\ current \in Nat
  BY <1>3, AtIs DEF Place
<1>5. /\ source[current] \in Double /\ source[current] # "." /\ source[current] # "/"
      /\ source[current] # "newline"
  BY <1>1, <1>3 DEF Double
<1>6. \A q : ~SendAt(source, current, q)
  BY <1>5, Zenon DEF SendAt
<1>7. CASE PeekNext = "="
  <2>1. Gives(<<Peek, "=">>, current, current + 2, 0)
    BY <1>1, <1>7
  <2>2. current < Len(source)
    BY <1>3, <1>4, <1>7, AtIs
  <2>3. PICK e \in current..Len(source) : e = current + 1
    BY <1>4, <2>2
  <2>4. source[current + 1] = "="
    BY <1>3, <1>7, <2>2
  <2>5. SymbolAt(source, current, e)
    BY <1>5, <2>3, <2>4, Zenon DEF SymbolAt
  <2>6. \A q \in (e + 1)..Len(source) : ~SymbolAt(source, current, q)
    BY <1>4, <1>6, <2>3 DEF SymbolAt
  <2>7. \A i \in current..e : source[i] # "newline"
    <3>1. \A i \in current..e : i \in {current, current + 1}
      BY <1>4, <2>3
    <3>. QED BY <1>5, <2>4, <3>1
  <2>8. KindOf(SubSeq(source, current, e)) = <<Peek, "=">>
    <3>1. SubSeq(source, current, current + 1) = <<source[current], source[current + 1]>>
      BY <1>3, <2>2, ShortPieces
    <3>2. SubSeq(source, current, e) = <<Peek, "=">>
      BY <1>3, <2>3, <2>4, <3>1, Zenon
    <3>3. KindOf(SubSeq(source, current, e)) =
            IF SendAt(source, current, e) THEN Send ELSE SubSeq(source, current, e)
      BY <1>3, <2>5, SymbolKind
    <3>. QED BY <1>6, <3>2, <3>3, Zenon
  <2>9. Gives(<<Peek, "=">>, current, e + 1, 0)
    <3>1. current + 2 = e + 1
      BY <1>4, <2>3
    <3>. QED BY <2>1, <3>1, Zenon
  <2>. QED BY <1>3, <1>5, <1>6, <2>5, <2>6, <2>7, <2>8, <2>9, SymbolGoes
<1>8. CASE PeekNext # "="
  <2>1. Gives(<<Peek>>, current, current + 1, 0)
    BY <1>1, <1>8
  <2>2. SymbolAt(source, current, current)
    BY <1>5, Zenon DEF SymbolAt
  <2>3. \A q \in (current + 1)..Len(source) : ~SymbolAt(source, current, q)
    BY <1>3, <1>4, <1>6, <1>8 DEF SymbolAt
  <2>4. \A i \in current..current : source[i] # "newline"
    BY <1>4, <1>5
  <2>5. KindOf(SubSeq(source, current, current)) = <<Peek>>
    <3>1. SubSeq(source, current, current) = <<Peek>>
      BY <1>3, ShortPieces
    <3>. QED BY <1>3, <1>4, <1>6, <2>2, <3>1, SymbolKind
  <2>. QED BY <1>3, <1>4, <1>5, <1>6, <2>1, <2>2, <2>3, <2>4, <2>5, SymbolGoes
<1>. QED BY <1>7, <1>8

LEMMA ScanUnexpectedGoes == ASSUME Here, ScanUnexpected PROVE Goes
<1>1. /\ Peek \notin Letter \union Digit \union Single \union Double \union {"quote", ".", "end"}
      /\ ~Skipping /\ Gives("ERROR", current, current + 1, 0)
  BY Zenon DEF ScanUnexpected, Gives
<1>2. Place(source, current) /\ Peek = source[current]
  BY <1>1, PeekIs
<1>3. source[current] \notin Letter \union Digit \union Single \union Double
                            \union {"quote", ".", "blank", "newline"}
  BY <1>1, <1>2 DEF Skipping
<1>4. NoneAt(source, current)
  BY <1>2, <1>3, OtherNone
<1>5. Newlines(source, current, current) = 0
  <2>1. current \in Int /\ \A i \in current..current : source[i] # "newline"
    BY <1>3, AtIs
  <2>. QED BY <2>1, NewlinesAre
<1>6. source[current] \notin {"/", "."} /\ source[current] # "quote"
  BY <1>3 DEF Single
<1>7. FailsAt(source, current, current, 0)
  BY <1>4, <1>5, <1>6, Zenon DEF FailsAt
<1>. QED BY <1>1, <1>7, ErrorGoes

-----------------------------------------------------------------------------
(***************************************************************************)
(* The invariant: the scanner has come to one of the readings of its text, *)
(* or has given TOKEN_EOF after the last of them.                          *)
(***************************************************************************)

AtReading == \E n \in 0..Len(source) : Readings(source)[n] = Reading
AtEof == Ended /\ tokens = Tokens(source) /\ current = Len(source) + 1
Inv == source \in Sources /\ (AtReading \/ AtEof)

LEMMA SourceIsText == ASSUME source \in Sources PROVE source \in Text
BY SourcesAreTexts DEF Text, Char

\* At a reading the scanner's state is well formed.
LEMMA ReadingHere ==
  ASSUME source \in Sources, AtReading
  PROVE  Here
<1>1. source \in Text
  BY SourceIsText
<1>2. Reading \in AnyReading(source)
  BY <1>1, ReadingsAre, Zenon DEF AtReading
<1>. QED BY <1>1, <1>2 DEF AnyReading, Reading, Here

\* One lexeme further is the next reading.
LEMMA GoesToReading ==
  ASSUME source \in Sources, AtReading, Goes
  PROVE  Inv'
<1>1. source \in Text /\ Len(source) \in Nat
  BY SourceIsText DEF Text
<1>2. PICK n \in 0..Len(source) : Readings(source)[n] = Reading
  BY DEF AtReading
<1>3. PICK r : r = Readings(source)[n]
  BY Zenon
<1>4. r.at = current /\ r = Reading /\ r.at <= Len(source)
  BY <1>2, <1>3 DEF Reading, Goes
<1>5. n + 1 <= r.at
  BY <1>1, <1>3, <1>4, ReadingsAdvance, Zenon
<1>6. r \in AnyReading(source)
  BY <1>1, <1>3, ReadingsAre, Zenon
<1>7. PICK m \in 0..Len(source) : m # 0 /\ m - 1 = n /\ ~(r.at > Len(source))
  <2>1. r.at \in Nat
    BY <1>1, <1>6 DEF AnyReading
  <2>2. n + 1 \in 0..Len(source) /\ n + 1 # 0 /\ (n + 1) - 1 = n /\ ~(r.at > Len(source))
    BY <1>1, <1>4, <1>5, <2>1
  <2>. QED BY <2>2
<1>8. Readings(source)[m] = Step(source, r)
  BY <1>1, <1>3, <1>7, ReadingsAre, Zenon
<1>9. Readings(source)[m] = Further(source, Reading)
  BY <1>4, <1>7, <1>8, Zenon DEF Step
<1>10. source' = source /\ Readings(source)[m] = Reading'
  BY <1>9, Zenon DEF Goes
<1>. QED BY <1>7, <1>10, Zenon DEF Inv, AtReading

\* The end of the text is the end of the last reading.
LEMMA EofEnds ==
  ASSUME source \in Sources, AtReading, ScanEof
  PROVE  Inv'
<1>1. source \in Text /\ Len(source) \in Nat /\ Len(source) \in 0..Len(source)
  BY SourceIsText DEF Text
<1>2. Here
  BY ReadingHere
<1>3. PICK n \in 0..Len(source) : Readings(source)[n] = Reading
  BY DEF AtReading
<1>4. current = Len(source) + 1
  <2>1. At(current) = "end"
    BY DEF ScanEof, IsAtEnd, Peek
  <2>2. current \notin 1..Len(source)
    BY <1>2, <2>1, AtIs, Zenon
  <2>. QED BY <1>1, <1>2, <2>2 DEF Here
<1>5. PICK r : r = Readings(source)[n]
  BY Zenon
<1>6. r.at = current /\ r.line = line /\ r.tokens = tokens
  BY <1>3, <1>5 DEF Reading
<1>7. r.at > Len(source) /\ Len(source) \in n..Len(source)
  BY <1>1, <1>4, <1>6
<1>8. Readings(source)[Len(source)] = r
  BY <1>1, <1>5, <1>7, ReadingsKeep, Zenon DEF Keeps
<1>9. Tokens(source) = Append(tokens, Token("EOF", current, current, line))
  BY <1>6, <1>8, Zenon DEF Tokens
<1>10. Gives("EOF", current, current, 0)
  BY DEF ScanEof
<1>11. /\ tokens' = Append(tokens, Token("EOF", current, current, line + 0))
       /\ current' = current /\ source' = source /\ line + 0 = line
  <2>1. line + 0 = line
    BY <1>2 DEF Here
  <2>. QED BY <1>10, <2>1, Zenon DEF Gives, Token
<1>12. tokens' = Tokens(source)
  BY <1>9, <1>11, Zenon
<1>13. tokens \in Seq(AnyToken(source))
  <2>1. r \in AnyReading(source)
    BY <1>1, <1>5, ReadingsAre, Zenon
  <2>. QED BY <1>6, <2>1 DEF AnyReading
<1>14. Ended'
  <2>1. PICK token : token = Token("EOF", current, current, line)
    BY Zenon
  <2>2. PICK S : S = AnyToken(source) \union {token}
    BY Zenon
  <2>3. AnyToken(source) \subseteq S /\ token \in S
    BY <2>2
  <2>4. PICK old \in Seq(S) : old = tokens
    BY <1>13, <2>3, SeqOfMore, Zenon
  <2>5. PICK u : u = Append(old, token)
    BY Zenon
  <2>6. u # <<>> /\ u[Len(u)] = token
    BY <2>3, <2>4, <2>5
  <2>7. tokens' = u
    BY <1>9, <1>12, <2>1, <2>4, <2>5, Zenon
  <2>8. token.kind = "EOF"
    BY <2>1 DEF Token
  <2>. QED BY <2>6, <2>7, <2>8, Zenon DEF Ended
<1>15. tokens' = Tokens(source') /\ current' = Len(source') + 1 /\ source' \in Sources
  BY <1>4, <1>11, <1>12, Zenon
<1>. QED BY <1>14, <1>15, Zenon DEF Inv, AtEof

\* The tokens of a text are a sequence.
LEMMA TokensType == ASSUME NEW s \in Text PROVE \E S : Tokens(s) \in Seq(S)
<1>1. Len(s) \in 0..Len(s)
  BY DEF Text
<1>2. PICK last \in AnyReading(s) : last = Readings(s)[Len(s)]
  BY <1>1, ReadingsAre, Zenon
<1>3. PICK all \in Seq(AnyToken(s)) : all = last.tokens
  BY DEF AnyReading
<1>4. PICK eof : eof = Token("EOF", last.at, last.at, last.line)
  BY Zenon
<1>5. PICK S : S = AnyToken(s) \union {eof}
  BY Zenon
<1>6. all \in Seq(S) /\ eof \in S
  <2>1. AnyToken(s) \subseteq S /\ eof \in S
    BY <1>5
  <2>. QED BY <2>1, SeqOfMore
<1>7. Append(all, eof) \in Seq(S)
  BY <1>6
<1>. QED BY <1>2, <1>3, <1>4, <1>7, Zenon DEF Tokens

LEMMA WholeSeq ==
  ASSUME NEW S, NEW t \in Seq(S)
  PROVE  Len(t) <= Len(t) /\ t = SubSeq(t, 1, Len(t))
<1>1. Len(t) \in 0..Len(t) /\ Len(t) <= Len(t)
  OBVIOUS
<1>2. PICK u \in Seq(S) : u = SubSeq(t, 1, Len(t))
  BY <1>1, PrefixIs, Zenon
<1>3. Len(u) = Len(t) /\ \A i \in 1..Len(t) : u[i] = t[i]
  BY <1>1, <1>2, PrefixIs
<1>4. t = u
  BY <1>3, SameSeq
<1>. QED BY <1>1, <1>2, <1>4, Zenon

-----------------------------------------------------------------------------
(***************************************************************************)
(* The theorems.                                                           *)
(***************************************************************************)

LEMMA InitReads == ASSUME Init PROVE Inv
<1>1. source \in Sources /\ current = 1 /\ line = 1 /\ tokens = <<>>
  BY DEF Init
<1>2. source \in Text /\ 0 \in 0..Len(source)
  BY <1>1, SourceIsText DEF Text
<1>3. Readings(source)[0] = Start
  BY <1>2, ReadingsAre, Zenon
<1>4. Reading = Start
  BY <1>1, Zenon DEF Reading, Start
<1>. QED BY <1>1, <1>2, <1>3, <1>4, Zenon DEF Inv, AtReading

LEMMA NextReads == ASSUME Inv, [Next]_vars PROVE Inv'
<1>1. CASE UNCHANGED vars
  <2>1. source' = source /\ current' = current /\ line' = line /\ tokens' = tokens
    BY <1>1 DEF vars
  <2>2. Reading' = Reading
    BY <2>1, Zenon DEF Reading
  <2>. QED BY <2>1, <2>2, Zenon DEF Inv, AtReading, AtEof, Ended
<1>2. CASE Next
  <2>1. ~Ended
    BY <1>2, Zenon DEF Next, SkipBlank, SkipNewline, SkipLineComment, SkipBlockComment, ScanEof,
       ScanIdentifier, ScanNumber, ScanString, ScanDot, ScanSingle, ScanDouble, ScanUnexpected, Gives
  <2>2. source \in Sources /\ AtReading
    BY <2>1 DEF Inv, AtEof
  <2>3. Here
    BY <2>2, ReadingHere
  <2>4. CASE ScanEof
    BY <2>2, <2>4, EofEnds
  <2>5. ASSUME ~ScanEof PROVE Goes
    <3>1. CASE SkipBlank
      BY <2>3, <3>1, SkipBlankGoes
    <3>2. CASE SkipNewline
      BY <2>3, <3>2, SkipNewlineGoes
    <3>3. CASE SkipLineComment
      BY <2>3, <3>3, SkipLineCommentGoes
    <3>4. CASE SkipBlockComment
      BY <2>3, <3>4, SkipBlockCommentGoes
    <3>5. CASE ScanIdentifier
      BY <2>3, <3>5, ScanIdentifierGoes
    <3>6. CASE ScanNumber
      BY <2>3, <3>6, ScanNumberGoes
    <3>7. CASE ScanString
      BY <2>3, <3>7, ScanStringGoes
    <3>8. CASE ScanDot
      BY <2>3, <3>8, ScanDotGoes
    <3>9. CASE ScanSingle
      BY <2>3, <3>9, ScanSingleGoes
    <3>10. CASE ScanDouble
      BY <2>3, <3>10, ScanDoubleGoes
    <3>11. CASE ScanUnexpected
      BY <2>3, <3>11, ScanUnexpectedGoes
    <3>. QED BY <1>2, <2>5, <3>1, <3>2, <3>3, <3>4, <3>5, <3>6, <3>7, <3>8, <3>9, <3>10, <3>11
            DEF Next
  <2>6. CASE ~ScanEof
    BY <2>2, <2>5, <2>6, GoesToReading
  <2>. QED BY <2>4, <2>6
<1>. QED BY <1>1, <1>2

\* The scanner of scanner.c is always at a reading of its text, lexeme by lexeme, or has
\* given all tokens of it: no step takes less than the longest lexeme or more.
THEOREM ScannerReads == Spec => []Inv
<1>1. Init => Inv
  BY InitReads
<1>2. Inv /\ [Next]_vars => Inv'
  BY NextReads
<1>. QED BY <1>1, <1>2, PTL DEF Spec

LEMMA ReadsByLexicon == ASSUME Inv PROVE FollowsLexicon
<1>1. source \in Sources /\ source \in Text
  BY SourceIsText DEF Inv
<1>2. CASE AtReading
  <2>1. current \in 1..(Len(source) + 1)
    BY <1>1, <1>2, ReadingHere DEF Here
  <2>2. PICK n \in 0..Len(source) : Readings(source)[n] = Reading
    BY <1>2 DEF AtReading
  <2>3. Reading.tokens = tokens
    BY DEF Reading
  <2>4. tokens = Readings(source)[n].tokens
    BY <2>2, <2>3, Zenon
  <2>5. Len(tokens) <= Len(Tokens(source)) /\ tokens = SubSeq(Tokens(source), 1, Len(tokens))
    BY <1>1, <2>4, ReadingBegins, Zenon
  <2>. QED BY <2>1, <2>5, Zenon DEF FollowsLexicon
<1>3. CASE AtEof
  <2>1. PICK S : Tokens(source) \in Seq(S)
    BY <1>1, TokensType
  <2>2. Len(tokens) <= Len(tokens) /\ tokens = SubSeq(tokens, 1, Len(tokens))
    <3>1. tokens \in Seq(S)
      BY <1>3, <2>1, Zenon DEF AtEof
    <3>. QED BY <3>1, WholeSeq
  <2>3. current \in 1..(Len(source) + 1)
    BY <1>1, <1>3 DEF AtEof, Text
  <2>4. tokens = Tokens(source)
    BY <1>3 DEF AtEof
  <2>. QED BY <2>2, <2>3, <2>4, Zenon DEF FollowsLexicon
<1>. QED BY <1>2, <1>3 DEF Inv

\* For every text, and whatever characters are letters and digits: the tokens of
\* scan_token are those of the lexical grammar, in order and with none left out, each the
\* longest at its place and with its line, and scanner.current stays in the text.
THEOREM TokensFollowLexicon == Spec => []FollowsLexicon
<1>1. Inv => FollowsLexicon
  BY ReadsByLexicon
<1>. QED BY <1>1, ScannerReads, PTL

=============================================================================
