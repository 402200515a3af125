------------------------------- MODULE Grammar -------------------------------
(***************************************************************************)
(* The syntax of the language as a grammar: the reference for the parser.  *)
(* A derivation is a sequence of symbols that is yet to be matched; what   *)
(* is left of the grammar after some tokens is the set of the derivations  *)
(* that those tokens leave.  A symbol carries the context it stands in,    *)
(* because `return' and `this' are allowed in some contexts only: `return' *)
(* not at the top level (test/return/at_top_level.nz), `this' in an actor  *)
(* (test/this/this_at_top_level.nz).                                       *)
(*                                                                         *)
(* The compiler refuses three more forms, with messages of their own, that *)
(* tests of the repository take for programs: test/actor/reference_self.nz *)
(* (return, call), test/constructor/early_return.nz (return) and           *)
(* test/field/get_on_nil.nz (dot).  The messages and the tests are of two  *)
(* languages; which of the forms the language is without is a parameter.   *)
(***************************************************************************)
EXTENDS Sequences

CONSTANT Refusals
  \* "return": a return in a message ("Can't return a value from a message.")
  \* "dot":    a property outside an actor ("Can't use '.' without 'send' ...")
  \* "call":   the call of a property ("Can't call message without 'send' keyword.")

BinaryOperators == {"or", "and", "==", "!=", "<", "<=", ">", ">=", "+", "-", "*", "/"}
UnaryOperators  == {"-", "!"}
Literals        == {"number", "string", "nil", "true", "false"}

Script == [within |-> "script", inActor |-> FALSE]

Nonterminals ==
  {"Program", "Declarations", "Declaration", "Actor", "Messages", "Message", "Function",
   "Parameters", "MoreParameters", "Variable", "Statement", "Initializer", "Optional",
   "Expression", "Operators", "Operand", "Primary", "Suffixes", "Property", "Arguments",
   "MoreArguments"}

\* The context of what a nonterminal derives.
Within(n, context) ==
  CASE n = "Actor"    -> [context EXCEPT !.inActor = TRUE]
    [] n = "Function" -> [context EXCEPT !.within = "function"]
    [] n = "Message"  -> [context EXCEPT !.within = "message"]
    [] OTHER          -> context

\* If the context is right, what it allows.
Where(condition, alternatives) == IF condition THEN alternatives ELSE {}

MayReturn(context) ==
  context.within = "function" \/ (context.within = "message" /\ "return" \notin Refusals)
MayDot(context) == context.inActor \/ "dot" \notin Refusals
AfterProperty == IF "call" \in Refusals THEN "Property" ELSE "Suffixes"

\* The right-hand sides of a nonterminal.
Alternatives(n, context) ==
  CASE n = "Program"        -> {<<"Declarations", "eof">>}
    [] n = "Declarations"   -> {<<>>, <<"Declaration", "Declarations">>}
    [] n = "Declaration"    -> {<<"actor", "identifier", "Actor">>, <<"val", "Variable">>,
                                <<"fun", "identifier", "Function">>, <<"var", "Variable">>,
                                <<"Statement">>}
    [] n = "Actor"          -> {<<"{", "Messages", "}">>}
    [] n = "Messages"       -> {<<>>, <<"identifier", "Message", "Messages">>}
    [] n \in {"Message", "Function"}
                            -> {<<"(", "Parameters", ")", "{", "Declarations", "}">>}
    [] n = "Parameters"     -> {<<>>, <<"identifier", "MoreParameters">>}
    [] n = "MoreParameters" -> {<<>>, <<",", "identifier", "MoreParameters">>}
    [] n = "Variable"       -> {<<"identifier", ";">>, <<"identifier", "=", "Expression", ";">>}
    [] n = "Statement"      -> {<<"print", "Expression", ";">>, <<"Expression", ";">>,
                                <<"{", "Declarations", "}">>,
                                <<"while", "(", "Expression", ")", "Statement">>,
                                <<"if", "(", "Expression", ")", "Statement">>,
                                <<"if", "(", "Expression", ")", "Statement", "else", "Statement">>,
                                <<"for", "(", "Initializer", "Optional", ";", "Optional", ")",
                                  "Statement">>}
                               \union Where(MayReturn(context), {<<"return", "Optional", ";">>})
    [] n = "Initializer"    -> {<<";">>, <<"var", "Variable">>, <<"Expression", ";">>}
    [] n = "Optional"       -> {<<>>, <<"Expression">>}
    [] n = "Expression"     -> {<<"identifier", "=", "Expression">>, <<"Operand", "Operators">>}
                               \union Where(MayDot(context),
                                 {<<"Primary", "Suffixes", ".", "identifier", "=", "Expression">>})
    [] n = "Operators"      -> {<<>>} \union {<<op, "Operand", "Operators">> : op \in BinaryOperators}
    [] n = "Operand"        -> {<<"Primary", "Suffixes">>}
                               \union {<<op, "Operand">> : op \in UnaryOperators}
    [] n = "Primary"        -> {<<"identifier">>, <<"(", "Expression", ")">>}
                               \union {<<l>> : l \in Literals}
                               \union Where(context.inActor, {<<"this">>})
    [] n = "Suffixes"       -> {<<"Property">>, <<"(", "Arguments", ")", "Suffixes">>}
    [] n = "Property"       -> {<<>>, <<".send", "(", "identifier", "Arguments", ")", "Suffixes">>,
                                <<".send", "(", "identifier", ",", "Arguments", ")", "Suffixes">>}
                               \union Where(MayDot(context), {<<".", "identifier", AfterProperty>>})
    [] n = "Arguments"      -> {<<>>, <<"Expression", "MoreArguments">>}
    [] n = "MoreArguments"  -> {<<>>, <<",", "Expression", "MoreArguments">>}

In(context, symbols) == [i \in DOMAIN symbols |-> <<symbols[i], context>>]

\* The derivations after the first symbol has been rewritten until it is a token.
Symbols == STRING \X [within : STRING, inActor : BOOLEAN]
Leftmost[derivations \in SUBSET Seq(Symbols)] ==
  LET open == {d \in derivations : d # <<>> /\ Head(d)[1] \in Nonterminals}
      rewritten == UNION {LET context == Within(Head(d)[1], Head(d)[2])
                          IN  {In(context, a) \o Tail(d) : a \in Alternatives(Head(d)[1], context)}
                            : d \in open}
  IN  IF open = {} THEN derivations ELSE (derivations \ open) \union Leftmost[rewritten]

\* What is left of the derivations after one more token.
After(derivations, token) ==
  {Tail(d) : d \in {e \in Leftmost[derivations] : e # <<>> /\ Head(e)[1] = token}}

Start == {<<<<"Program", Script>>>>}

=============================================================================
