------------------------------ MODULE Compiler ------------------------------
(***************************************************************************)
(* The one pass of compiler.c: recursive descent for declarations and      *)
(* statements, operator precedence for expressions, error recovery, and    *)
(* the code that is emitted on the way.                                    *)
(*                                                                         *)
(* The C stack is in frames: one per procedure that is being executed,     *)
(* with what it has still to do and its local variables.  Procedure is the *)
(* table of the bodies; each step executes one item of the innermost       *)
(* frame.  An item that chooses between continuations has their items as   *)
(* arguments, as an if has its branches.                                   *)
(*                                                                         *)
(* The scanner is a parameter: what it may return next.  Names of          *)
(* variables are left to Scopes: here a name only goes into the code, and  *)
(* OP_CLOSURE has no operands for upvalues.  The code of a program that    *)
(* has an error is not kept, for it is never run.                          *)
(***************************************************************************)
EXTENDS Grammar, Integers, SequencesExt

CONSTANTS
  Identifier,       \* the identifiers; any other token is its own type
  Word,             \* the values of a word of code (65536)
  Source,           \* the sources that are compiled
  NextTokens(_),    \* what scan_token finds in a source, see Read
  Empty             \* no name

ASSUME WordAssumption == Word \in Nat \ {0, 1}

VARIABLES
  source,      \* what has not been scanned
  current, previous,
  panic,       \* parser.panic_mode
  hadError,    \* parser.had_error
  frames,      \* the procedures that are being executed, innermost last
  compilers,   \* current and its enclosing compilers, current last
  actors,      \* the number of ActorCompilers
  code,        \* the code of each compiler
  finished,    \* the functions that end_compiler has returned
  derivations  \* what the grammar expects after previous; see Lost

parser == <<source, current, previous, derivations>>
errors == <<panic, hadError>>
output == <<compilers, actors, code, finished>>
vars == <<parser, errors, frames, output>>

TypeOf(token) == IF token \in Identifier THEN "identifier" ELSE token

-----------------------------------------------------------------------------
(***************************************************************************)
(* Precedences and the items of a procedure.                               *)
(***************************************************************************)

PrecAssignment == 1
PrecUnary == 8

\* The precedences of rules, in the order of enum Precedence.
Levels == << {"="}, {"or"}, {"and"}, {"==", "!="}, {"<", ">", "<=", ">="}, {"+", "-"},
             {"*", "/"}, {"!"}, {"(", ".", ".send"} >>

\* rules[type].precedence: nothing for = and !, which have no infix rule.
PrecedenceOf(token) ==
  IF token \in UNION {Levels[i] : i \in DOMAIN Levels \ {PrecAssignment, PrecUnary}}
    THEN CHOOSE i \in DOMAIN Levels : token \in Levels[i]
    ELSE 0

Item(what, a, b) == <<what, a, b>>

Advance            == Item("advance", 0, 0)
Consume(type)      == Item("consume", type, 0)
Choose(cases, otherwise) == Item("choose", cases, otherwise)
Match(type, then, otherwise) == Choose([t \in {type} |-> then], otherwise)
Check(types, then, otherwise) == Item("check", types, <<then, otherwise>>)
Call(procedure)    == Item("call", procedure, 0)
Repeat(procedure)  == Item("repeat", procedure, 0)
Parse(precedence)  == Item("parse", precedence, 0)
Error              == Item("error", 0, 0)
ErrorIn(type)      == Item("error_in", type, 0)
Emit(op)           == Item("emit", op, <<>>)
EmitWith(op, args) == Item("emit", op, args)
EmitName(op)       == Item("emit_name", op, 0)
EmitCall(op)       == Item("emit_call", op, 0)
Jump(op, place)    == Item("jump", op, place)
Patch(place)       == Item("patch", place, 0)
Mark(place)        == Item("mark", place, 0)
Loop(place)        == Item("loop", place, 0)
Do(what)           == Item(what, 0, 0)

Expression == Parse(PrecAssignment)

\* parse_variable
ParseVariable == <<Consume("identifier"), Do("declare")>>

\* argument_list, inlined in the frame of its caller, which has the counter.
ArgumentList == <<Check({")"}, <<>>, <<Repeat("arguments")>>), Consume(")")>>

NamedVariable(name, canAssign) ==
  IF canAssign
    THEN <<Match("=", <<Expression, EmitWith("SET", <<name>>)>>, <<EmitWith("GET", <<name>>)>>)>>
    ELSE <<EmitWith("GET", <<name>>)>>

-----------------------------------------------------------------------------
(***************************************************************************)
(* The procedures of compiler.c.                                           *)
(***************************************************************************)

Synchronizing == {"actor", "fun", "val", "var", "for", "if", "while", "print", "return"}

\* declaration and statement try these tokens in turn.
DeclarationOf ==
  [t \in {"actor", "fun", "val", "var"} |->
     <<Call(CASE t = "actor" -> "actor_declaration" [] t = "fun" -> "fun_declaration"
              [] OTHER -> "var_declaration")>>]
StatementOf ==
  [t \in {"print", "for", "if", "return", "while", "{"} |->
     IF t = "{" THEN <<Do("begin_scope"), Call("block"), Do("end_scope")>> ELSE <<Call(t)>>]

\* The first clause of for.
InitializerOf == [t \in {";", "var"} |-> IF t = "var" THEN <<Call("var_declaration")>> ELSE <<>>]

\* A slip of for_statement: the body goes back to the condition.
ForWithoutIncrement ==
  << Do("begin_scope"), Consume("("),
     Choose(InitializerOf, <<Call("expression_statement")>>),
     Mark("loop_start"),
     Match(";", <<>>, <<Expression, Consume(";"), Jump("JUMP_IF_FALSE", "exit_jump"), Emit("POP")>>),
     Match(")", <<>>, <<Jump("JUMP", "body_jump"), Mark("increment_start"),
                        Expression, Emit("POP"), Consume(")"),
                        Loop("loop_start"), Patch("body_jump")>>),
     Call("statement"), Loop("loop_start"), Do("patch_exit"), Do("end_scope") >>

ForStatement ==
  << Do("begin_scope"), Consume("("),
     Choose(InitializerOf, <<Call("expression_statement")>>),
     Mark("loop_start"),
     Match(";", <<>>, <<Expression, Consume(";"), Jump("JUMP_IF_FALSE", "exit_jump"), Emit("POP")>>),
     Match(")", <<>>, <<Jump("JUMP", "body_jump"), Mark("increment_start"),
                        Expression, Emit("POP"), Consume(")"),
                        Loop("loop_start"), Do("increment"), Patch("body_jump")>>),
     Call("statement"), Loop("loop_start"), Do("patch_exit"), Do("end_scope") >>

\* A slip of if_statement for the mutants: the condition stays when it is false.
IfStatementUnpopped ==
  << Consume("("), Expression, Consume(")"), Jump("JUMP_IF_FALSE", "then_jump"), Emit("POP"),
     Call("statement"), Jump("JUMP", "else_jump"), Patch("then_jump"),
     Match("else", <<Call("statement")>>, <<>>), Patch("else_jump") >>

IfStatement ==
  << Consume("("), Expression, Consume(")"), Jump("JUMP_IF_FALSE", "then_jump"), Emit("POP"),
     Call("statement"), Jump("JUMP", "else_jump"), Patch("then_jump"), Emit("POP"),
     Match("else", <<Call("statement")>>, <<>>), Patch("else_jump") >>

WhileStatement ==
  << Mark("loop_start"), Consume("("), Expression, Consume(")"),
     Jump("JUMP_IF_FALSE", "exit_jump"), Emit("POP"), Call("statement"), Loop("loop_start"),
     Patch("exit_jump"), Emit("POP") >>

ReturnStatement ==
  << ErrorIn("script"), ErrorIn("message"),
     Match(";", <<Do("emit_return")>>, <<Expression, Consume(";"), Emit("RETURN")>>) >>

Function(type) ==
  << Item("init_compiler", type, 0), Do("begin_scope"), Consume("("),
     Check({")"}, <<>>, <<Repeat("parameters")>>), Consume(")"), Consume("{"), Call("block"),
     Do("end_compiler"), EmitWith("CLOSURE", <<Empty>>) >>

\* A slip of actor_declaration: nothing is undone when the brace is missing.
ActorDeclarationLeft ==
  ParseVariable \o
  << EmitName("ACTOR"), Do("define"), Do("enter_actor"), EmitName("GET"), Consume("{"),
     Repeat("messages"), Match("}", <<Emit("POP"), Do("leave_actor")>>, <<Error>>) >>

ActorDeclaration ==
  ParseVariable \o
  << EmitName("ACTOR"), Do("define"), Do("enter_actor"), EmitName("GET"), Consume("{"),
     Repeat("messages"), Consume("}"), Emit("POP"), Do("leave_actor") >>

\* A slip of block and actor_declaration: the end of the source is not looked for.
AtBrace == {"}"}

AtBlockEnd == {"}", "eof"}

\* The bodies; those of the loops are put by Repeat in the frame they are in.
Procedure(p) ==
  CASE p = "compile"     -> <<Match("eof", <<Do("end_compiler")>>,
                                    <<Call("declaration"), Repeat("compile")>>)>>
    [] p = "declaration" -> <<Choose(DeclarationOf, <<Call("statement")>>), Do("synchronize")>>
    [] p = "statement"   -> <<Choose(StatementOf, <<Call("expression_statement")>>)>>
    [] p = "actor_declaration" -> ActorDeclaration
    [] p = "messages"    -> <<Check(AtBlockEnd, <<>>, <<Call("message"), Repeat("messages")>>)>>
    [] p = "message"     -> <<Consume("identifier"), Do("name"), Call("message_function"),
                                   EmitName("MESSAGE")>>
    [] p = "message_function" -> Function("message")
    [] p = "function"    -> Function("function")
    [] p = "fun_declaration" -> ParseVariable \o <<Call("function"), Do("define")>>
    [] p = "parameters"  -> <<Do("arity")>> \o ParseVariable
                            \o <<Do("define"), Match(",", <<Repeat("parameters")>>, <<>>)>>
    [] p = "var_declaration" -> ParseVariable
                            \o <<Match("=", <<Expression>>, <<Emit("nil")>>), Consume(";"),
                                 Do("define")>>
    [] p = "expression_statement" -> <<Expression, Consume(";"), Emit("POP")>>
    [] p = "block"       -> <<Repeat("declarations"), Consume("}")>>
    [] p = "declarations" -> <<Check(AtBlockEnd, <<>>,
                                     <<Call("declaration"), Repeat("declarations")>>)>>
    [] p = "print"       -> <<Expression, Consume(";"), Emit("PRINT")>>
    [] p = "for"         -> ForStatement
    [] p = "if"          -> IfStatement
    [] p = "while"       -> WhileStatement
    [] p = "return"      -> ReturnStatement
    [] p = "arguments"   -> <<Expression, Do("count"), Match(",", <<Repeat("arguments")>>, <<>>)>>

\* The prefix rules: the token that is previous has one, and its body.
HasPrefix(token) ==
  TypeOf(token) \in {"(", "-", "!", "identifier", "this"} \union Literals

Prefix(token, canAssign) ==
  CASE token = "("                -> <<Expression, Consume(")")>>
    [] token \in UnaryOperators   -> <<Parse(PrecUnary), Emit(IF token = "!" THEN "NOT" ELSE "NEGATE")>>
    [] token \in {"number", "string"} -> <<EmitWith("CONSTANT", <<token>>)>>
    [] token \in {"nil", "true", "false"} -> <<Emit(token)>>
    [] token = "this"             -> IF actors = 0 THEN <<Error>>
                                     ELSE NamedVariable(token, FALSE)
    [] OTHER                      -> NamedVariable(token, canAssign)

OrRule ==
  << Jump("JUMP_IF_FALSE", "else_jump"), Jump("JUMP", "end_jump"), Patch("else_jump"), Emit("POP"),
     Parse(PrecedenceOf("or")), Patch("end_jump") >>

AndRule ==
  << Jump("JUMP_IF_FALSE", "end_jump"), Emit("POP"), Parse(PrecedenceOf("and")), Patch("end_jump") >>

DotRule(canAssign) ==
  LET getter == Check({"("}, <<Error>>, <<EmitName("GET_PROPERTY")>>)
  IN  IF actors = 0 THEN <<Error>>
      ELSE << Consume("identifier"), Do("name"),
              IF canAssign
                THEN Match("=", <<Expression, EmitName("SET_PROPERTY")>>, <<getter>>)
                ELSE getter >>

SendRule ==
  << Match("(", <<Consume("identifier"), Do("name"), Match(",", <<>>, <<>>)>>
                \o ArgumentList \o <<EmitCall("INVOKE")>>,
           <<Error>>) >>

Infix(token, canAssign) ==
  CASE token = "("     -> ArgumentList \o <<EmitCall("CALL")>>
    [] token = "."     -> DotRule(canAssign)
    [] token = ".send" -> SendRule
    [] token = "or"    -> OrRule
    [] token = "and"   -> AndRule
    [] OTHER           -> <<Parse(PrecedenceOf(token) + 1), Emit(token)>>

\* A slip of parse_precedence: an operand may be assigned to.
ParseOperandAssignable(precedence) ==
  << Advance, Item("prefix", PrecAssignment, 0), Item("infix", precedence, 0) >>
  \o (IF precedence <= PrecAssignment THEN <<Match("=", <<Error>>, <<>>)>> ELSE <<>>)

\* parse_precedence
ParsePrecedence(precedence) ==
  << Advance, Item("prefix", precedence, 0), Item("infix", precedence, 0) >>
  \o (IF precedence <= PrecAssignment THEN <<Match("=", <<Error>>, <<>>)>> ELSE <<>>)

-----------------------------------------------------------------------------
(***************************************************************************)
(* The steps.                                                              *)
(***************************************************************************)

\* offset of a jump that is not there
NoJump == -1
Places == {"loop_start", "increment_start", "exit_jump", "body_jump", "then_jump", "else_jump",
           "end_jump"}

NewFrame(body) ==
  [todo |-> body, place |-> [p \in Places |-> NoJump], name |-> Empty, count |-> 0]

Top == Last(frames)
It == Head(Top.todo)
At(item) == frames # <<>> /\ It[1] = item

\* The frames when the innermost is now this one; it returns when nothing is left.
Continue(frame) ==
  IF frame.todo = <<>> THEN Front(frames) ELSE [frames EXCEPT ![Len(frames)] = frame]

Then(items) == Continue([Top EXCEPT !.todo = items \o Tail(@)])
Enter(body) == frames' = Append(Then(<<>>), NewFrame(body))
SetPlace(p, offset) == frames' = Continue([Top EXCEPT !.todo = Tail(@), !.place[p] = offset])

\* A slip of error_at: it tests had_error, so that only the first error is reported.
ReportFirst(wrong) ==
  /\ panic' = (panic \/ (wrong /\ ~hadError))
  /\ hadError' = (hadError \/ wrong)

\* error_at
Report(wrong) ==
  /\ panic' = (panic \/ wrong)
  /\ hadError' = (hadError \/ (wrong /\ ~panic))

\* After an error the grammar expects nothing, until the compiler is between two
\* declarations of the script again: then it expects more declarations.
Lost == {<<<<"lost", Script>>>>}
MoreDeclarations == {In(Script, <<"Declarations", "eof">>)}
Expected == IF derivations = Lost /\ Len(frames) = 1 THEN MoreDeclarations ELSE derivations
Follow(token) == IF derivations = Lost THEN Lost ELSE After(derivations, token)

\* advance: bad tells that error tokens were skipped and reported.
Read ==
  \E next \in NextTokens(source) :
    /\ source' = next.source /\ current' = next.token /\ previous' = current
    /\ Report(next.bad)
    /\ derivations' = IF panic' THEN Lost ELSE Follow(TypeOf(current))

Stay(wrong) == Report(wrong) /\ UNCHANGED <<source, current, previous>>
               /\ derivations' = IF panic' THEN Lost ELSE Expected

\* No code is kept after an error.
Code(new) == code' = IF hadError' THEN <<>> ELSE new
SameOutput == Code(code) /\ UNCHANGED <<compilers, actors, finished>>

\* Items that move through the tokens.
DoAdvance == At("advance") /\ Read /\ frames' = Then(<<>>) /\ SameOutput

DoConsume ==
  /\ At("consume")
  /\ \/ TypeOf(current) = It[2] /\ Read
     \/ TypeOf(current) # It[2] /\ Stay(TRUE)
  /\ frames' = Then(<<>>) /\ SameOutput

DoChoose ==
  /\ At("choose")
  /\ \/ TypeOf(current) \in DOMAIN It[2] /\ Read /\ frames' = Then(It[2][TypeOf(current)])
     \/ TypeOf(current) \notin DOMAIN It[2] /\ Stay(FALSE) /\ frames' = Then(It[3])
  /\ SameOutput

DoCheck ==
  /\ At("check")
  /\ frames' = Then(It[3][IF TypeOf(current) \in It[2] THEN 1 ELSE 2])
  /\ Stay(FALSE) /\ SameOutput

DoCall ==
  /\ \/ At("call") /\ Enter(Procedure(It[2]))
     \/ At("parse") /\ Enter(ParsePrecedence(It[2]))
     \/ At("repeat") /\ frames' = Then(Procedure(It[2]))
  /\ Stay(FALSE) /\ SameOutput

\* parse_precedence returns when there is no prefix rule.
DoPrefix ==
  /\ At("prefix")
  /\ \/ HasPrefix(previous) /\ Stay(FALSE) /\ Enter(Prefix(previous, It[2] <= PrecAssignment))
     \/ ~HasPrefix(previous) /\ Stay(TRUE) /\ frames' = Front(frames)
  /\ SameOutput

DoInfix ==
  /\ At("infix")
  /\ \/ /\ It[2] <= PrecedenceOf(current)
        /\ Read
        /\ frames' = Append(frames, NewFrame(Infix(current, It[2] <= PrecAssignment)))
     \/ It[2] > PrecedenceOf(current) /\ Stay(FALSE) /\ frames' = Then(<<>>)
  /\ SameOutput

DoError ==
  /\ At("error") \/ At("error_in")
  /\ Stay(It[1] = "error" \/ Last(compilers).type = It[2])
  /\ frames' = Then(<<>>) /\ SameOutput

\* synchronize.  Skipping goes on until a statement may begin.
DoSynchronize ==
  /\ At("synchronize")
  /\ panic' = FALSE /\ UNCHANGED <<parser, hadError>>
  /\ frames' = Then(IF panic THEN <<Do("skip")>> ELSE <<>>) /\ SameOutput

DoSkip ==
  /\ At("skip")
  /\ \/ /\ current = "eof" \/ previous = ";" \/ current \in Synchronizing
        /\ Stay(FALSE) /\ frames' = Then(<<>>)
     \/ /\ current # "eof" /\ previous # ";" /\ current \notin Synchronizing
        /\ Read /\ UNCHANGED frames
  /\ SameOutput

-----------------------------------------------------------------------------
(***************************************************************************)
(* Emission.                                                               *)
(***************************************************************************)

Current == Last(compilers)
Update(c) == compilers' = [compilers EXCEPT ![Len(compilers)] = c]
Chunk == Last(code)
Length == IF hadError THEN 0 ELSE Len(Chunk)

\* An instruction: the words of the opcode and of its operands.
Instruction(op, args) ==
  <<<<"op", op>>>> \o [i \in DOMAIN args |-> <<"operand", args[i]>>]

Emits(words) == Code([code EXCEPT ![Len(code)] = @ \o words])

\* A distance in two words; more than this is an error.
Halves(distance) == << distance \div Word % Word, distance % Word >>
Limit == (Word * Word - 1) \div 3

Emitted(words) ==
  /\ Stay(FALSE) /\ Emits(words)
  /\ frames' = Then(<<>>) /\ UNCHANGED <<compilers, actors, finished>>

\* emit_return
ReturnCode ==
  (IF Current.type = "message" THEN Instruction("GET", <<"this">>) ELSE Instruction("nil", <<>>))
  \o Instruction("RETURN", <<>>)

DoEmit ==
  \/ At("emit") /\ Emitted(Instruction(It[2], It[3]))
  \/ At("emit_name") /\ Emitted(Instruction(It[2], <<Top.name>>))
  \/ At("emit_call") /\ Emitted(Instruction(It[2], IF It[2] = "INVOKE" THEN <<Top.name, Top.count>>
                                                    ELSE <<Top.count>>))
  \/ At("emit_return") /\ Emitted(ReturnCode)

DoCount ==
  /\ At("count")
  /\ frames' = Continue([Top EXCEPT !.todo = Tail(@), !.count = @ + 1])
  /\ Stay(FALSE) /\ SameOutput

\* emit_jump, and the variables that keep offsets.
DoJump ==
  /\ At("jump")
  /\ Stay(FALSE)
  /\ SetPlace(It[3], Length + 1)
  /\ Emits(Instruction(It[2], Halves(Word * Word - 1)))
  /\ UNCHANGED <<compilers, actors, finished>>

DoMark ==
  /\ \/ At("mark") /\ SetPlace(It[2], Length)
     \/ At("increment") /\ SetPlace("loop_start", Top.place["increment_start"])
  /\ Stay(FALSE) /\ SameOutput

\* patch_jump
DoPatch ==
  /\ At("patch")
  /\ LET offset == Top.place[It[2]]
         jump == Length - offset - 2
     IN  /\ Stay(~hadError /\ jump > Limit)
         /\ Code([code EXCEPT ![Len(code)] =
                    [@ EXCEPT ![offset + 1][2] = Halves(jump)[1],
                              ![offset + 2][2] = Halves(jump)[2]]])
  /\ frames' = Then(<<>>) /\ UNCHANGED <<compilers, actors, finished>>

DoPatchExit ==
  /\ At("patch_exit")
  /\ frames' = Then(IF Top.place["exit_jump"] = NoJump THEN <<>>
                    ELSE <<Patch("exit_jump"), Emit("POP")>>)
  /\ Stay(FALSE) /\ SameOutput

\* emit_loop
DoLoop ==
  /\ At("loop")
  /\ LET offset == Length + 1 - Top.place[It[2]] + 2
     IN  /\ Stay(~hadError /\ offset > Limit)
         /\ Emits(Instruction("LOOP", Halves(offset)))
  /\ frames' = Then(<<>>) /\ UNCHANGED <<compilers, actors, finished>>

-----------------------------------------------------------------------------
(***************************************************************************)
(* Scopes, functions and actors.                                           *)
(***************************************************************************)

\* A local of depth 0 is the one that init_compiler makes.
NewCompiler(type) == [type |-> type, depth |-> 0, arity |-> 0, locals |-> <<0>>]

DoBeginScope ==
  /\ At("begin_scope")
  /\ Update([Current EXCEPT !.depth = @ + 1])
  /\ frames' = Then(<<>>) /\ Stay(FALSE) /\ UNCHANGED <<actors, code, finished>>

\* end_scope: the locals go, from the last, until one is met that stays.
DoEndScope ==
  /\ At("end_scope")
  /\ LET staying == {i \in DOMAIN Current.locals : Current.locals[i] < Current.depth}
         kept == SubSeq(Current.locals, 1, Max(staying))
         popped == Len(Current.locals) - Len(kept)
     IN  /\ Update([Current EXCEPT !.depth = @ - 1, !.locals = kept])
         /\ Stay(FALSE)
         /\ Emits(FlattenSeq([i \in 1..popped |-> Instruction("POP", <<>>)]))
  /\ frames' = Then(<<>>) /\ UNCHANGED <<actors, finished>>

\* The name that has just been consumed.
DoName ==
  /\ At("name")
  /\ frames' = Continue([Top EXCEPT !.todo = Tail(@), !.name = previous])
  /\ Stay(FALSE) /\ SameOutput

\* declare_variable and, with the increment of arity, what precedes it.
DoDeclare ==
  /\ At("declare")
  /\ Update(IF Current.depth = 0 THEN Current
            ELSE [Current EXCEPT !.locals = Append(@, Current.depth)])
  /\ frames' = Continue([Top EXCEPT !.todo = Tail(@), !.name = previous])
  /\ Stay(FALSE) /\ UNCHANGED <<actors, code, finished>>

DoArity ==
  /\ At("arity")
  /\ Update([Current EXCEPT !.arity = @ + 1])
  /\ frames' = Then(<<>>) /\ Stay(FALSE) /\ UNCHANGED <<actors, code, finished>>

\* define_variable: the value of a global is followed by whether it is constant.
DoDefine ==
  /\ At("define")
  /\ Emitted(IF Current.depth > 0 THEN <<>>
             ELSE Instruction("CONSTANT", <<"true">>)
                  \o Instruction("DEFINE_GLOBAL", <<Top.name>>))

DoInitCompiler ==
  /\ At("init_compiler")
  /\ compilers' = Append(compilers, NewCompiler(It[2]))
  /\ Stay(FALSE) /\ frames' = Then(<<>>)
  /\ Code(Append(code, <<>>)) /\ UNCHANGED <<actors, finished>>

\* end_compiler
DoEndCompiler ==
  /\ At("end_compiler")
  /\ finished' = IF hadError THEN <<>>
                 ELSE Append(finished, [compiler |-> Current, code |-> Chunk \o ReturnCode])
  /\ compilers' = Front(compilers)
  /\ Stay(FALSE) /\ Code(Front(code))
  /\ frames' = Then(<<>>) /\ UNCHANGED actors

DoActor ==
  /\ \/ At("enter_actor") /\ actors' = actors + 1
     \/ At("leave_actor") /\ actors' = actors - 1
  /\ frames' = Then(<<>>) /\ Stay(FALSE) /\ UNCHANGED <<compilers, code, finished>>

-----------------------------------------------------------------------------

\* compile() has initialized the compiler of the script and read the first token.
Begin(s) ==
  /\ \E next \in NextTokens(s) :
       /\ source = next.source /\ current = next.token /\ previous = "eof"
       /\ panic = next.bad /\ hadError = next.bad
       /\ derivations = IF next.bad THEN Lost ELSE Start
       /\ code = IF next.bad THEN <<>> ELSE <<<<>>>>
  /\ frames = <<NewFrame(Procedure("compile"))>>
  /\ compilers = <<NewCompiler("script")>> /\ actors = 0 /\ finished = <<>>

Init == \E s \in Source : Begin(s)

Next ==
  \/ DoAdvance \/ DoConsume \/ DoChoose \/ DoCheck \/ DoCall \/ DoPrefix \/ DoInfix \/ DoError
  \/ DoSynchronize \/ DoSkip \/ DoEmit \/ DoCount \/ DoJump \/ DoMark \/ DoPatch \/ DoPatchExit
  \/ DoLoop \/ DoBeginScope \/ DoEndScope \/ DoName \/ DoDeclare \/ DoArity \/ DoDefine
  \/ DoInitCompiler \/ DoEndCompiler \/ DoActor

Spec == Init /\ [][Next]_vars

-----------------------------------------------------------------------------
(***************************************************************************)
(* Properties.                                                             *)
(***************************************************************************)

Done == frames = <<>>

\* Every source is compiled to its end, however wrong it is: each turn of the loops
\* of compile, block and actor_declaration consumes a token, for all that consume
\* and dot leave the token they complain about where it is.
Terminates == <>Done

\* What is accepted, from the beginning or from where the compiler had recovered from an
\* error, ends a program of the grammar ...
IsProgram == derivations = Lost \/ <<>> \in derivations

\* ... and where an error is reported, unless it is that a jump is too long, no program
\* has this token after the ones before it (test/for/statement_condition.nz,
\* test/assignment/grouping.nz and others); nor does one go on that way after a
\* recovery.  Of what is skipped by synchronize, and of the rest of the declaration
\* it resumes in, nothing is said.
NoProgramGoesOn ==
  derivations = Lost \/ At("patch") \/ At("loop") \/ After(derivations, TypeOf(current)) = {}

\* The parser accepts the programs of the grammar and nothing else, from the first
\* declaration and from each one at the top level that follows an error.
SyntaxExact ==
  [][ /\ Done' => IsProgram'
      /\ ~panic /\ panic' /\ UNCHANGED source => NoProgramGoesOn ]_vars

\* Between the declarations of the script nothing is left of what an erroneous one
\* had begun: no actor, no function, no block and no local variable, wherever in
\* them the error was and whatever synchronize has skipped.
BackAtTop ==
  Len(frames) = 1 => actors = 0 /\ compilers = <<NewCompiler("script")>>

=============================================================================
