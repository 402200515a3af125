----------------------------- MODULE Execution -----------------------------
(***************************************************************************)
(* A program from its text to its effects: the compiler, and then the loop *)
(* run() of vm.c on the code of the script.  What a variable holds and     *)
(* what a call returns is not tracked: whenever the program looks, it is   *)
(* something truthy or something falsey, or a property that is missing; an *)
(* operator, a name or a call may turn out to be an error when it is       *)
(* executed.  The properties that are read, the values that are printed,   *)
(* assigned, defined and passed, and the order of all that, are the        *)
(* effects of the program.                                                 *)
(*                                                                         *)
(* The reference is the meaning of the syntax tree of the program, which   *)
(* knows no code, no jumps and no stack.                                   *)
(***************************************************************************)
EXTENDS Compiler

CONSTANTS
  Trees,     \* the syntax trees of the programs
  MaxReads   \* bound: values that a program gets from outside

VARIABLES
  program,   \* the body, and in what the body is: script, function or message
  ip,        \* offset of the next instruction; Halted after OP_RETURN, Failed after an error
  stack,     \* the values over slot 0 of the script
  reads,     \* whether each value that was read is truthy, falsey or missing
  effects    \* what the program has done

machine == <<ip, stack, reads, effects>>
allVars == <<vars, program, machine>>

Halted == -1
Failed == -2

\* A value is known by the expression it comes from and by whether it is truthy.
Value(term, truthy) == [term |-> term, truthy |-> truthy]

-----------------------------------------------------------------------------
(***************************************************************************)
(* The text of a tree.                                                     *)
(***************************************************************************)

\* How tightly the operator at the root of an expression binds; the tighter, the
\* greater (enum Precedence: each of its members binds more than those before it).
Tightness(e) ==
  CASE e[1] \in {"set", "put"} -> 1
    [] e[1] = "binary" -> CHOOSE n \in DOMAIN Levels : e[2] \in Levels[n]
    [] e[1] = "unary"  -> 8
    [] OTHER           -> 9

RECURSIVE Text(_, _), ListText(_)

\* An expression where something of this tightness is expected; the operators of one
\* level group to the left.
Text(e, tightness) ==
  LET bare == CASE e[1] = "read"   -> <<e[2]>>
                [] e[1] = "set"    -> <<e[2], "=">> \o Text(e[3], 1)
                [] e[1] = "get"    -> Text(e[2], 9) \o <<".", e[3]>>
                [] e[1] = "put"    -> Text(e[2], 9) \o <<".", e[3], "=">> \o Text(e[4], 1)
                [] e[1] = "unary"  -> <<e[2]>> \o Text(e[3], 8)
                [] e[1] = "binary" -> Text(e[3], Tightness(e)) \o <<e[2]>>
                                      \o Text(e[4], Tightness(e) + 1)
                [] e[1] = "call"   -> Text(e[2], 9) \o <<"(">> \o ListText(e[3]) \o <<")">>
                [] e[1] = "send"   -> Text(e[2], 9) \o <<".send", "(", e[4]>>
                                      \o (IF e[3] = <<>> THEN <<>> ELSE <<",">>)
                                      \o ListText(e[3]) \o <<")">>
  IN  IF Tightness(e) < tightness THEN <<"(">> \o bare \o <<")">> ELSE bare

ListText(es) ==
  IF es = <<>> THEN <<>>
  ELSE Text(es[1], 1) \o (IF Len(es) = 1 THEN <<>> ELSE <<",">> \o ListText(Tail(es)))

Nothing == <<"nothing">>
NoProgram == [within |-> "nothing", body |-> Nothing]
Clause(e) == IF e = Nothing THEN <<>> ELSE Text(e, 1)

RECURSIVE StatementText(_)
StatementText(s) ==
  CASE s[1] = "do"     -> Text(s[2], 1) \o <<";">>
    [] s[1] = "print"  -> <<"print">> \o Text(s[2], 1) \o <<";">>
    [] s[1] = "var"    -> <<"var", s[2], "=">> \o Text(s[3], 1) \o <<";">>
    [] s[1] = "return" -> <<"return">> \o Clause(s[2]) \o <<";">>
    [] s[1] = "if"     -> <<"if", "(">> \o Text(s[2], 1) \o <<")">> \o StatementText(s[3])
                          \o (IF s[4] = Nothing THEN <<>> ELSE <<"else">> \o StatementText(s[4]))
    [] s[1] = "while"  -> <<"while", "(">> \o Text(s[2], 1) \o <<")">> \o StatementText(s[3])
    [] s[1] = "for"    -> <<"for", "(">>
                          \o (IF s[2] = Nothing THEN <<";">> ELSE StatementText(s[2]))
                          \o Clause(s[3]) \o <<";">> \o Clause(s[4]) \o <<")">>
                          \o StatementText(s[5])
    [] s[1] = "block"  -> <<"{">> \o FlattenSeq([i \in DOMAIN s[2] |-> StatementText(s[2][i])])
                          \o <<"}">>

\* The source: the statement as the script, or as the body of a function or message.
SourceText ==
  LET body == <<"(", ")", "{">> \o StatementText(program.body) \o <<"}">>
  IN  CASE program.within = "script"   -> StatementText(program.body)
        [] program.within = "function" -> <<"fun", "f">> \o body
        [] program.within = "message"  -> <<"actor", "f", "{", "f">> \o body \o <<"}">>

-----------------------------------------------------------------------------
(***************************************************************************)
(* The meaning of a tree: its effects when the values that it gets from    *)
(* outside are as told; it is stuck where it wants one more, and a missing *)
(* property is a runtime error (test/field/undefined.nz).                  *)
(***************************************************************************)

Comparisons == {"==", "!=", "<", "<=", ">", ">="}
Self == Value(<<"this">>, TRUE)
Nil == Value(<<"nil">>, FALSE)

\* The next value from outside.
Ask(term, s) ==
  IF s.asks = <<>> THEN [s EXCEPT !.status = "stuck"]
  ELSE IF Head(s.asks) = "missing" THEN [s EXCEPT !.status = "failed"]
  ELSE [s EXCEPT !.asks = Tail(@), !.val = Value(term, Head(s.asks) = "truthy")]

Going(s) == s.status = "going"
Effect(s, what) == IF Going(s) THEN [s EXCEPT !.effects = Append(@, what)] ELSE s

\* An effect, and then the value it has.
AskAfter(s, what, term) == IF Going(s) THEN Ask(term, Effect(s, what)) ELSE s

RECURSIVE Evaluate(_, _), EvaluateAll(_, _)
Evaluate(e, s) ==
  IF ~Going(s) THEN s
  ELSE CASE e[1] = "read" -> IF e[2] = "this" THEN [s EXCEPT !.val = Self] ELSE Ask(<<e[2]>>, s)
         [] e[1] = "set"  -> LET r == Evaluate(e[3], s) IN Effect(r, <<"set", e[2], r.val>>)
         [] e[1] = "get"  -> LET o == Evaluate(e[2], s)
                             IN  AskAfter(o, <<"get", e[3], o.val>>, <<".", e[3]>>)
         [] e[1] = "put"  -> LET o == Evaluate(e[2], s)
                                 r == Evaluate(e[4], o)
                             IN  Effect(r, <<"put", e[3], o.val, r.val>>)
         [] e[1] = "unary" ->
              LET r == Evaluate(e[3], s)
              IN  IF Going(r)
                    THEN [r EXCEPT !.val = Value(<<e[2], r.val.term>>,
                                                 e[2] = "-" \/ ~r.val.truthy)]
                    ELSE r
         [] e[1] = "binary" /\ e[2] \in {"and", "or"} ->
              LET l == Evaluate(e[3], s)
              IN  IF ~Going(l) \/ l.val.truthy = (e[2] = "or") THEN l ELSE Evaluate(e[4], l)
         [] e[1] = "binary" /\ e[2] \notin {"and", "or"} ->
              LET l == Evaluate(e[3], s)
                  r == Evaluate(e[4], l)
                  term == <<e[2], l.val.term, r.val.term>>
              IN  IF ~Going(r) THEN r
                  ELSE IF e[2] \in Comparisons THEN Ask(term, r)
                  ELSE [r EXCEPT !.val = Value(term, TRUE)]
         [] e[1] \in {"call", "send"} ->
              LET f == Evaluate(e[2], s)
                  all == EvaluateAll(e[3], [f EXCEPT !.args = <<>>])
                  name == IF e[1] = "call" THEN <<>> ELSE <<e[4]>>
              IN  AskAfter([all EXCEPT !.args = s.args],
                           <<e[1], f.val, all.args>> \o name, <<"result", f.val.term>>)

\* The arguments are added to those that s has.
EvaluateAll(es, s) ==
  IF es = <<>> \/ ~Going(s) THEN s
  ELSE LET r == Evaluate(es[1], s)
       IN  EvaluateAll(Tail(es), [r EXCEPT !.args = Append(s.args, r.val)])

RECURSIVE Run(_, _), Iterate(_, _, _, _)
Run(p, s) ==
  IF ~Going(s) \/ p = Nothing THEN s
  ELSE CASE p[1] = "do"    -> Evaluate(p[2], s)
         [] p[1] = "print" -> LET r == Evaluate(p[2], s) IN Effect(r, <<"print", r.val>>)
         [] p[1] = "var"   -> LET r == Evaluate(p[3], s)
                              IN  IF s.local THEN r ELSE Effect(r, <<"define", p[2], r.val>>)
         [] p[1] = "return" -> LET r == IF p[2] = Nothing THEN [s EXCEPT !.val = Nil]
                                        ELSE Evaluate(p[2], s)
                               IN  IF Going(r)
                                     THEN [Effect(r, <<"return", r.val>>) EXCEPT !.status = "returned"]
                                     ELSE r
         [] p[1] = "if"    -> LET r == Evaluate(p[2], s)
                              IN  Run(IF Going(r) /\ r.val.truthy THEN p[3] ELSE p[4], r)
         [] p[1] = "while" -> Iterate(p[2], p[3], Nothing, s)
         [] p[1] = "for"   -> LET i == Run(p[2], [s EXCEPT !.local = TRUE])
                              IN  [Iterate(p[3], p[5], p[4], i) EXCEPT !.local = s.local]
         [] p[1] = "block" -> [FoldLeft(LAMBDA t, q : Run(q, t), [s EXCEPT !.local = TRUE], p[2])
                                EXCEPT !.local = s.local]

Iterate(condition, body, increment, s) ==
  LET c == IF condition = Nothing THEN [s EXCEPT !.val = Self] ELSE Evaluate(condition, s)
      b == Run(body, c)
  IN  IF ~Going(c) \/ ~c.val.truthy THEN c
      ELSE Iterate(condition, body, increment,
                   IF increment = Nothing THEN b ELSE Evaluate(increment, b))

\* A message without a return statement, as all are, returns its receiver.
Meaning(asks) ==
  LET ran == Run(program.body,
                 [asks |-> asks, effects |-> <<>>, status |-> "going", val |-> Nil, args |-> <<>>,
                  local |-> program.within # "script"])
  IN  Effect(ran, <<"return", IF program.within = "message" THEN Self ELSE Nil>>)

-----------------------------------------------------------------------------
(***************************************************************************)
(* What run() makes of the stack, instruction by instruction.              *)
(***************************************************************************)

BinaryInstructions == BinaryOperators \ {"or", "and"}

Operands(op) ==
  CASE op \in {"GET", "SET", "CONSTANT", "DEFINE_GLOBAL", "GET_PROPERTY", "SET_PROPERTY",
               "CALL", "ACTOR", "MESSAGE", "CLOSURE"} -> 1
    [] op \in {"JUMP", "JUMP_IF_FALSE", "LOOP", "INVOKE"} -> 2
    [] OTHER -> 0

Pushed(op, count) ==
  CASE op \in {"GET", "CONSTANT", "ACTOR", "CLOSURE", "nil", "true", "false"} -> 1
    [] op \in BinaryInstructions \union {"POP", "PRINT", "SET_PROPERTY", "MESSAGE"} -> -1
    [] op = "DEFINE_GLOBAL" -> -2
    [] op \in {"CALL", "INVOKE"} -> -count
    [] OTHER -> 0

\* READ_INT
Distance(words, place) == words[place + 2][2] * Word + words[place + 3][2]

\* Where execution may go from the instruction at a place, which is not OP_RETURN.
Targets(words, place) ==
  LET op == words[place + 1][2]
      following == place + 1 + Operands(op)
  IN  CASE op = "JUMP"          -> {following + Distance(words, place)}
        [] op = "JUMP_IF_FALSE" -> {following, following + Distance(words, place)}
        [] op = "LOOP"          -> {following - Distance(words, place)}
        [] OTHER                -> {following}

\* An instruction and the height of the stack before it: those that may come next.
IsInstruction(words, place) == place + 1 \in DOMAIN words /\ words[place + 1][1] = "op"
StepsFrom(words, visit) ==
  LET place == visit[1]
      op == words[place + 1][2]
  IN  IF ~IsInstruction(words, place) \/ visit[2] \notin 0..(2 * Len(words)) \/ op = "RETURN" THEN {}
      ELSE {<<t, visit[2] + Pushed(op, IF Operands(op) = 0 THEN 0
                                       ELSE words[place + 1 + Operands(op)][2])>>
              : t \in Targets(words, place)}

RECURSIVE Visits(_, _, _)
Visits(words, new, old) ==
  IF new = {} THEN old
  ELSE LET next == UNION {StepsFrom(words, v) : v \in new}
       IN  Visits(words, next \ (old \union new), old \union new)

\* In the code of every function each instruction is always reached with the same height
\* of the stack, never below its slot 0, and by jumps that end at an instruction;
\* at its end there are the locals and the result.
CodeIsBalanced ==
  \A i \in DOMAIN finished :
    LET words == finished[i].code
        c == finished[i].compiler
        visits == Visits(words, {<<0, 1 + c.arity>>}, {})
    IN  \A v \in visits :
          /\ IsInstruction(words, v[1]) /\ v[2] >= 1
          /\ \A w \in visits : v[1] = w[1] => v[2] = w[2]
          /\ v[1] + 1 = Len(words) => v[2] = Len(c.locals) + 1

-----------------------------------------------------------------------------
(***************************************************************************)
(* run() of vm.c.                                                          *)
(***************************************************************************)

\* The function that was finished first: the innermost.
Words == finished[1].code
Op == Words[ip + 1][2]
Operand == Words[ip + 2][2]
Following == ip + 1 + Operands(Op)
Executing == Done /\ ~hadError /\ ip \notin {Halted, Failed} /\ program # NoProgram

Peek(n) == stack[Len(stack) - n]
Dropped(n) == SubSeq(stack, 1, Len(stack) - n)

\* is_falsey
IsFalsey(value) == ~value.truthy

Does(what) == effects' = Append(effects, what)
Goto(target) == ip' = target

\* The values from outside that an instruction pushes over what it leaves.
Push(rest, term) ==
  /\ Len(reads) < MaxReads
  /\ \E truthy \in BOOLEAN :
       /\ stack' = Append(rest, Value(term, truthy))
       /\ reads' = Append(reads, IF truthy THEN "truthy" ELSE "falsey")

ExecuteRead ==
  /\ Op = "GET"
  /\ \/ Operand # "this" /\ Push(stack, <<Operand>>)
     \/ Operand = "this" /\ stack' = Append(stack, Self) /\ UNCHANGED reads
  /\ Goto(Following) /\ UNCHANGED effects

ExecuteConstant ==
  /\ Op \in {"CONSTANT", "nil", "true", "false"}
  /\ stack' = Append(stack, Value(<<Op>>, Op \notin {"nil", "false"}))
  /\ Goto(Following) /\ UNCHANGED <<reads, effects>>

ExecuteSet ==
  /\ Op = "SET"
  /\ Does(<<"set", Operand, Peek(0)>>)
  /\ Goto(Following) /\ UNCHANGED <<stack, reads>>

ExecuteDefine ==
  /\ Op = "DEFINE_GLOBAL"
  /\ Does(<<"define", Operand, Peek(1)>>) /\ stack' = Dropped(2)
  /\ Goto(Following) /\ UNCHANGED reads

ExecutePop ==
  /\ Op \in {"POP", "PRINT"}
  /\ IF Op = "PRINT" THEN Does(<<"print", Peek(0)>>) ELSE UNCHANGED effects
  /\ stack' = Dropped(1)
  /\ Goto(Following) /\ UNCHANGED reads

ExecuteUnary ==
  /\ Op \in {"NOT", "NEGATE"}
  /\ LET value == IF Op = "NOT" THEN Value(<<"!", Peek(0).term>>, IsFalsey(Peek(0)))
                  ELSE Value(<<"-", Peek(0).term>>, TRUE)
     IN  stack' = Append(Dropped(1), value)
  /\ Goto(Following) /\ UNCHANGED <<reads, effects>>

\* The right operand is on top.
BinaryTerm == <<Op, Peek(1).term, Peek(0).term>>

ExecuteBinary ==
  /\ \/ Op \in Comparisons /\ Push(Dropped(2), BinaryTerm)
     \/ /\ Op \in BinaryInstructions \ Comparisons
        /\ stack' = Append(Dropped(2), Value(BinaryTerm, TRUE)) /\ UNCHANGED reads
  /\ Goto(Following) /\ UNCHANGED effects

ExecuteJump ==
  /\ Op \in {"JUMP", "JUMP_IF_FALSE", "LOOP"}
  /\ Goto(IF Op = "LOOP" THEN Following - Distance(Words, ip)
          ELSE IF Op = "JUMP" \/ IsFalsey(Peek(0)) THEN Following + Distance(Words, ip)
          ELSE Following)
  /\ UNCHANGED <<stack, reads, effects>>

\* A field that the instance does not have leaves the instance where it is.
ExecuteGetProperty ==
  /\ Op = "GET_PROPERTY"
  /\ \/ Push(Dropped(1), <<".", Operand>>)
     \/ Len(reads) < MaxReads /\ reads' = Append(reads, "missing") /\ UNCHANGED stack
  /\ Does(<<"get", Operand, Peek(0)>>)
  /\ Goto(Following)

ExecuteSetProperty ==
  /\ Op = "SET_PROPERTY"
  /\ Does(<<"put", Operand, Peek(1), Peek(0)>>)
  /\ stack' = Append(Dropped(2), Peek(0))
  /\ Goto(Following) /\ UNCHANGED reads

\* OP_CALL and OP_INVOKE: the callee or the receiver is under the arguments.
ArgCount == Words[ip + 1 + Operands(Op)][2]
CallEffect ==
  LET args == SubSeq(stack, Len(stack) - ArgCount + 1, Len(stack))
  IN  IF Op = "CALL" THEN <<"call", Peek(ArgCount), args>>
      ELSE <<"send", Peek(ArgCount), args, Operand>>

ExecuteCall ==
  /\ Op \in {"CALL", "INVOKE"}
  /\ Push(Dropped(ArgCount + 1), <<"result", Peek(ArgCount).term>>)
  /\ Does(CallEffect)
  /\ Goto(Following)

\* runtime_error, here (a name that is not defined or may not be assigned, an operand, a
\* receiver or a callee of the wrong kind) or in the function that is called.
MayFail ==
  {"GET", "SET", "GET_PROPERTY", "SET_PROPERTY", "NEGATE", "CALL", "INVOKE"}
  \union (BinaryInstructions \ {"==", "!="})

ExecuteError ==
  /\ Op \in MayFail /\ (Op = "GET" => Operand # "this")
  /\ \/ UNCHANGED effects
     \/ Op \in {"CALL", "INVOKE"} /\ Does(CallEffect)
  /\ ip' = Failed /\ stack' = <<>> /\ UNCHANGED reads

\* The result is popped and the window of the call goes with it.
ExecuteReturn ==
  /\ Op = "RETURN"
  /\ Does(<<"return", Peek(0)>>) /\ stack' = Dropped(1)
  /\ ip' = Halted /\ UNCHANGED reads

Execute ==
  /\ Executing
  /\ \/ ExecuteRead \/ ExecuteConstant \/ ExecuteSet \/ ExecuteDefine \/ ExecutePop
     \/ ExecuteUnary \/ ExecuteBinary \/ ExecuteJump \/ ExecuteGetProperty
     \/ ExecuteSetProperty \/ ExecuteCall \/ ExecuteError \/ ExecuteReturn
  /\ UNCHANGED <<vars, program>>

-----------------------------------------------------------------------------

\* The source is the text of a tree, or any: that is compiled only.
ExecutionInit ==
  /\ \/ program \in Trees /\ Begin(SourceText)
     \/ program = NoProgram /\ Init
  /\ ip = 0 /\ stack = <<>> /\ reads = <<>> /\ effects = <<>>

Compile == Next /\ UNCHANGED <<program, machine>>
ExecutionNext == Execute \/ Compile

\* The compiler runs until it is done; a program may wait for a value for ever.
ExecutionSpec == ExecutionInit /\ [][ExecutionNext]_allVars /\ WF_allVars(Compile)

-----------------------------------------------------------------------------
(***************************************************************************)
(* Properties.                                                             *)
(***************************************************************************)

Compiled == Done /\ ~hadError /\ program # NoProgram

\* The code does what the program says: whatever the values it gets, its effects are
\* those of the tree up to the next value it needs; it needs one more exactly where
\* the tree does; and it ends where the tree does with nothing on the stack but the
\* result of the script (test/for/syntax.nz, test/if/dangling_else.nz,
\* test/logical_operator/and.nz, test/expressions/evaluate.nz).  A program is
\* refused when a distance does not fit (compiler.c:162, compiler.c:203).  Once it has
\* read a missing property, which test/field/undefined.nz:4 expects to be an error and
\* vm.c:420 lets pass, nothing more is said than that all it should have done, it did.
RunsAsWritten ==
  Compiled =>
    LET meaning == Meaning(reads)
    IN  IF meaning.status = "failed" THEN IsPrefix(meaning.effects, effects)
        ELSE /\ IsPrefix(effects, meaning.effects)
             /\ ip = Halted => meaning.status # "stuck" /\ effects = meaning.effects
             /\ program.within = "script" /\ ip = Halted => stack = <<>>
             /\ Executing /\ Op = "GET" /\ Operand # "this" =>
                  meaning.status = "stuck" /\ effects = meaning.effects

=============================================================================
