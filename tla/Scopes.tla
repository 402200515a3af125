------------------------------- MODULE Scopes -------------------------------
(***************************************************************************)
(* Variables at compile time: the scopes, local variables and upvalues of  *)
(* compiler.c (init_compiler, end_compiler, begin_scope, end_scope,        *)
(* resolve_local, add_upvalue, resolve_upvalue, add_local,                 *)
(* declare_variable, mark_initialized, define_variable, named_variable,    *)
(* this_) and the declarations that use them.  The compiler is one pass:   *)
(* what it emits for a name depends on what it has seen so far.            *)
(*                                                                         *)
(* compilers is the chain from the script to current.  The program is any  *)
(* sequence of declarations, blocks and uses of names that the grammar     *)
(* allows; stage says where in a declaration each compiler is.  A program  *)
(* with an error is never run, so the model stops at the first.            *)
(*                                                                         *)
(* Of the code, emitted keeps the last access to a variable, and height is *)
(* the number of values that the code so far leaves in the window of the   *)
(* call, which is where the VM will look for the locals.                   *)
(***************************************************************************)
EXTENDS Integers, Sequences, FiniteSets, Functions, SequencesExt

CONSTANTS
  Name,        \* identifiers
  This,        \* the name "this"
  NoName,      \* the empty name of slot 0
  IndexRange,  \* indices are truncated to uint16_t (65536)
  MaxLocals,   \* bound: local variables in scope, of all the functions together
  MaxNesting,  \* bound: functions inside one another
  MaxBlocks    \* bound: open blocks, of all the functions together

ASSUME NameAssumption == This \notin Name /\ NoName \notin Name /\ This # NoName
ASSUME BoundAssumption ==
  /\ IndexRange \in Nat \ {0} /\ MaxLocals \in Nat
  /\ MaxNesting \in Nat \ {0} /\ MaxBlocks \in Nat

VARIABLES
  compilers,  \* current and its enclosing compilers, current last
  actors,     \* the number of ActorCompilers
  emitted,    \* the variable access that was compiled last
  error       \* parser.had_error

vars == <<compilers, actors, emitted, error>>

Uninitialized == -1
NoAccess == [op |-> "none", arg |-> 0, name |-> NoName, set |-> FALSE]

\* init_compiler
NewCompiler(type) ==
  [type |-> type, depth |-> IF type = "script" THEN 0 ELSE 1,
   locals |-> <<[name |-> IF type = "message" THEN This ELSE NoName, depth |-> 0,
                 captured |-> FALSE, constant |-> TRUE]>>,
   upvalues |-> <<>>, height |-> 1,
   stage |-> IF type = "script" THEN "statement" ELSE "parameters"]

Init ==
  /\ compilers = <<NewCompiler("script")>>
  /\ actors = 0
  /\ emitted = NoAccess
  /\ error = FALSE

-----------------------------------------------------------------------------
(***************************************************************************)
(* Declaration.                                                            *)
(***************************************************************************)

Current == Last(compilers)
Update(c) == [compilers EXCEPT ![Len(compilers)] = c]

\* declare_variable: is there a local of this name in the scope of c?
Duplicate(c, name) ==
  \E i \in DOMAIN c.locals :
    /\ c.locals[i].name = name
    /\ \A j \in i..Len(c.locals) :
         c.locals[j].depth = Uninitialized \/ c.locals[j].depth >= c.depth

\* declare_variable and add_local; a global has no place in the compiler.
Declare(c, name, constant) ==
  IF c.depth = 0
    THEN c
    ELSE [c EXCEPT !.locals = Append(@, [name |-> name, depth |-> Uninitialized,
                                         captured |-> FALSE, constant |-> constant])]

\* The bound on local variables; the first of each compiler is its own slot 0.
LocalsInScope == UNION {{n} \X (2..Len(compilers[n].locals)) : n \in DOMAIN compilers}
HasRoom == Cardinality(LocalsInScope) < MaxLocals

CanDeclare(c, name) == c.depth = 0 \/ ~Duplicate(c, name)

\* mark_initialized
MarkInitialized(c) ==
  IF c.depth = 0 THEN c ELSE [c EXCEPT !.locals[Len(c.locals)].depth = c.depth]

\* A slip of define_variable for the mutants: a local is also a global.
DefineBoth(c) == MarkInitialized(c)

\* define_variable: the value on top becomes a local, or OP_DEFINE_GLOBAL pops it.
Define(c) ==
  IF c.depth = 0 THEN c ELSE [MarkInitialized(c) EXCEPT !.height = @ + 1]

\* The program has a statement or a declaration next.
AtStatement == ~error /\ Current.stage = "statement"

\* An error is reported, and nothing will run.
Error == error' = TRUE /\ emitted' = NoAccess /\ UNCHANGED <<compilers, actors>>

Compiled == emitted' = NoAccess /\ UNCHANGED error

\* var_declaration up to the initializer, and from there on.
BeginVar(name, constant) ==
  /\ AtStatement
  /\ HasRoom
  /\ \/ ~CanDeclare(Current, name) /\ Error
     \/ /\ CanDeclare(Current, name)
        /\ compilers' = Update([Declare(Current, name, constant) EXCEPT !.stage = "initializer"])
        /\ Compiled /\ UNCHANGED actors

EndVar ==
  /\ ~error
  /\ Current.stage = "initializer"
  /\ compilers' = Update([Define(Current) EXCEPT !.stage = "statement"])
  /\ Compiled /\ UNCHANGED actors

\* The bound on blocks; the body of a function is itself at depth 1.
OutermostBlock(c) == IF c.type = "script" THEN 1 ELSE 2
OpenBlocks ==
  UNION {{n} \X (OutermostBlock(compilers[n])..compilers[n].depth) : n \in DOMAIN compilers}

BeginScope ==
  /\ AtStatement
  /\ Cardinality(OpenBlocks) < MaxBlocks
  /\ compilers' = Update([Current EXCEPT !.depth = @ + 1])
  /\ Compiled /\ UNCHANGED actors

\* Slips of end_scope: >= for >; the depth goes down after the loop.
EndScopeGreedy ==
  /\ AtStatement
  /\ Current.depth > (IF Current.type = "script" THEN 0 ELSE 1)
  /\ LET depth == Current.depth - 1
         kept == Cardinality({i \in DOMAIN Current.locals : Current.locals[i].depth < depth})
     IN  compilers' = Update([Current EXCEPT
           !.depth = depth,
           !.locals = SubSeq(@, 1, kept),
           !.height = @ - (Len(Current.locals) - kept)])
  /\ Compiled /\ UNCHANGED actors

EndScopeLate ==
  /\ AtStatement
  /\ Current.depth > (IF Current.type = "script" THEN 0 ELSE 1)
  /\ compilers' = Update([Current EXCEPT !.depth = @ - 1])
  /\ Compiled /\ UNCHANGED actors

\* end_scope: an OP_POP or OP_CLOSE_UPVALUE for each local that is deeper.
EndScope ==
  /\ AtStatement
  /\ Current.depth > (IF Current.type = "script" THEN 0 ELSE 1)
  /\ LET depth == Current.depth - 1
         kept == CHOOSE n \in 0..Len(Current.locals) :
                   /\ \A i \in (n + 1)..Len(Current.locals) : Current.locals[i].depth > depth
                   /\ n > 0 => Current.locals[n].depth <= depth
     IN  compilers' = Update([Current EXCEPT
           !.depth = depth,
           !.locals = SubSeq(@, 1, kept),
           !.height = @ - (Len(Current.locals) - kept)])
  /\ Compiled /\ UNCHANGED actors

\* fun_declaration up to the parameters.
BeginFunction(name) ==
  /\ AtStatement
  /\ Len(compilers) < MaxNesting /\ HasRoom
  /\ \/ ~CanDeclare(Current, name) /\ Error
     \/ /\ CanDeclare(Current, name)
        /\ compilers' = Append(Update(MarkInitialized(Declare(Current, name, TRUE))),
                               NewCompiler("function"))
        /\ Compiled /\ UNCHANGED actors

\* message, up to the parameters.
BeginMessage ==
  /\ ~error
  /\ Current.stage = "actor"
  /\ Len(compilers) < MaxNesting
  /\ compilers' = Append(compilers, NewCompiler("message"))
  /\ Compiled /\ UNCHANGED actors

\* A parameter is a constant, whose value the caller pushes.
Parameter(name) ==
  /\ ~error
  /\ Current.stage = "parameters"
  /\ HasRoom
  /\ \/ ~CanDeclare(Current, name) /\ Error
     \/ /\ CanDeclare(Current, name)
        /\ compilers' = Update(Define(Declare(Current, name, TRUE)))
        /\ Compiled /\ UNCHANGED actors

BeginBody ==
  /\ ~error
  /\ Current.stage = "parameters"
  /\ compilers' = Update([Current EXCEPT !.stage = "statement"])
  /\ Compiled /\ UNCHANGED actors

\* end_compiler: OP_CLOSURE in the enclosing code, and then define_variable of the
\* function or OP_MESSAGE of the message.
EndFunction ==
  /\ AtStatement
  /\ Len(compilers) > 1
  /\ Current.depth = 1
  /\ LET outer == Front(compilers)
         enclosing == Last(outer)
         defined == IF Current.type = "message" THEN enclosing ELSE Define(enclosing)
     IN  compilers' = [outer EXCEPT ![Len(outer)] = defined]
  /\ Compiled /\ UNCHANGED actors

-----------------------------------------------------------------------------
(***************************************************************************)
(* Use.                                                                    *)
(***************************************************************************)

\* resolve_local: the position of the last local of that name, 0 if none.
ResolveLocal(c, name) == SelectLastInSeq(c.locals, LAMBDA l : l.name = name)

\* (uint16_t) of the index of the i-th element.
Index(i) == (i - 1) % IndexRange

\* A slip of add_upvalue: is_local is not compared.
UpvalueAtIndex(c, upvalue) ==
  LET same == SelectInSeq(c.upvalues, LAMBDA u : u.index = upvalue.index)
  IN  IF same > 0 THEN same ELSE Len(c.upvalues) + 1

\* add_upvalue: the position of the upvalue among those of c, or after them.
UpvalueAt(c, upvalue) ==
  LET same == SelectInSeq(c.upvalues, LAMBDA u : u = upvalue)
  IN  IF same > 0 THEN same ELSE Len(c.upvalues) + 1

\* resolve_upvalue.  The innermost enclosing compiler that has the name as a local:
\* 0 if none has.
Owner(name) ==
  SelectLastInSeq(Front(compilers), LAMBDA c : ResolveLocal(c, name) > 0)

\* The upvalue that each compiler inside the owner gets, innermost last, and its
\* position in it.
UpvalueChain(name) ==
  LET n == Owner(name)
      local == ResolveLocal(compilers[n], name)
      chain[m \in (n + 1)..Len(compilers)] ==
        LET upvalue == IF m = n + 1
                         THEN [index |-> Index(local), isLocal |-> TRUE]
                         ELSE [index |-> Index(chain[m - 1].at), isLocal |-> FALSE]
        IN  [upvalue |-> upvalue, at |-> UpvalueAt(compilers[m], upvalue)]
  IN  chain

\* A slip of resolve_upvalue: is_captured is not set.
CaptureUnmarked(name) ==
  LET chain == UpvalueChain(name)
  IN  [m \in DOMAIN compilers |->
         IF m <= Owner(name) \/ chain[m].at <= Len(compilers[m].upvalues) THEN compilers[m]
         ELSE [compilers[m] EXCEPT !.upvalues = Append(@, chain[m].upvalue)]]

\* The compilers when the name has been captured.
Capture(name) ==
  LET n == Owner(name)
      local == ResolveLocal(compilers[n], name)
      chain == UpvalueChain(name)
  IN  [m \in DOMAIN compilers |->
         IF m < n THEN compilers[m]
         ELSE IF m = n THEN [compilers[m] EXCEPT !.locals[local].captured = TRUE]
         ELSE IF chain[m].at <= Len(compilers[m].upvalues) THEN compilers[m]
         ELSE [compilers[m] EXCEPT !.upvalues = Append(@, chain[m].upvalue)]]

Emit(op, arg, name, set) ==
  emitted' = [op |-> op, arg |-> arg, name |-> name, set |-> set]

\* named_variable.  resolve_upvalue does not tell whether the variable is constant.
NamedVariable(name, set) ==
  LET local == ResolveLocal(Current, name)
  IN  \/ /\ local > 0
         /\ \/ Current.locals[local].depth = Uninitialized
            \/ set /\ Current.locals[local].constant
         /\ Error
      \/ /\ local > 0
         /\ Current.locals[local].depth # Uninitialized
         /\ ~(set /\ Current.locals[local].constant)
         /\ Emit("local", Index(local), name, set)
         /\ UNCHANGED <<compilers, actors, error>>
      \/ /\ local = 0 /\ Owner(name) > 0
         /\ compilers' = Capture(name)
         /\ Emit("upvalue", Index(UpvalueChain(name)[Len(compilers)].at), name, set)
         /\ UNCHANGED <<actors, error>>
      \/ /\ local = 0 /\ Owner(name) = 0
         /\ Emit("global", 0, name, set)
         /\ UNCHANGED <<compilers, actors, error>>

\* An expression, of a statement or of an initializer.
InExpression == ~error /\ Current.stage \in {"statement", "initializer"}

Use(name, set) == InExpression /\ NamedVariable(name, set)

\* this_
UseThis ==
  /\ InExpression
  /\ IF actors = 0 THEN Error ELSE NamedVariable(This, FALSE)

\* actor_declaration: OP_ACTOR, the variable, and the actor again for OP_MESSAGE.
BeginActor(name) ==
  /\ AtStatement
  /\ HasRoom
  /\ \/ ~CanDeclare(Current, name) /\ Error
     \/ /\ CanDeclare(Current, name)
        /\ LET defined == Define(Declare(Current, name, TRUE))
           IN  /\ compilers' = Update([defined EXCEPT !.height = @ + 1, !.stage = "actor"])
               /\ IF Current.depth = 0
                    THEN Emit("global", 0, name, FALSE)
                    ELSE Emit("local", Index(ResolveLocal(defined, name)), name, FALSE)
        /\ actors' = actors + 1
        /\ UNCHANGED error

EndActor ==
  /\ ~error
  /\ Current.stage = "actor"
  /\ compilers' = Update([Current EXCEPT !.height = @ - 1, !.stage = "statement"])
  /\ actors' = actors - 1
  /\ Compiled

Next ==
  \/ EndVar \/ BeginScope \/ EndScope \/ BeginMessage \/ BeginBody \/ EndFunction
  \/ UseThis \/ EndActor
  \/ \E name \in Name :
       \/ BeginFunction(name) \/ Parameter(name) \/ BeginActor(name)
       \/ \E flag \in BOOLEAN : BeginVar(name, flag) \/ Use(name, flag)

Spec == Init /\ [][Next]_vars

-----------------------------------------------------------------------------
(***************************************************************************)
(* Properties.                                                             *)
(***************************************************************************)

LocalType == [name : Name \union {This, NoName}, depth : Uninitialized..(MaxBlocks + 1),
              captured : BOOLEAN, constant : BOOLEAN]
UpvalueType == [index : 0..(IndexRange - 1), isLocal : BOOLEAN]

\* Every variable has its type.
TypeOK ==
  /\ Len(compilers) \in 1..MaxNesting
  /\ \A n \in DOMAIN compilers :
       /\ compilers[n].type \in {"script", "function", "message"}
       /\ compilers[n].depth \in 0..(MaxBlocks + 1)
       /\ Range(compilers[n].locals) \subseteq LocalType
       /\ Len(compilers[n].locals) \in 1..(MaxLocals + 1)
       /\ Range(compilers[n].upvalues) \subseteq UpvalueType
       /\ compilers[n].height \in Nat
       /\ compilers[n].stage \in {"statement", "initializer", "parameters", "actor"}
  /\ actors \in Nat /\ error \in BOOLEAN
  /\ emitted.op \in {"none", "local", "upvalue", "global"}
  /\ emitted.arg \in 0..(IndexRange - 1)

\* The declaration that a name means: the innermost one in the text whose block has
\* not ended, whatever function it is in; <<0, 0>> is a global variable.
Meaning(name) ==
  LET declarations == {d \in (DOMAIN compilers) \X (1..(MaxLocals + 1)) :
                         /\ d[2] <= Len(compilers[d[1]].locals)
                         /\ compilers[d[1]].locals[d[2]].name = name
                         /\ compilers[d[1]].locals[d[2]].depth <= compilers[d[1]].depth}
  IN  IF declarations = {} THEN <<0, 0>>
      ELSE CHOOSE d \in declarations :
             \A e \in declarations : e[1] < d[1] \/ (e[1] = d[1] /\ e[2] <= d[2])

\* The variables that the upvalues of each compiler stand for when the program runs.
Denotes ==
  LET denotes[n \in 1..Len(compilers)] ==
        [k \in DOMAIN compilers[n].upvalues |->
           LET u == compilers[n].upvalues[k]
           IN  IF u.isLocal THEN <<n - 1, u.index + 1>>
               ELSE IF n > 1 /\ u.index + 1 \in DOMAIN compilers[n - 1].upvalues
                      THEN denotes[n - 1][u.index + 1]
               ELSE <<-1, -1>>]
  IN  denotes

\* The code for a name accesses the variable that the name means, at any depth of
\* nested functions and with any shadowing (test/closure/nested_closure.nz,
\* test/closure/shadow_closure_with_local.nz, test/variable/shadow_local.nz).
NamesMeanDeclarations ==
  LET n == Len(compilers)
  IN  CASE emitted.op = "local"   -> Meaning(emitted.name) = <<n, emitted.arg + 1>>
        [] emitted.op = "upvalue" -> /\ emitted.arg + 1 \in DOMAIN Denotes[n]
                                   /\ Meaning(emitted.name) = Denotes[n][emitted.arg + 1]
        [] emitted.op = "global"  -> Meaning(emitted.name) = <<0, 0>>
        [] OTHER -> TRUE

\* Each upvalue of a function under compilation stands for a local variable of an
\* enclosing function that is still in scope there and is marked as captured, so
\* that end_scope closes it; no two upvalues of a function stand for the same one.
UpvaluesAreCaptured ==
  \A n \in DOMAIN compilers :
    LET variable == Denotes[n]
    IN  /\ \A k \in DOMAIN variable :
             /\ variable[k][1] \in 1..(n - 1)
             /\ variable[k][2] \in DOMAIN compilers[variable[k][1]].locals
             /\ compilers[variable[k][1]].locals[variable[k][2]].captured
        /\ \A k, j \in DOMAIN variable : variable[k] = variable[j] => k = j

\* A local variable has the same position in the compiler as its value has in the
\* window of the call: between statements the code has left there one value for
\* each local in scope and nothing else, except the actor whose messages are being
\* compiled and the function whose declaration encloses the one in progress.
LocalsMatchStack ==
  \A n \in DOMAIN compilers :
    LET c == compilers[n]
        inFunction == /\ n < Len(compilers)
                      /\ compilers[n + 1].type = "function"
                      /\ c.depth > 0
    IN  c.height = Len(c.locals)
                   + (IF c.stage = "actor" THEN 1 ELSE 0)
                   - (IF inFunction \/ (c.stage = "initializer" /\ c.depth > 0) THEN 1 ELSE 0)

\* A constant is not assigned after its declaration: the compiler reports "Can't
\* reassign a constant" (compiler.c:558).
ConstantsAreKept ==
  emitted.set /\ emitted.op # "global" =>
    LET d == Meaning(emitted.name) IN ~compilers[d[1]].locals[d[2]].constant

=============================================================================
