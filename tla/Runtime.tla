------------------------------ MODULE Runtime -------------------------------
(***************************************************************************)
(* How the interpreter keeps the objects it is using alive: copy_string,   *)
(* string_concat and the new_ functions of object.c, add_constant of       *)
(* chunk.c, interpret, push, concatenate, define_message, call_value (of   *)
(* an actor) and the instructions of vm.c that allocate, global_set, and   *)
(* the functions under compilation that mark_compiler_roots visits.        *)
(*                                                                         *)
(* Any allocation may collect, and a collection frees at once all that the *)
(* roots do not reach (module Collector shows that it does).  Each C       *)
(* function is split where it allocates; pc is where it is, hand is the    *)
(* object it has in a local variable and goes on to use.                   *)
(*                                                                         *)
(* Data.  A text is its length, as if all characters were the same.  A     *)
(* number, a Boolean or nil is Plain.  refs has the objects that the       *)
(* fields, messages, constants or upvalues of an object point to.          *)
(***************************************************************************)
EXTENDS Reachability, Integers, Sequences, FiniteSets, Functions

CONSTANTS
  Obj,          \* addresses of heap objects
  None,         \* no object
  Plain,        \* a value that is not an object
  MaxText,      \* bound: length of a string
  MinCapacity,  \* GROW_CAPACITY of a small capacity (8 in memory.h)
  MaxStack,     \* bound: values on the stack
  Nesting       \* bound: functions being compiled

ASSUME ObjAssumption == None \notin Obj /\ Plain \notin Obj
ASSUME BoundAssumption ==
  /\ MaxText \in Nat /\ MaxStack \in Nat /\ Nesting \in Nat
  /\ MinCapacity \in Nat \ {0}

VARIABLES
  heap,       \* the objects, each with its kind, refs, text and interned
  stack,      \* the values below vm.stack_top
  capacity,   \* vm.capacity
  globals,    \* objects that vm.globals points to
  open,       \* the list vm.open_upvalues
  compiling,  \* the functions that current and its enclosing compilers build
  running,    \* the closure of the top-level code while it runs
  pc,         \* "ready", or where the C function in progress is
  after,      \* where copy_string or string_concat returns to
  hand,       \* the object in the local variable of that function
  operands,   \* a and b of string_concat, until it has copied them
  chars,      \* the characters that it has copied
  early,      \* did concatenate increment vm.stack_top before the call?
  fault       \* "none", or the function that has used a freed object

rootVars == <<stack, capacity, globals, open, compiling, running>>
localVars == <<after, hand, operands, chars, early>>
vars == <<heap, rootVars, pc, localVars, fault>>

Kinds == {"string", "function", "closure", "actor", "instance", "upvalue"}
Text == 0..MaxText

Init ==
  /\ heap = <<>>
  /\ stack = <<>>
  /\ capacity = MinCapacity
  /\ globals = {}
  /\ open = {}
  /\ compiling = <<>>
  /\ running = None
  /\ pc = "ready"
  /\ after = "ready"
  /\ hand = None
  /\ operands = <<>>
  /\ chars = 0
  /\ early = FALSE
  /\ fault = "none"

-----------------------------------------------------------------------------
(***************************************************************************)
(* Allocation.                                                             *)
(***************************************************************************)

Refs == [o \in DOMAIN heap |-> heap[o].refs]

\* mark_roots.  init_string is the caller's: it is set once and never collected.
Roots ==
  ((Range(stack) \union {running}) \ {Plain, None})
  \union globals \union open \union Range(compiling)

\* The heap after reallocate: collected, or not.
Allocated == {heap, Restrict(heap, Reachable(Roots, Refs))}

Object(kind, refs) == [kind |-> kind, refs |-> refs, text |-> 0, interned |-> FALSE]
String(t) == [kind |-> "string", refs |-> {}, text |-> t, interned |-> FALSE]

\* The heap h with the new object o.
With(h, o, object) == [a \in DOMAIN h \union {o} |-> IF a = o THEN object ELSE h[a]]
Link(h, o, targets) == [h EXCEPT ![o].refs = @ \union (targets \ {Plain})]
Free(h) == Obj \ DOMAIN h

Is(v, kind) == v \in DOMAIN heap /\ heap[v].kind = kind
Strings(h) == {o \in DOMAIN h : h[o].kind = "string"}
Interned(h) == {o \in Strings(h) : h[o].interned}

Top == stack[Len(stack)]
Below == stack[Len(stack) - 1]
Drop(n) == SubSeq(stack, 1, Len(stack) - n)

\* A slip of GROW_CAPACITY for the mutants: nothing is gained past the minimum.
GrowCapacityStuck(n) == IF n < MinCapacity THEN MinCapacity ELSE n

GrowCapacity(n) == IF n < MinCapacity THEN MinCapacity ELSE 2 * n

\* push(v): growing the stack may collect before v is in it.
Push(v) ==
  /\ Len(stack) < MaxStack
  /\ stack' = Append(stack, v)
  /\ IF Len(stack) = capacity
       THEN /\ capacity' = GrowCapacity(capacity)
            /\ heap' \in Allocated
       ELSE UNCHANGED <<capacity, heap>>
  /\ fault' = IF v = Plain \/ v \in DOMAIN heap' THEN fault ELSE "push"
  /\ UNCHANGED <<globals, open, compiling, running>>

Ready == pc = "ready" /\ fault = "none"
At(label) == pc = label /\ fault = "none"

\* The C function in progress is done.
Done == pc' = "ready" /\ hand' = None /\ UNCHANGED <<after, operands, chars, early>>

-----------------------------------------------------------------------------
(***************************************************************************)
(* Strings.                                                                *)
(***************************************************************************)

\* A slip of table_find_string: it finds nothing.
FoundNever(h, t) == {}

\* table_find_string(&vm.strings, ...) in the heap h.
Found(h, t) == {o \in Interned(h) : h[o].text = t}

\* copy_string allocates its string before it looks for an equal one; then it
\* goes on to label.
CopyString(t, label) ==
  /\ \E h \in Allocated : \E s \in Free(h) :
       /\ heap' = With(h, s, String(t))
       /\ \/ /\ Found(h, t) # {}
             /\ hand' \in Found(h, t)
             /\ pc' = label
             /\ UNCHANGED after
          \/ /\ Found(h, t) = {}
             /\ hand' = s
             /\ pc' = "intern"
             /\ after' = label
  /\ UNCHANGED <<rootVars, operands, chars, early, fault>>

\* push(string) of copy_string and string_concat, then table_set, pop.
InternPush ==
  /\ At("intern")
  /\ Push(hand)
  /\ pc' = "intern_set"
  /\ UNCHANGED localVars

InternSet ==
  /\ At("intern_set")
  /\ \E h \in Allocated : heap' = [h EXCEPT ![hand].interned = TRUE]
  /\ stack' = Drop(1)
  /\ pc' = after
  /\ after' = "ready"
  /\ UNCHANGED <<capacity, globals, open, compiling, running, hand, operands, chars,
                 early, fault>>

\* concatenate pops its operands and calls string_concat in
\*   *vm.stack_top++ = OBJ_VAL((Obj*)string_concat(a, b));
\* where C does not say whether the increment comes before the call.  If it does,
\* the slot that a was in is below vm.stack_top during the call.
Concatenate ==
  /\ Ready
  /\ Len(stack) > 1
  /\ Is(Top, "string") /\ Is(Below, "string")
  /\ heap[Top].text + heap[Below].text <= MaxText
  /\ operands' = <<Below, Top>>
  /\ early' \in BOOLEAN
  /\ stack' = Drop(IF early' THEN 1 ELSE 2)
  /\ pc' = "concat"
  /\ UNCHANGED <<heap, capacity, globals, open, compiling, running, after, hand,
                 chars, fault>>

\* string_concat: the buffer, the characters of a and b, an equal string or none.
ConcatBuffer ==
  /\ At("concat")
  /\ heap' \in Allocated
  /\ \/ /\ ~(Range(operands) \subseteq DOMAIN heap')
        /\ fault' = "concat"
        /\ UNCHANGED <<pc, hand, chars, operands>>
     \/ /\ Range(operands) \subseteq DOMAIN heap'
        /\ LET t == heap[operands[1]].text + heap[operands[2]].text
           IN  \/ Found(heap', t) # {} /\ hand' \in Found(heap', t)
                  /\ pc' = "concat_store" /\ UNCHANGED chars
               \/ Found(heap', t) = {} /\ chars' = t
                  /\ pc' = "concat_new" /\ UNCHANGED hand
        /\ operands' = <<>>
        /\ UNCHANGED fault
  /\ UNCHANGED <<rootVars, after, early>>

ConcatNew ==
  /\ At("concat_new")
  /\ \E h \in Allocated : \E s \in Free(h) :
       /\ heap' = With(h, s, String(chars))
       /\ hand' = s
  /\ chars' = 0
  /\ pc' = "intern"
  /\ after' = "concat_store"
  /\ UNCHANGED <<rootVars, operands, early, fault>>

\* The assignment to *vm.stack_top++.
ConcatStore ==
  /\ At("concat_store")
  /\ stack' = Append(IF early THEN Drop(1) ELSE stack, hand)
  /\ pc' = "ready"
  /\ hand' = None
  /\ early' = FALSE
  /\ UNCHANGED <<heap, capacity, globals, open, compiling, running, after, operands,
                 chars, fault>>

-----------------------------------------------------------------------------
(***************************************************************************)
(* Compilation.                                                            *)
(***************************************************************************)

\* init_compiler: the function is a root once current is the new compiler; the
\* function of a declaration then gets its name.
StartFunction ==
  /\ Ready
  /\ running = None
  /\ Len(compiling) < Nesting
  /\ \E h \in Allocated : \E f \in Free(h) :
       /\ heap' = With(h, f, Object("function", {}))
       /\ compiling' = <<f>> \o compiling
  /\ pc' = IF compiling = <<>> THEN "ready" ELSE "name"
  /\ UNCHANGED <<stack, capacity, globals, open, running, localVars, fault>>

Name(t) ==
  /\ At("name")
  /\ CopyString(t, "named")

Named ==
  /\ At("named")
  /\ heap' = Link(heap, Head(compiling), {hand})
  /\ Done
  /\ UNCHANGED <<rootVars, fault>>

\* A string literal or an identifier goes to the constants of the function.
Literal(t) ==
  /\ Ready
  /\ compiling # <<>>
  /\ CopyString(t, "constant")

\* add_constant
AddConstant ==
  /\ At("constant")
  /\ \/ /\ hand \in heap[Head(compiling)].refs
        /\ Done
        /\ UNCHANGED <<heap, rootVars, fault>>
     \/ /\ hand \notin heap[Head(compiling)].refs
        /\ Push(hand)
        /\ pc' = "constant_write"
        /\ UNCHANGED localVars

\* A slip of add_constant: pop is missing.
WriteConstantUnpopped ==
  /\ At("constant_write")
  /\ \E h \in Allocated : heap' = Link(h, Head(compiling), {hand})
  /\ Done
  /\ UNCHANGED <<rootVars, fault>>

WriteConstant ==
  /\ At("constant_write")
  /\ \E h \in Allocated : heap' = Link(h, Head(compiling), {hand})
  /\ stack' = Drop(1)
  /\ Done
  /\ UNCHANGED <<capacity, globals, open, compiling, running, fault>>

\* end_compiler: a function is a constant of the one around it; the top-level code
\* is run, unless there were errors.
EndFunction ==
  /\ Ready
  /\ compiling # <<>>
  /\ compiling' = Tail(compiling)
  /\ \/ /\ Len(compiling) > 1
        /\ pc' = "constant"
        /\ hand' = Head(compiling)
     \/ /\ Len(compiling) = 1
        /\ pc' = "interpret"
        /\ hand' = Head(compiling)
     \/ /\ Len(compiling) = 1
        /\ UNCHANGED <<pc, hand>>
  /\ UNCHANGED <<heap, stack, capacity, globals, open, running, after, operands, chars,
                 early, fault>>

-----------------------------------------------------------------------------
(***************************************************************************)
(* Execution.                                                              *)
(***************************************************************************)

\* A slip of interpret: the closure is made before the function is pushed.
InterpretUnprotected ==
  /\ At("interpret")
  /\ Push(Plain)
  /\ pc' = "interpret_closure"
  /\ UNCHANGED localVars

\* interpret pushes the function while it makes the closure.
Interpret ==
  /\ At("interpret")
  /\ Push(hand)
  /\ pc' = "interpret_closure"
  /\ UNCHANGED localVars

InterpretClosure ==
  /\ At("interpret_closure")
  /\ \E h \in Allocated : \E c \in Free(h) :
       /\ heap' = With(h, c, Object("closure", {hand}))
       /\ stack' = Append(Drop(1), c)
       /\ running' = c
  /\ Done
  /\ UNCHANGED <<capacity, globals, open, compiling, fault>>

\* The constants of the running function.
Constants == UNION {heap[f].refs : f \in heap[running].refs}
Executing == Ready /\ running # None

\* OP_CONSTANT, OP_NIL, OP_GET_GLOBAL: the value has another root.
Load ==
  /\ Executing
  /\ \E v \in {Plain} \union (Constants \intersect Strings(heap)) \union globals : Push(v)
  /\ UNCHANGED <<pc, localVars>>

\* OP_POP
Pop ==
  /\ Executing
  /\ Len(stack) > 1
  /\ stack' = Drop(1)
  /\ UNCHANGED <<heap, capacity, globals, open, compiling, running, pc, localVars, fault>>

\* OP_DEFINE_GLOBAL: the array of globals is static, nothing is allocated.
DefineGlobal(name) ==
  /\ Executing
  /\ Len(stack) > 1
  /\ name \in Constants \intersect Strings(heap)
  /\ globals' = globals \union ({name, Top} \ {Plain})
  /\ stack' = Drop(1)
  /\ UNCHANGED <<heap, capacity, open, compiling, running, pc, localVars, fault>>

\* OP_CLOSURE and OP_ACTOR: the new object, and push of it.
NewClosure(f) ==
  /\ Executing
  /\ f \in Constants /\ Is(f, "function")
  /\ \E h \in Allocated : \E c \in Free(h) :
       /\ heap' = With(h, c, Object("closure", {f}))
       /\ hand' = c
  /\ pc' = "push_closure"
  /\ UNCHANGED <<rootVars, after, operands, chars, early, fault>>

NewActor(name) ==
  /\ Executing
  /\ name \in Constants /\ Is(name, "string")
  /\ \E h \in Allocated : \E a \in Free(h) :
       /\ heap' = With(h, a, Object("actor", {name}))
       /\ hand' = a
  /\ pc' = "push_actor"
  /\ UNCHANGED <<rootVars, after, operands, chars, early, fault>>

PushNew ==
  /\ \/ At("push_actor") /\ Done
     \/ At("push_closure") /\ Done
     \/ At("push_closure") /\ pc' = "capture" /\ UNCHANGED localVars
  /\ Push(hand)

\* capture_upvalue makes an upvalue, which OP_CLOSURE stores in the closure.
Capture ==
  /\ At("capture")
  /\ \E h \in Allocated : \E u \in Free(h) :
       /\ heap' = Link(With(h, u, Object("upvalue", {})), hand, {u})
       /\ open' = open \union {u}
  /\ Done
  /\ UNCHANGED <<stack, capacity, globals, compiling, running, fault>>

\* OP_MESSAGE: table_set may allocate before the closure is in the messages.
DefineMessage(name) ==
  /\ Executing
  /\ Len(stack) > 1
  /\ Is(Top, "closure") /\ Is(Below, "actor")
  /\ name \in Constants /\ Is(name, "string")
  /\ \E h \in Allocated : heap' = Link(h, Below, {name, Top})
  /\ stack' = Drop(1)
  /\ UNCHANGED <<capacity, globals, open, compiling, running, pc, localVars, fault>>

\* OP_CALL of an actor: the instance takes the actor's slot.
CallActor ==
  /\ Executing
  /\ Is(Top, "actor")
  /\ \E h \in Allocated : \E i \in Free(h) :
       /\ heap' = With(h, i, Object("instance", {Top}))
       /\ stack' = Append(Drop(1), i)
  /\ UNCHANGED <<capacity, globals, open, compiling, running, pc, localVars, fault>>

\* OP_SET_PROPERTY: the assigned value stays on the stack.
SetProperty(name) ==
  /\ Executing
  /\ Len(stack) > 1
  /\ Is(Below, "instance")
  /\ name \in Constants /\ Is(name, "string")
  /\ \E h \in Allocated : heap' = Link(h, Below, {name, Top})
  /\ stack' = Append(Drop(2), Top)
  /\ UNCHANGED <<capacity, globals, open, compiling, running, pc, localVars, fault>>

\* OP_RETURN of the top-level code.
Return ==
  /\ Executing
  /\ Len(stack) = 2
  /\ stack' = <<>>
  /\ open' = {}
  /\ running' = None
  /\ UNCHANGED <<heap, capacity, globals, compiling, pc, localVars, fault>>

\* runtime_error of any instruction: clear_stack frees the stack.
RuntimeError ==
  /\ Executing
  /\ stack' = <<>>
  /\ capacity' = 0
  /\ open' = {}
  /\ running' = None
  /\ UNCHANGED <<heap, globals, compiling, pc, localVars, fault>>

Next ==
  \/ InternPush \/ InternSet
  \/ Concatenate \/ ConcatBuffer \/ ConcatNew \/ ConcatStore
  \/ StartFunction \/ Named \/ AddConstant \/ WriteConstant \/ EndFunction
  \/ Interpret \/ InterpretClosure
  \/ Load \/ Pop \/ PushNew \/ Capture \/ CallActor \/ Return \/ RuntimeError
  \/ \E t \in Text : Name(t) \/ Literal(t)
  \/ \E o \in Obj : DefineGlobal(o) \/ NewClosure(o) \/ NewActor(o)
                    \/ DefineMessage(o) \/ SetProperty(o)

Spec == Init /\ [][Next]_vars

-----------------------------------------------------------------------------
(***************************************************************************)
(* Properties.                                                             *)
(***************************************************************************)

ObjectType == [kind : Kinds, refs : SUBSET Obj, text : Text, interned : BOOLEAN]

Pcs == {"ready", "intern", "intern_set", "concat", "concat_new", "concat_store", "name",
        "named", "constant", "constant_write", "interpret", "interpret_closure",
        "push_closure", "push_actor", "capture"}

\* Every variable has its type; the stack is within its capacity.
TypeOK ==
  /\ DOMAIN heap \subseteq Obj /\ \A o \in DOMAIN heap : heap[o] \in ObjectType
  /\ stack \in Seq(Obj \union {Plain}) /\ Len(stack) <= capacity
  /\ globals \subseteq Obj /\ open \subseteq Obj
  /\ compiling \in Seq(Obj)
  /\ running \in Obj \union {None} /\ hand \in Obj \union {None}
  /\ pc \in Pcs /\ after \in Pcs
  /\ operands \in Seq(Obj) /\ chars \in Text /\ early \in BOOLEAN
  /\ fault \in {"none", "push", "concat"}

\* Short of the two functions at fault, no collection frees an object that is
\* still in use: what the roots reach is there, and so is the object that the C
\* function in progress has in hand, at each of the places where it allocates.
NothingDangles ==
  fault = "none" =>
    /\ Roots \union ({hand} \ {None}) \subseteq DOMAIN heap
    /\ \A o \in DOMAIN heap : heap[o].refs \subseteq DOMAIN heap

\* Two strings that a program can compare are equal if and only if they are the
\* same object (values_equal compares addresses): the strings that roots reach
\* are all interned, except the one that is being interned, and no two interned
\* strings have the same text.
EqualStringsAreOne ==
  /\ \A a, b \in Interned(heap) : heap[a].text = heap[b].text => a = b
  /\ fault = "none" /\ pc # "intern_set" =>
       Strings(heap) \intersect Reachable(Roots, Refs) \subseteq Interned(heap)

\* What is pushed only to protect it from collection is popped again: between the
\* declarations of a compilation, and when it ends, the stack is as it was.
ProtectionEnds == pc = "ready" /\ running = None => stack = <<>>

\* The operands of + are alive while string_concat copies them (vm.c:377).
ConcatReadsLiveStrings == fault # "concat"

=============================================================================
