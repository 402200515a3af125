------------------------------ MODULE Upvalues ------------------------------
(***************************************************************************)
(* The value stack, the call frames and the upvalues of vm.c: push and its *)
(* growth, pop, call, capture_upvalue, close_upvalues, clear_stack, and    *)
(* the instructions that use them (locals, upvalues, globals, OP_CLOSURE,  *)
(* OP_CALL, OP_CLOSE_UPVALUE, OP_RETURN), with interpret around them.      *)
(*                                                                         *)
(* Addresses.  The stack is a block of memory: base is its address, and    *)
(* slot i (from 1) is at base + i - 1.  When push grows the stack, realloc *)
(* may move it to another of the Bases.  A frame keeps the address of its  *)
(* first slot and an upvalue the address of the variable it stands for:    *)
(* both are numbers, right or wrong whatever the stack has become.         *)
(*                                                                         *)
(* The program.  Bytecode comes from the compiler, which knows for each    *)
(* call the local variables in scope and which of them some closure uses   *)
(* (Local.is_captured).  A frame carries this as "locals"; the program is  *)
(* any sequence of instructions that respects it.                          *)
(*                                                                         *)
(* Undefined behaviour.  When the stack moves or is freed, the upvalues    *)
(* that are open then are left with an address in memory that is no longer *)
(* the stack's, even if a later realloc happens to return it: "stale" has  *)
(* them, and reading or writing through one sets "fault" and ends the run. *)
(***************************************************************************)
EXTENDS Integers, Sequences, Functions, FiniteSets

CONSTANTS
  Val,           \* plain values
  Clo,           \* addresses of closures
  Script,        \* the closure of the top-level code, which captures nothing
  Up,            \* addresses of upvalues
  Bases,         \* addresses the stack may have, MaxStack apart or more
  MinCapacity,   \* GROW_CAPACITY of a small capacity (8 in memory.h)
  MaxStack,      \* bound: values on the stack
  FramesMax,     \* FRAMES_MAX
  MaxCaptures,   \* bound: upvalues of a closure
  MaxArity,      \* bound: arguments of a call
  Errors         \* may the program have runtime errors?

ASSUME NatAssumption ==
  /\ Bases \subseteq Nat /\ Bases # {}
  /\ MinCapacity \in Nat \ {0} /\ MaxStack \in Nat \ {0} /\ FramesMax \in Nat \ {0}
  /\ MaxCaptures \in Nat /\ MaxArity \in Nat
ASSUME ErrorsAssumption == Errors \in BOOLEAN
\* Upvalues are objects, but no values of the language: the stack never has one.
ASSUME UpvalueAssumption == Up \intersect (Val \union Clo \union {Script}) = {}

VARIABLES
  base,      \* vm.stack
  capacity,  \* vm.capacity
  stack,     \* the values below vm.stack_top
  frames,    \* vm.frames: closure, slots (an address), arity and locals
  open,      \* the list vm.open_upvalues
  loc,       \* loc[u]: upvalue->location, or Closed for &upvalue->closed
  closed,    \* closed[u]: upvalue->closed
  upvalues,  \* upvalues[f]: closure->upvalues
  todo,      \* captures that the OP_CLOSURE in progress has still to do
  glob,      \* a global variable
  fault,     \* has memory been used that does not belong to a live variable?
  stale      \* upvalues that were open when the stack moved or was freed

stackVars == <<base, capacity, stack, frames, stale>>
upVars == <<open, loc, closed, upvalues>>
vars == <<stackVars, upVars, todo, glob, fault>>

Value == Val \union Clo \union {Script}
Closed == -1

Init ==
  /\ base \in Bases
  /\ capacity = MinCapacity
  /\ stack = <<>>
  /\ frames = <<>>
  /\ open = <<>>
  /\ loc = [u \in Up |-> Closed]
  /\ closed = [u \in Up |-> Script]
  /\ upvalues = [f \in Clo \union {Script} |-> <<>>]
  /\ todo = 0
  /\ glob \in Val
  /\ fault = FALSE
  /\ stale = {}

-----------------------------------------------------------------------------
(***************************************************************************)
(* The stack.                                                              *)
(***************************************************************************)

\* The slot at address a, and the addresses in use.
SlotAt(a) == a - base + 1
InStack(a) == SlotAt(a) \in 1..Len(stack)

Top == stack[Len(stack)]
Frame == frames[Len(frames)]
FirstSlot == SlotAt(Frame.slots)

\* Values above the variables in scope: operands of the expression in progress.
Operands == Len(stack) - FirstSlot + 1 - Len(Frame.locals)

Running == frames # <<>> /\ todo = 0 /\ ~fault

\* A slip of GROW_CAPACITY for the mutants: nothing is gained past the minimum.
GrowCapacityStuck(n) == IF n < MinCapacity THEN MinCapacity ELSE n

GrowCapacity(n) == IF n < MinCapacity THEN MinCapacity ELSE 2 * n

\* A slip of push: the frames keep their addresses when the stack moves.
RebaseNone(fs, b) == fs

\* The frames fs when the stack has moved to address b.
Rebase(fs, b) == [k \in DOMAIN fs |-> [fs[k] EXCEPT !.slots = b + (@ - base)]]

\* push: v goes on top of the first n slots, fs are the frames from then on.
Push(n, fs, v) ==
  /\ n < MaxStack
  /\ stack' = Append(SubSeq(stack, 1, n), v)
  /\ IF n = capacity
       THEN /\ capacity' = GrowCapacity(capacity)
            /\ base' \in Bases
            /\ frames' = Rebase(fs, base')
            /\ stale' = IF base' = base THEN stale ELSE stale \union Range(open)
       ELSE /\ frames' = fs
            /\ UNCHANGED <<base, capacity, stale>>

\* pop
Pop == stack' = SubSeq(stack, 1, Len(stack) - 1)

\* The frames when the variables in scope of the running call become ls.
WithLocals(ls) == [frames EXCEPT ![Len(frames)].locals = ls]

-----------------------------------------------------------------------------
(***************************************************************************)
(* Upvalues.                                                               *)
(***************************************************************************)

\* The upvalues that exist: the others are free memory.
Created == Range(open) \union UNION {Range(upvalues[f]) : f \in DOMAIN upvalues}

\* *upvalue->location, where that is defined.
Deref(u) == IF loc[u] = Closed THEN closed[u] ELSE stack[SlotAt(loc[u])]
Readable(u) == loc[u] = Closed \/ (InStack(loc[u]) /\ u \notin stale)

\* The number of upvalues at the head of the open list that satisfy P: the loops
\* of capture_upvalue and close_upvalues stop at the first that does not.
LeadingOpen(P(_)) ==
  CHOOSE n \in 0..Len(open) :
    /\ \A i \in 1..n : P(open[i])
    /\ n < Len(open) => ~P(open[n + 1])

\* A slip of capture_upvalue: a new upvalue goes to the head of the list.
AboveNone(a) == 0

Above(a) == LeadingOpen(LAMBDA u : loc[u] > a)

\* A slip of close_upvalues: > for >=.
AtOrAboveStrict(a) == LeadingOpen(LAMBDA u : loc[u] > a)

AtOrAbove(a) == LeadingOpen(LAMBDA u : loc[u] >= a)

\* A slip of capture_upvalue: the list is not searched for the variable.
CaptureAtAnew(f, a) ==
  \E u \in Up :
    /\ u \notin Created
    /\ open' = SubSeq(open, 1, Above(a)) \o <<u>> \o SubSeq(open, Above(a) + 1, Len(open))
    /\ loc' = [loc EXCEPT ![u] = a]
    /\ upvalues' = [upvalues EXCEPT ![f] = Append(@, u)]
    /\ closed' = [closed EXCEPT ![u] = Script]
    /\ stale' = stale \ {u}

\* capture_upvalue(a) into the next upvalue of closure f: the open upvalue of the
\* variable if the list has one, else a new one, at its place in the list.
CaptureAt(f, a) ==
  LET n == Above(a)
  IN  \/ /\ n < Len(open)
         /\ loc[open[n + 1]] = a
         /\ upvalues' = [upvalues EXCEPT ![f] = Append(@, open[n + 1])]
         /\ UNCHANGED <<open, loc, closed, stale>>
      \/ /\ n < Len(open) => loc[open[n + 1]] # a
         /\ \E u \in Up :
              /\ u \notin Created
              /\ open' = SubSeq(open, 1, n) \o <<u>> \o SubSeq(open, n + 1, Len(open))
              /\ loc' = [loc EXCEPT ![u] = a]
              /\ upvalues' = [upvalues EXCEPT ![f] = Append(@, u)]
              /\ closed' = [closed EXCEPT ![u] = Script]
              /\ stale' = stale \ {u}

\* Slips of close_upvalues: location is redirected before the value is copied;
\* the upvalues that are closed are not taken from the list.
CloseFromSwapped(a) ==
  LET closing == {open[i] : i \in 1..AtOrAbove(a)}
  IN  /\ loc' = [u \in Up |-> IF u \in closing THEN Closed ELSE loc[u]]
      /\ open' = SubSeq(open, AtOrAbove(a) + 1, Len(open))
      /\ UNCHANGED <<closed, upvalues>>

CloseFromKeeping(a) ==
  LET closing == {open[i] : i \in 1..AtOrAbove(a)}
  IN  /\ closed' = [u \in Up |-> IF u \in closing THEN Deref(u) ELSE closed[u]]
      /\ loc' = [u \in Up |-> IF u \in closing THEN Closed ELSE loc[u]]
      /\ UNCHANGED <<open, upvalues>>

\* close_upvalues(a): every upvalue at the head of the list that is at a or above
\* takes its variable's value with it.
CloseFrom(a) ==
  LET n == AtOrAbove(a)
      closing == {open[i] : i \in 1..n}
  IN  /\ closed' = [u \in Up |-> IF u \in closing THEN Deref(u) ELSE closed[u]]
      /\ loc' = [u \in Up |-> IF u \in closing THEN Closed ELSE loc[u]]
      /\ open' = SubSeq(open, n + 1, Len(open))
      /\ UNCHANGED upvalues

\* Each of them can be read.
CanCloseFrom(a) == \A i \in 1..AtOrAbove(a) : Readable(open[i])

\* The run ends: memory that is not the variable's has been read or written.
Fault ==
  /\ fault' = TRUE
  /\ UNCHANGED <<stackVars, upVars, todo, glob>>

-----------------------------------------------------------------------------
(***************************************************************************)
(* Instructions.                                                           *)
(***************************************************************************)

\* interpret: the closure of the compiled source is pushed and called.
Interpret ==
  /\ frames = <<>>
  /\ ~fault
  /\ Push(0, <<[closure |-> Script, slots |-> base, arity |-> 0, locals |-> <<FALSE>>]>>,
          Script)
  /\ UNCHANGED <<upVars, todo, glob, fault>>

\* OP_CONSTANT, OP_NIL, ...
Constant(v) ==
  /\ Running
  /\ Push(Len(stack), frames, v)
  /\ UNCHANGED <<upVars, todo, glob, fault>>

\* Slot 1 holds the closure, which has no name ("this" in a message, which is
\* not modelled): a program neither reads nor assigns it.
GetLocal(i) ==
  /\ Running
  /\ i \in 2..Len(Frame.locals)
  /\ Push(Len(stack), frames, stack[FirstSlot + i - 1])
  /\ UNCHANGED <<upVars, todo, glob, fault>>

SetLocal(i) ==
  /\ Running
  /\ Operands > 0
  /\ i \in 2..Len(Frame.locals)
  /\ stack' = [stack EXCEPT ![FirstSlot + i - 1] = Top]
  /\ UNCHANGED <<base, capacity, stale, frames, upVars, todo, glob, fault>>

GetUpvalue(k) ==
  /\ Running
  /\ k \in DOMAIN upvalues[Frame.closure]
  /\ LET u == upvalues[Frame.closure][k]
     IN  IF Readable(u)
           THEN /\ Push(Len(stack), frames, Deref(u))
                /\ UNCHANGED <<upVars, todo, glob, fault>>
           ELSE Fault

SetUpvalue(k) ==
  /\ Running
  /\ Operands > 0
  /\ k \in DOMAIN upvalues[Frame.closure]
  /\ LET u == upvalues[Frame.closure][k]
     IN  \/ /\ loc[u] = Closed
            /\ closed' = [closed EXCEPT ![u] = Top]
            /\ UNCHANGED <<stackVars, open, loc, upvalues, todo, glob, fault>>
         \/ /\ loc[u] # Closed
            /\ Readable(u)
            /\ stack' = [stack EXCEPT ![SlotAt(loc[u])] = Top]
            /\ UNCHANGED <<base, capacity, stale, frames, upVars, todo, glob, fault>>
         \/ ~Readable(u) /\ Fault

GetGlobal ==
  /\ Running
  /\ Push(Len(stack), frames, glob)
  /\ UNCHANGED <<upVars, todo, glob, fault>>

SetGlobal ==
  /\ Running
  /\ Operands > 0
  /\ glob' = Top
  /\ UNCHANGED <<stackVars, upVars, todo, fault>>

\* mark_initialized: the operand on top is a local variable from now on, captured
\* by some closure of its scope or not.
DeclareLocal(captured) ==
  /\ Running
  /\ Operands = 1
  /\ frames' = WithLocals(Append(Frame.locals, captured))
  /\ UNCHANGED <<base, capacity, stale, stack, upVars, todo, glob, fault>>

\* OP_POP after an expression.
PopOperand ==
  /\ Running
  /\ Operands > 0
  /\ Pop
  /\ UNCHANGED <<base, capacity, stale, frames, upVars, todo, glob, fault>>

\* end_scope: the last local leaves, with OP_CLOSE_UPVALUE if it is captured.
EndScope ==
  /\ Running
  /\ Operands = 0
  /\ Len(Frame.locals) > 1 + Frame.arity
  /\ LET captured == Frame.locals[Len(Frame.locals)]
         address == base + Len(stack) - 1
     IN  \/ /\ ~captured
            /\ UNCHANGED upVars
            /\ Pop
            /\ frames' = WithLocals(SubSeq(Frame.locals, 1, Len(Frame.locals) - 1))
            /\ UNCHANGED <<base, capacity, stale, todo, glob, fault>>
         \/ /\ captured
            /\ CanCloseFrom(address)
            /\ CloseFrom(address)
            /\ Pop
            /\ frames' = WithLocals(SubSeq(Frame.locals, 1, Len(Frame.locals) - 1))
            /\ UNCHANGED <<base, capacity, stale, todo, glob, fault>>
         \/ /\ captured
            /\ ~CanCloseFrom(address)
            /\ Fault

\* OP_CLOSURE pushes a closure with n upvalues to fill in; a function that is
\* declared inside a block is a local variable before its captures begin, so
\* that it can capture itself.  The address f was free: nothing holds it.
Closure(f, n, locals) ==
  /\ Running
  /\ Operands = 0
  /\ f \notin Range(stack) \union Range(closed) \union {glob}
  /\ upvalues' = [upvalues EXCEPT ![f] = <<>>]
  /\ Push(Len(stack), WithLocals(Frame.locals \o locals), f)
  /\ n > 0 => \/ TRUE \in Range(Frame.locals \o locals)
              \/ upvalues[Frame.closure] # <<>>
  /\ todo' = n
  /\ UNCHANGED <<open, loc, closed, glob, fault>>

\* One iteration of the loop of OP_CLOSURE: is_local, index.
CaptureLocal(i) ==
  /\ todo > 0
  /\ ~fault
  /\ i <= Len(Frame.locals)
  /\ Frame.locals[i]
  /\ CaptureAt(Top, Frame.slots + i - 1)
  /\ todo' = todo - 1
  /\ UNCHANGED <<base, capacity, stack, frames, glob, fault>>

CaptureOuter(k) ==
  /\ todo > 0
  /\ ~fault
  /\ k \in DOMAIN upvalues[Frame.closure]
  /\ upvalues' = [upvalues EXCEPT ![Top] = Append(@, upvalues[Frame.closure][k])]
  /\ todo' = todo - 1
  /\ UNCHANGED <<stackVars, open, loc, closed, glob, fault>>

\* OP_CALL of a closure with n arguments; ls says which parameters of the callee
\* are captured.
Call(n, ls) ==
  /\ Running
  /\ n < Operands
  /\ Len(ls) = n
  /\ Len(frames) < FramesMax
  /\ LET callee == stack[Len(stack) - n]
     IN  /\ callee \in Clo
         /\ frames' = Append(frames, [closure |-> callee, slots |-> base + Len(stack) - n - 1,
                                      arity |-> n, locals |-> <<FALSE>> \o ls])
  /\ UNCHANGED <<base, capacity, stale, stack, upVars, todo, glob, fault>>

\* OP_RETURN from a function, and at the end of the top-level code.
Return ==
  /\ Running
  /\ Operands = 1
  /\ Len(frames) = 1 => Len(Frame.locals) = 1
  /\ \/ /\ ~CanCloseFrom(Frame.slots)
        /\ Fault
     \/ /\ CanCloseFrom(Frame.slots)
        /\ Len(frames) > 1
        /\ CloseFrom(Frame.slots)
        /\ Push(FirstSlot - 1, SubSeq(frames, 1, Len(frames) - 1), Top)
        /\ UNCHANGED <<todo, glob, fault>>
     \/ /\ CanCloseFrom(Frame.slots)
        /\ Len(frames) = 1
        /\ CloseFrom(Frame.slots)
        /\ stack' = SubSeq(stack, 1, Len(stack) - 2)
        /\ frames' = <<>>
        /\ UNCHANGED <<base, capacity, stale, todo, glob, fault>>

\* runtime_error from any instruction: clear_stack frees the stack, and forgets
\* the frames and the open upvalues.
RuntimeError ==
  /\ Errors
  /\ Running
  /\ capacity' = 0
  /\ stack' = <<>>
  /\ frames' = <<>>
  /\ open' = <<>>
  /\ stale' = stale \union Range(open)
  /\ UNCHANGED <<base, loc, closed, upvalues, todo, glob, fault>>

Next ==
  \/ Interpret \/ GetGlobal \/ SetGlobal \/ PopOperand \/ EndScope \/ Return
  \/ RuntimeError
  \/ \E v \in Val : Constant(v)
  \/ \E i \in 1..MaxStack : GetLocal(i) \/ SetLocal(i) \/ CaptureLocal(i)
  \/ \E k \in 1..MaxCaptures : GetUpvalue(k) \/ SetUpvalue(k) \/ CaptureOuter(k)
  \/ \E captured \in BOOLEAN : DeclareLocal(captured)
  \/ \E f \in Clo, n \in 0..MaxCaptures, ls \in {<<>>, <<TRUE>>, <<FALSE>>} :
       Closure(f, n, ls)
  \/ \E n \in 0..MaxArity : \E ls \in [1..n -> BOOLEAN] : Call(n, ls)

Spec == Init /\ [][Next]_vars

-----------------------------------------------------------------------------
(***************************************************************************)
(* Properties.                                                             *)
(***************************************************************************)

FrameType == [closure : Clo \union {Script}, slots : Int, arity : 0..MaxArity,
              locals : UNION {[1..n -> BOOLEAN] : n \in 0..MaxStack}]

\* Every variable has its type; no upvalue is in the open list twice.
TypeOK ==
  /\ base \in Bases
  /\ capacity \in Nat
  /\ stack \in Seq(Value) /\ Len(stack) <= capacity
  /\ frames \in Seq(FrameType) /\ Len(frames) <= FramesMax
  /\ open \in Seq(Up) /\ IsInjective(open)
  /\ loc \in [Up -> Int]
  /\ closed \in [Up -> Value]
  /\ upvalues \in [Clo \union {Script} -> Seq(Up)]
  /\ todo \in 0..MaxCaptures
  /\ glob \in Value
  /\ fault \in BOOLEAN
  /\ stale \in SUBSET Up

\* The windows of the calls lie in the stack one above the other, each begins
\* with the closure it runs and has room for its variables, wherever growth has
\* moved the stack to (vm.c:147-150, "3 days of debug", and vm.c:181, "Maybe bug
\* here").  A C local frame stays valid across push for the same reason.
FrameWindows ==
  \A k \in 1..Len(frames) :
    LET slot == SlotAt(frames[k].slots)
        end == IF k = Len(frames) THEN Len(stack) ELSE SlotAt(frames[k + 1].slots) - 1
    IN  /\ slot \in 1..Len(stack)
        /\ stack[slot] = frames[k].closure
        /\ slot + Len(frames[k].locals) - 1 <= end

\* capture_upvalue keeps the list in strictly descending order of location, the
\* order in which close_upvalues stops at the first upvalue below its argument:
\* out of order, a variable would leave the stack with its upvalue still open.
OpenDescending ==
  \A i \in 1..(Len(open) - 1) : loc[open[i]] > loc[open[i + 1]]

\* Every upvalue that is not closed is in the list, so that close_upvalues finds
\* it, and no two stand for one variable, so that each closure sees what the
\* others assign (test/closure/assign_to_closure.nz).
OpenComplete ==
  /\ {u \in Created : loc[u] # Closed} = Range(open)
  /\ \A u, w \in Range(open) : loc[u] = loc[w] => u = w

\* An upvalue goes astray in two ways only: push moves the stack, or clear_stack
\* frees it, while the variable is captured and still open.  Every other upvalue
\* is closed, or in the list with the address of a slot in use, whatever calls,
\* returns, block exits and captures come in between.
LocatedUnlessStale ==
  \A u \in Created \ stale :
    loc[u] = Closed \/ (u \in Range(open) /\ InStack(loc[u]))

\* When the top-level code has ended, no upvalue is left open and the stack is
\* empty: the next line of the REPL starts from scratch (vm.c:549-552, 65-69).
NothingLeftOver == frames = <<>> => stack = <<>> /\ open = <<>>

\* A captured variable can be read and written for as long as a closure has it,
\* in its scope and after it.
CapturedReadable == ~fault

-----------------------------------------------------------------------------
(***************************************************************************)
(* Refinement: an upvalue is the box of the variable it stands for.        *)
(***************************************************************************)

\* A slot that an open upvalue points to is that box.
SlotBar(i) ==
  IF \E u \in Range(open) : loc[u] = base + i - 1
    THEN CHOOSE u \in Range(open) : loc[u] = base + i - 1
    ELSE stack[i]

ScopeBar == [i \in DOMAIN stack |-> SlotBar(i)]
StoreBar == [u \in Created |-> IF Readable(u) THEN Deref(u) ELSE Script]
FirstBar == [k \in DOMAIN frames |-> SlotAt(frames[k].slots)]
RunningBar == [k \in DOMAIN frames |-> frames[k].closure]

Lexical ==
  INSTANCE LexicalScope WITH
    Box <- Up,
    scope <- ScopeBar,
    store <- StoreBar,
    first <- FirstBar,
    running <- RunningBar,
    captures <- upvalues

\* Variables are what programs take them for (module LexicalScope).
ImplementsScope == Lexical!Spec

=============================================================================
