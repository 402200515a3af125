---------------------------- MODULE LexicalScope ----------------------------
(***************************************************************************)
(* What local variables and closures mean to a program.  A variable that a *)
(* closure captures moves into a box, which the scope and every closure    *)
(* that captures it share and which lives on when the scope has ended; the *)
(* other variables are plain slots of the scope.  There are no addresses,  *)
(* no list of open upvalues and no moment at which anything is closed.     *)
(*                                                                         *)
(* The tests under test/closure state this by example: variables that are  *)
(* shared, that outlive their block or their function, slots that are      *)
(* reused.  Module Upvalues shows that the stack, the frames and the open  *)
(* and closed upvalues of vm.c implement this specification, and when they *)
(* do not.                                                                 *)
(***************************************************************************)
EXTENDS Naturals, Sequences, Functions

CONSTANTS Val,     \* numbers, strings, ...
          Clo,     \* closures
          Script,  \* the closure of the top-level code
          Box      \* boxes of captured variables

Value == Val \union Clo \union {Script}

VARIABLES scope,     \* the values and the boxes in scope, innermost last
          store,     \* store[b]: the value in box b
          first,     \* first[k]: position in scope where call k begins
          running,   \* running[k]: the closure that call k runs
          captures,  \* captures[f]: the boxes that closure f keeps
          glob       \* a global variable

vars == <<scope, store, first, running, captures, glob>>

BoxesInUse == (Range(scope) \intersect Box) \union UNION {Range(captures[f]) : f \in DOMAIN captures}

\* What a slot holds, directly or in its box.
Get(x) == IF x \in Box THEN store[x] ELSE x

\* The boxes in use hold what s says.
Store(s) == store' = [b \in BoxesInUse' |-> s[b]]

Put(b, v) == [x \in DOMAIN store \union {b} |-> IF x = b THEN v ELSE store[x]]

Last == Get(scope[Len(scope)])
Kept == captures[running[Len(running)]]
Until(n) == SubSeq(scope, 1, n)

Init ==
  /\ scope = <<>>
  /\ store = <<>>
  /\ first = <<>>
  /\ running = <<>>
  /\ captures = [f \in Clo \union {Script} |-> <<>>]
  /\ glob \in Val

\* The top-level code starts.
Begin ==
  /\ first = <<>>
  /\ scope' = <<Script>>
  /\ first' = <<1>>
  /\ running' = <<Script>>
  /\ UNCHANGED <<store, captures, glob>>

\* A constant, a variable, a captured variable or a global is evaluated.
Evaluate(v) ==
  /\ first # <<>>
  /\ v \in Val \union {glob} \union {Get(x) : x \in Range(scope) \union Range(Kept)}
  /\ scope' = Append(scope, v)
  /\ UNCHANGED <<store, first, running, captures, glob>>

\* The last value is assigned to a variable in scope, ...
AssignLocal(i) ==
  /\ first # <<>>
  /\ i \in first[Len(first)] + 1..Len(scope)
  /\ IF scope[i] \in Box
       THEN store' = Put(scope[i], Last) /\ UNCHANGED scope
       ELSE scope' = [scope EXCEPT ![i] = Last] /\ UNCHANGED store
  /\ UNCHANGED <<first, running, captures, glob>>

\* ... to a captured one, ...
AssignCaptured(b) ==
  /\ first # <<>>
  /\ b \in Range(Kept)
  /\ store' = Put(b, Last)
  /\ UNCHANGED <<scope, first, running, captures, glob>>

\* ... to a global one.
AssignGlobal ==
  /\ first # <<>>
  /\ glob' = Last
  /\ UNCHANGED <<scope, store, first, running, captures>>

\* A function declaration is evaluated: a new closure, then its captures.
Declare(f) ==
  /\ first # <<>>
  /\ f \notin Range(scope) \union Range(store) \union {glob}
  /\ scope' = Append(scope, f)
  /\ captures' = [captures EXCEPT ![f] = <<>>]
  /\ Store(store)
  /\ UNCHANGED <<first, running, glob>>

\* The variable at i moves into a box of its own.
CaptureLocal(i, b) ==
  /\ Last \in Clo
  /\ i \in DOMAIN scope
  /\ scope[i] \notin Box
  /\ b \in Box \ BoxesInUse
  /\ captures' = [captures EXCEPT ![Last] = Append(@, b)]
  /\ scope' = [scope EXCEPT ![i] = b]
  /\ store' = Put(b, scope[i])
  /\ UNCHANGED <<first, running, glob>>

\* A variable that has a box already is shared.
CaptureShared(b) ==
  /\ Last \in Clo
  /\ b \in Box
  /\ b \in Range(scope) \union Range(Kept)
  /\ captures' = [captures EXCEPT ![Last] = Append(@, b)]
  /\ UNCHANGED <<scope, store, first, running, glob>>

\* An operand is dropped, or a variable goes out of scope.
Leave ==
  /\ first # <<>>
  /\ Len(scope) > first[Len(first)]
  /\ scope' = Until(Len(scope) - 1)
  /\ Store(store)
  /\ UNCHANGED <<first, running, captures, glob>>

Call(n) ==
  /\ first # <<>>
  /\ n < Len(scope)
  /\ scope[Len(scope) - n] \in Clo
  /\ first' = Append(first, Len(scope) - n)
  /\ running' = Append(running, scope[Len(scope) - n])
  /\ UNCHANGED <<scope, store, captures, glob>>

Return ==
  /\ Len(first) > 1
  /\ scope' = Append(Until(first[Len(first)] - 1), Last)
  /\ first' = SubSeq(first, 1, Len(first) - 1)
  /\ running' = SubSeq(running, 1, Len(running) - 1)
  /\ Store(store)
  /\ UNCHANGED <<captures, glob>>

\* The top-level code ends.
End ==
  /\ first # <<>>
  /\ scope' = <<>>
  /\ first' = <<>>
  /\ running' = <<>>
  /\ Store(store)
  /\ UNCHANGED <<captures, glob>>

Next ==
  \/ Begin \/ AssignGlobal \/ Leave \/ Return \/ End
  \/ \E v \in Value : Evaluate(v)
  \/ \E i \in DOMAIN scope : AssignLocal(i)
  \/ \E b \in Box : AssignCaptured(b) \/ CaptureShared(b)
  \/ \E i \in DOMAIN scope, b \in Box : CaptureLocal(i, b)
  \/ \E f \in Clo : Declare(f)
  \/ \E n \in 0..Len(scope) : Call(n)

Spec == Init /\ [][Next]_vars

=============================================================================
