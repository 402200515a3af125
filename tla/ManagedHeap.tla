---------------------------- MODULE ManagedHeap ----------------------------
(***************************************************************************)
(* What the memory manager (memory.c, allocate_object of object.c)         *)
(* promises to the rest of the interpreter: a heap where an allocation may *)
(* first make every object that the program can no longer reach disappear, *)
(* in one indivisible step, and where nothing else ever disappears.  The   *)
(* table of interned strings is weak: it loses a string exactly when the   *)
(* string disappears.                                                      *)
(*                                                                         *)
(* Module Collector shows that the mark, trace, remove-white and sweep     *)
(* loops implement this specification.                                     *)
(***************************************************************************)
EXTENDS Reachability

CONSTANTS Obj,    \* addresses of heap objects
          Str     \* those that hold strings

VARIABLES live,    \* objects that have been allocated and not freed
          refs,    \* refs[o]: the objects that o points to
          roots,   \* objects on the stack, in frames, globals, open upvalues
          fresh,   \* objects held only by a C local variable
          strings  \* keys of vm.strings, the weak table of interned strings

vars == <<live, refs, roots, fresh, strings>>

\* The objects the program can get at.
Accessible == Reachable(roots \union fresh, refs)

Init ==
  /\ live = {}
  /\ refs = [o \in Obj |-> {}]
  /\ roots = {}
  /\ fresh = {}
  /\ strings = {}

-----------------------------------------------------------------------------

\* Everything unreachable from the roots disappears at once.
Collect ==
  LET kept == Reachable(roots, refs)
  IN  /\ live' = kept
      /\ strings' = strings \intersect kept
      /\ fresh' = {}
      /\ UNCHANGED <<refs, roots>>

\* A new object appears; its address was not in use.
New(o) ==
  /\ o \notin live
  /\ live' = live \union {o}
  /\ refs' = [refs EXCEPT ![o] = {}]
  /\ fresh' = fresh \union {o}
  /\ UNCHANGED <<roots, strings>>

Root(o) ==
  /\ o \in Accessible
  /\ roots' = roots \union {o}
  /\ UNCHANGED <<live, refs, fresh, strings>>

Unroot(o) ==
  /\ o \in roots
  /\ roots' = roots \ {o}
  /\ fresh' = fresh \union {o}
  /\ UNCHANGED <<live, refs, strings>>

Link(a, b) ==
  /\ a \in Accessible \ Str
  /\ b \in Accessible
  /\ refs' = [refs EXCEPT ![a] = @ \union {b}]
  /\ UNCHANGED <<live, roots, fresh, strings>>

Unlink(a, b) ==
  /\ a \in Accessible
  /\ b \in refs[a]
  /\ refs' = [refs EXCEPT ![a] = @ \ {b}]
  /\ UNCHANGED <<live, roots, fresh, strings>>

Intern(s) ==
  /\ s \in Str \intersect Accessible
  /\ strings' = strings \union {s}
  /\ UNCHANGED <<live, refs, roots, fresh>>

\* A lookup by contents gives the program a string it may have lost.
FindInterned(s) ==
  /\ s \in strings
  /\ fresh' = fresh \union {s}
  /\ UNCHANGED <<live, refs, roots, strings>>

\* free_vm: the whole heap goes.
FreeAll ==
  /\ live' = {}
  /\ roots' = {}
  /\ fresh' = {}
  /\ strings' = {}
  /\ UNCHANGED refs

Next ==
  \/ Collect
  \/ FreeAll
  \/ \E o \in Obj : New(o) \/ Root(o) \/ Unroot(o) \/ Intern(o) \/ FindInterned(o)
  \/ \E a, b \in Obj : Link(a, b) \/ Unlink(a, b)

Spec == Init /\ [][Next]_vars

=============================================================================
