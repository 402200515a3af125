----------------------------- MODULE Collector -----------------------------
(***************************************************************************)
(* The garbage collector: memory.c (reallocate, mark_object, mark_roots,   *)
(* blacken_object, trace_references, sweep, collect_garbage,               *)
(* free_objects), table_remove_white of table.c, and allocate_object of    *)
(* object.c, which is how a collection comes to run in the middle of       *)
(* anything else the interpreter does.                                     *)
(*                                                                         *)
(* The interpreter has one thread, so while a collection runs the mutator  *)
(* is stopped inside reallocate; the loops of the collector are split into *)
(* their iterations to state what holds between them.                      *)
(*                                                                         *)
(* Abstractions of data.  An object is a member of Obj and refs[o] is the  *)
(* set of objects its fields point to, whatever its ObjType.  The sources  *)
(* of roots (stack slots, frame closures, open upvalues, globals, compiler *)
(* roots, init_string) form one set.  The gray stack is a set, so every    *)
(* order of blackening is covered ("Can be any other data structure        *)
(* instead of gray stack", memory.c:56).  bytes_allocated and next_gc only *)
(* decide whether an allocation collects, which is a free choice here.     *)
(*                                                                         *)
(* The mutator follows one rule that the rest of the interpreter has to    *)
(* keep: a pointer held only in a C local is not used after an allocation  *)
(* that may collect.  Module Runtime checks the interpreter against it.    *)
(***************************************************************************)
EXTENDS Reachability, Sequences, Functions

CONSTANTS Obj,       \* addresses of heap objects
          Str,       \* the objects that are strings (OBJ_STRING)
          StressGC   \* is DEBUG_STRESS_GC defined (common.h)?

ASSUME StrAssumption == Str \subseteq Obj
ASSUME StressAssumption == StressGC \in BOOLEAN

VARIABLES
  objects,  \* vm.objects from the sweep's cursor on (all of it when no sweep runs)
  kept,     \* the part of vm.objects that the running sweep has already passed
  marked,   \* objects with is_marked set
  gray,     \* the gray stack
  pending,  \* roots that mark_roots has not visited yet
  refs,     \* refs[o]: objects that o points to
  roots,    \* objects that mark_roots visits
  fresh,    \* objects that only a C local variable of the mutator points to
  strings,  \* keys of vm.strings
  growing,  \* does the allocation in progress grow an array (or create an object)?
  pc        \* "mutator", "mark", "trace", "sweep", "alloc" or "exit"

heapVars == <<refs, roots>>
gcVars == <<objects, kept, marked, gray, pending>>
vars == <<objects, kept, marked, gray, pending, refs, roots, fresh, strings,
          growing, pc>>

\* The objects of the intrusive list vm.objects.
Live == Range(kept) \union Range(objects)

\* The objects the mutator can get at.
Accessible == Reachable(roots \union fresh, refs)

Init ==
  /\ objects = <<>>
  /\ kept = <<>>
  /\ marked = {}
  /\ gray = {}
  /\ pending = {}
  /\ refs = [o \in Obj |-> {}]
  /\ roots = {}
  /\ fresh = {}
  /\ strings = {}
  /\ growing = FALSE
  /\ pc = "mutator"

-----------------------------------------------------------------------------
(***************************************************************************)
(* The mutator: everything in the interpreter that is not allocation.      *)
(***************************************************************************)

\* push, a store into a frame or a global, the head of vm.open_upvalues, ...
Root(o) ==
  /\ pc = "mutator"
  /\ o \in Accessible \ roots
  /\ roots' = roots \union {o}
  /\ UNCHANGED <<gcVars, refs, fresh, strings, growing, pc>>

\* pop, and any other overwriting of a root: the caller still has the value.
Unroot(o) ==
  /\ pc = "mutator"
  /\ o \in roots
  /\ roots' = roots \ {o}
  /\ fresh' = fresh \union {o}
  /\ UNCHANGED <<gcVars, refs, strings, growing, pc>>

\* A field of a gets a pointer to b.
Link(a, b) ==
  /\ pc = "mutator"
  /\ a \in Accessible \ Str
  /\ b \in Accessible \ refs[a]
  /\ refs' = [refs EXCEPT ![a] = @ \union {b}]
  /\ UNCHANGED <<gcVars, roots, fresh, strings, growing, pc>>

\* The last field of a that points to b is overwritten.
Unlink(a, b) ==
  /\ pc = "mutator"
  /\ a \in Accessible
  /\ b \in refs[a]
  /\ refs' = [refs EXCEPT ![a] = @ \ {b}]
  /\ UNCHANGED <<gcVars, roots, fresh, strings, growing, pc>>

\* table_set(&vm.strings, s, NIL_VAL) of copy_string and string_concat.
Intern(s) ==
  /\ pc = "mutator"
  /\ s \in (Str \intersect Accessible) \ strings
  /\ strings' = strings \union {s}
  /\ UNCHANGED <<gcVars, heapVars, fresh, growing, pc>>

\* table_find_string hands out a string of the table, rooted or not.
FindInterned(s) ==
  /\ pc = "mutator"
  /\ s \in strings \ fresh
  /\ fresh' = fresh \union {s}
  /\ UNCHANGED <<gcVars, heapVars, strings, growing, pc>>

\* free_vm: free_table(&vm.strings), free_objects, clear_stack.
FreeVM ==
  /\ pc = "mutator"
  /\ objects' = <<>>
  /\ roots' = {}
  /\ fresh' = {}
  /\ strings' = {}
  /\ pc' = "exit"
  /\ UNCHANGED <<kept, marked, gray, pending, refs, growing>>

-----------------------------------------------------------------------------
(***************************************************************************)
(* reallocate with new_size > old_size, for an object or for an array.     *)
(***************************************************************************)

\* An allocation that collects first.
Collect ==
  /\ pc = "mutator"
  /\ growing' \in BOOLEAN
  /\ pending' = roots
  /\ pc' = "mark"
  /\ UNCHANGED <<objects, kept, marked, gray, heapVars, fresh, strings>>

\* bytes_allocated is at most next_gc and the build does not stress the collector.
SkipCollect ==
  /\ pc = "mutator"
  /\ ~StressGC
  /\ growing' = FALSE
  /\ pc' = "alloc"
  /\ UNCHANGED <<gcVars, heapVars, fresh, strings>>

\* Slip for the checks: an object that is marked already becomes gray again.
MarkAgain(S, worklist) ==
  /\ marked' = marked \union S
  /\ gray' = worklist \union S

\* Slip: the marked object is not put on the gray stack.
MarkBlack(S, worklist) ==
  /\ marked' = marked \union S
  /\ gray' = worklist

\* mark_object on the objects of S: those still white are marked and join the
\* worklist; the others are left alone ("Because can have cycle of gray objects").
Mark(S, worklist) ==
  /\ marked' = marked \union S
  /\ gray' = worklist \union (S \ marked)

\* One iteration of the loops of mark_roots.
MarkRoot(o) ==
  /\ pc = "mark"
  /\ o \in pending
  /\ pending' = pending \ {o}
  /\ Mark({o}, gray)
  /\ UNCHANGED <<objects, kept, heapVars, fresh, strings, growing, pc>>

EndMarkRoots ==
  /\ pc = "mark"
  /\ pending = {}
  /\ pc' = "trace"
  /\ UNCHANGED <<gcVars, heapVars, fresh, strings, growing>>

\* Slip: an object is popped from the gray stack and its fields are not visited.
BlackenNothing(o) ==
  /\ pc = "trace"
  /\ o \in gray
  /\ Mark({}, gray \ {o})
  /\ UNCHANGED <<objects, kept, pending, heapVars, fresh, strings, growing, pc>>

\* One iteration of trace_references: blacken_object marks what o points to.
Blacken(o) ==
  /\ pc = "trace"
  /\ o \in gray
  /\ Mark(refs[o], gray \ {o})
  /\ UNCHANGED <<objects, kept, pending, heapVars, fresh, strings, growing, pc>>

\* Slip: the table of strings is not purged before the sweep.
RemoveNothing ==
  /\ pc = "trace"
  /\ gray = {}
  /\ fresh' = {}
  /\ pc' = "sweep"
  /\ UNCHANGED <<gcVars, heapVars, strings, growing>>

\* Slip: the test of is_marked is inverted.
RemoveBlack ==
  /\ pc = "trace"
  /\ gray = {}
  /\ strings' = strings \ marked
  /\ fresh' = {}
  /\ pc' = "sweep"
  /\ UNCHANGED <<gcVars, heapVars, growing>>

\* Slip: the sweep begins while gray objects are left.
RemoveEarly ==
  /\ pc = "trace"
  /\ strings' = strings \intersect marked
  /\ fresh' = {}
  /\ gray' = {}
  /\ pc' = "sweep"
  /\ UNCHANGED <<objects, kept, marked, pending, heapVars, growing>>

\* The gray stack is empty: table_remove_white(&vm.strings), then sweep begins.
RemoveWhite ==
  /\ pc = "trace"
  /\ gray = {}
  /\ strings' = strings \intersect marked
  /\ fresh' = {}
  /\ pc' = "sweep"
  /\ UNCHANGED <<gcVars, heapVars, growing>>

\* Slip: is_marked is not reset for the next collection.
SweepKeepMarked ==
  /\ pc = "sweep"
  /\ objects # <<>>
  /\ Head(objects) \in marked
  /\ kept' = Append(kept, Head(objects))
  /\ objects' = Tail(objects)
  /\ UNCHANGED <<marked, gray, pending, heapVars, fresh, strings, growing, pc>>

\* One iteration of sweep: a marked object stays, and becomes white again.
SweepKeep ==
  /\ pc = "sweep"
  /\ objects # <<>>
  /\ Head(objects) \in marked
  /\ marked' = marked \ {Head(objects)}
  /\ kept' = Append(kept, Head(objects))
  /\ objects' = Tail(objects)
  /\ UNCHANGED <<gray, pending, heapVars, fresh, strings, growing, pc>>

\* Slip: a white object is passed over instead of being freed.
SweepLeak ==
  /\ pc = "sweep"
  /\ objects # <<>>
  /\ Head(objects) \notin marked
  /\ kept' = Append(kept, Head(objects))
  /\ objects' = Tail(objects)
  /\ UNCHANGED <<marked, gray, pending, heapVars, fresh, strings, growing, pc>>

\* One iteration of sweep: a white object is unlinked and freed.
SweepFree ==
  /\ pc = "sweep"
  /\ objects # <<>>
  /\ Head(objects) \notin marked
  /\ objects' = Tail(objects)
  /\ UNCHANGED <<kept, marked, gray, pending, heapVars, fresh, strings, growing, pc>>

\* Slip: the list of the kept objects is not cut off from the old one.
SweepEndTwice ==
  /\ pc = "sweep"
  /\ objects = <<>>
  /\ objects' = kept
  /\ pc' = "alloc"
  /\ UNCHANGED <<kept, marked, gray, pending, heapVars, fresh, strings, growing>>

\* The cursor has reached the end of vm.objects; collect_garbage returns.
SweepEnd ==
  /\ pc = "sweep"
  /\ objects = <<>>
  /\ objects' = kept
  /\ kept' = <<>>
  /\ pc' = "alloc"
  /\ UNCHANGED <<marked, gray, pending, heapVars, fresh, strings, growing>>

\* allocate_object: a white object is put at the head of vm.objects.
AllocateObject(o) ==
  /\ pc = "alloc"
  /\ ~growing
  /\ o \notin Live
  /\ objects' = <<o>> \o objects
  /\ refs' = [refs EXCEPT ![o] = {}]
  /\ fresh' = fresh \union {o}
  /\ pc' = "mutator"
  /\ UNCHANGED <<kept, marked, gray, pending, roots, strings, growing>>

\* An array has been grown: no object changes.
GrowArray ==
  /\ pc = "alloc"
  /\ growing
  /\ growing' = FALSE
  /\ pc' = "mutator"
  /\ UNCHANGED <<gcVars, heapVars, fresh, strings>>

\* realloc returned NULL: exit(1).
OutOfMemory ==
  /\ pc = "alloc"
  /\ pc' = "exit"
  /\ UNCHANGED <<gcVars, heapVars, fresh, strings, growing>>

-----------------------------------------------------------------------------

Mutate ==
  \/ FreeVM
  \/ \E o \in Obj : Root(o) \/ Unroot(o) \/ Intern(o) \/ FindInterned(o)
  \/ \E a, b \in Obj : Link(a, b) \/ Unlink(a, b)

Reallocate ==
  \/ EndMarkRoots \/ RemoveWhite \/ SweepKeep \/ SweepFree \/ SweepEnd
  \/ GrowArray \/ OutOfMemory
  \/ \E o \in Obj : MarkRoot(o) \/ Blacken(o) \/ AllocateObject(o)

Next == Mutate \/ Collect \/ SkipCollect \/ Reallocate

Spec == Init /\ [][Next]_vars

\* A call of reallocate runs to its end: nothing else runs meanwhile, and its
\* loops do not wait for anything.  The mutator owes no progress.
FairSpec == Spec /\ WF_vars(Reallocate)

-----------------------------------------------------------------------------
(***************************************************************************)
(* Properties.                                                             *)
(***************************************************************************)

PC == {"mutator", "mark", "trace", "sweep", "alloc", "exit"}

\* Every variable has its type, and vm.objects, a list threaded through the
\* objects themselves (object.h:36), holds no object twice: sweep would free it
\* twice and every walk would go round for ever.
TypeOK ==
  /\ objects \in Seq(Obj)
  /\ kept \in Seq(Obj)
  /\ IsInjective(kept \o objects)
  /\ marked \in SUBSET Obj
  /\ gray \in SUBSET Obj
  /\ pending \in SUBSET Obj
  /\ refs \in [Obj -> SUBSET Obj]
  /\ roots \in SUBSET Obj
  /\ fresh \in SUBSET Obj
  /\ strings \in SUBSET Obj
  /\ growing \in BOOLEAN
  /\ pc \in PC

\* No use after free: whatever the program can get at, through the roots and
\* through C locals set since the last collection, has not been freed, at every
\* moment of a collection too (memory.c:171-219).
HeapSound == Accessible \subseteq Live

\* The tricolour invariant of mark_roots and trace_references (the comment at
\* memory.c:52): a black object points to no white one, gray objects are
\* marked, and a root is marked or still to be visited.
TriColour ==
  pc \in {"mark", "trace"} =>
    /\ gray \subseteq marked
    /\ roots \subseteq pending \union marked
    /\ \A o \in marked \ gray : refs[o] \subseteq marked

\* Between collections every object is white: an object left marked would stop
\* mark_object in the next collection and its children would be freed.
MarksClear == pc \in {"mutator", "alloc"} => marked \union gray = {}

\* A collection is exact: when sweep ends, the list holds the objects reachable
\* from the roots, no fewer (they are in use) and no more (they would leak).
ExactCollection ==
  pc = "sweep" /\ objects = <<>> => Range(kept) = Reachable(roots, refs)

\* The intern table never holds a freed string, so that table_find_string never
\* reads one or hands one out: table_remove_white must run before sweep.
WeakTable == strings \subseteq Live

\* A string leaves the intern table only when no root leads to it: as
\* long as it can, a second copy of it must not be interned under another
\* address (find_entry compares keys by address, table.c:30).
InternedStays ==
  [][pc' # "exit" => (strings \ strings') \intersect Reachable(roots, refs) = {}]_vars

\* reallocate returns or exits, whatever cycles the heap has.
Terminates == pc \notin {"mutator", "exit"} ~> pc \in {"mutator", "exit"}

-----------------------------------------------------------------------------
(***************************************************************************)
(* Refinement: a collection looks like one step, taken when sweep begins.  *)
(***************************************************************************)

\* The objects that are allocated and not doomed by the running sweep.
LiveBar ==
  IF pc = "sweep" THEN Range(kept) \union (Range(objects) \intersect marked)
                  ELSE Range(objects)

Heap == INSTANCE ManagedHeap WITH live <- LiveBar

\* The collector implements the heap of module ManagedHeap.
ImplementsHeap == Heap!Spec

-----------------------------------------------------------------------------
(***************************************************************************)
(* The inductive invariant, one part for each stretch of reallocate.       *)
(***************************************************************************)

\* Only strings are interned, and strings point to nothing.
StringInv == strings \subseteq Str /\ \A s \in Str : refs[s] = {}

\* Outside a collection no mark and no work is left over.
IdleInv ==
  pc \in {"mutator", "alloc", "exit"} =>
    /\ kept = <<>> /\ marked = {} /\ gray = {} /\ pending = {}
    /\ Accessible \subseteq Range(objects)
    /\ strings \subseteq Range(objects)

\* While marking, only reachable objects are marked or waiting.
MarkInv ==
  pc \in {"mark", "trace"} =>
    /\ kept = <<>>
    /\ pc = "trace" => pending = {}
    /\ marked \union pending \subseteq Reachable(roots, refs)
    /\ Accessible \subseteq Range(objects)
    /\ strings \subseteq Range(objects)

\* While sweeping, the reachable objects are those already kept and those still
\* marked.
SweepInv ==
  pc = "sweep" =>
    /\ gray = {} /\ pending = {} /\ fresh = {}
    /\ Reachable(roots, refs) = LiveBar
    /\ Range(kept) \intersect marked = {}
    /\ marked \subseteq Range(objects)
    /\ strings \subseteq LiveBar

\* The invariant that the steps of reallocate preserve and that implies all the
\* others of this module.
IInv == TypeOK /\ StringInv /\ IdleInv /\ TriColour /\ MarkInv /\ SweepInv

=============================================================================
