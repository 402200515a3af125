--------------------------- MODULE Reachability ---------------------------
(***************************************************************************)
(* Reachability through the object graph of the VM, the yardstick the      *)
(* garbage collector of memory.c is measured against.                      *)
(*                                                                         *)
(* refs[o] is the set of objects that object o points to: the name and the *)
(* messages of an actor, the function and the upvalues of a closure, the   *)
(* name and the constants of a function, the actor and the fields of an    *)
(* instance, the closed value of an upvalue (blacken_object reads exactly  *)
(* these).  Strings and natives point to nothing.                          *)
(*                                                                         *)
(* The reachable set is defined from above, as the intersection of all the *)
(* closed sets that hold the starting objects: it needs neither recursion  *)
(* nor paths, and the facts about it follow from the definition alone.     *)
(***************************************************************************)

\* S is closed: no object of S points outside S.
Closed(S, refs) == \A o \in S : refs[o] \subseteq S

\* The least closed set of objects that contains from.
Reachable(from, refs) ==
  {o \in DOMAIN refs :
     \A S \in SUBSET DOMAIN refs : from \subseteq S /\ Closed(S, refs) => o \in S}

=============================================================================
