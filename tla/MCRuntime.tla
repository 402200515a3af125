----------------------------- MODULE MCRuntime ------------------------------
(* Instances of the runtime for TLC. *)
EXTENDS Runtime, TLC

CONSTANTS o1, o2, o3, o4, o5, o6

FourObjects == {o1, o2, o3, o4}
FiveObjects == {o1, o2, o3, o4, o5}
SixObjects == {o1, o2, o3, o4, o5, o6}

\* Addresses may be exchanged for others.
Symmetry == Permutations(Obj)

=============================================================================
