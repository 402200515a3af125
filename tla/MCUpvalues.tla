----------------------------- MODULE MCUpvalues -----------------------------
(* Instances of the stack and the upvalues for TLC.  The capacities are     *)
(* those of the code scaled down, so that small programs grow the stack.    *)
EXTENDS Upvalues, TLC

CONSTANTS v1, f1, f2, script, u1, u2

OneValue == {v1}
TwoClosures == {f1, f2}
TwoUpvalues == {u1, u2}

\* realloc extends the stack where it is, or may move it down and up.
InPlace == {100}
Moving == {100, 200}

\* Closures and upvalues may be exchanged for others of their kind.
Symmetry == Permutations(TwoClosures)
            \union Permutations(TwoUpvalues)

=============================================================================
