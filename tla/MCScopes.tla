------------------------------ MODULE MCScopes ------------------------------
(* Instances of the scopes for TLC. *)
EXTENDS Scopes, TLC

CONSTANTS x, y

TwoNames == {x, y}

Symmetry == Permutations(Name)

=============================================================================
