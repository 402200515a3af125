---------------------------- MODULE MCHashTable -----------------------------
(* Instances of the hash table for TLC.  The capacities are those of the    *)
(* code scaled down; the hashes collide, and the searches wrap around.      *)
EXTENDS HashTable, TLC

CONSTANTS k1, k2, k3, k4, k5, x, y, z, t, nil, true

TwoValues == {nil, true}
FourTexts == {x, y, z, t}
Hashes == (x :> 7) @@ (y :> 7) @@ (z :> 0) @@ (t :> 2)

\* k1 and k5 are copies of one string: a table of fields has one of them at most.
AllKeys == {k1, k2, k3, k4, k5}
OnePerText == AllKeys \ {k5}
CharsOf == (k1 :> x) @@ (k2 :> y) @@ (k3 :> z) @@ (k4 :> t) @@ (k5 :> x)

=============================================================================
