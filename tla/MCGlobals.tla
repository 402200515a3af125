----------------------------- MODULE MCGlobals ------------------------------
(* Instances of the global variables for TLC. *)
EXTENDS Globals

CONSTANTS clock, x, one, two

OneNative == << [name |-> clock, value |-> one, constant |-> TRUE] >>

=============================================================================
