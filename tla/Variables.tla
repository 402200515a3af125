------------------------------ MODULE Variables ------------------------------
(***************************************************************************)
(* What a program sees of the global variables: each name has one meaning, *)
(* which is its last definition, for as long as the machine lives.  There  *)
(* is room for Capacity definitions in all; one more is lost.              *)
(***************************************************************************)
EXTENDS Naturals

CONSTANTS Name, Value, Capacity, Unit, Predefined

VARIABLES
  known,   \* the defined names to their values and whether they are constant
  used,    \* the number of definitions so far
  answer   \* the last instruction, and the value or error it gave

vars == <<known, used, answer>>

Variable == [value : Value, constant : BOOLEAN]
Gives(kind, name, value) == answer' = [kind |-> kind, name |-> name, value |-> value]

Init == /\ <<known, used>> = Predefined
        /\ answer = [kind |-> "none", name |-> Unit, value |-> Unit]

Define(n, v, c) ==
  /\ used < Capacity
  /\ known' = [m \in DOMAIN known \union {n} |->
                 IF m = n THEN [value |-> v, constant |-> c] ELSE known[m]]
  /\ used' = used + 1
  /\ Gives(IF c THEN "val" ELSE "var", n, v)

Lose(n, v, c) ==
  /\ used = Capacity
  /\ Gives(IF c THEN "val" ELSE "var", n, v) /\ UNCHANGED <<known, used>>

Read(n) == n \in DOMAIN known /\ Gives("value", n, known[n].value) /\ UNCHANGED <<known, used>>

Assign(n, v) ==
  /\ n \in DOMAIN known /\ ~known[n].constant
  /\ known' = [known EXCEPT ![n] = [value |-> v, constant |-> FALSE]]
  /\ Gives("value", n, v) /\ UNCHANGED used

Refuse(n) ==
  /\ \/ n \notin DOMAIN known /\ Gives("undefined", n, Unit)
     \/ n \in DOMAIN known /\ known[n].constant /\ Gives("constant", n, Unit)
  /\ UNCHANGED <<known, used>>

Next ==
  \E n \in Name :
    \/ Read(n) \/ Refuse(n)
    \/ \E v \in Value : \/ Assign(n, v)
                       \/ \E c \in BOOLEAN : Define(n, v, c) \/ Lose(n, v, c)

Spec == Init /\ [][Next]_vars

=============================================================================
