----------------------------- MODULE Dictionary -----------------------------
(***************************************************************************)
(* What a table of table.c promises: a partial function from keys to       *)
(* values, with the result of the last operation.  A key leaves it when it *)
(* is removed, and in no other way; except that the table of strings       *)
(* (vm.strings) holds its keys weakly, so that a collection takes out      *)
(* those that it is about to free, all of them, before the next operation. *)
(***************************************************************************)
EXTENDS Functions

CONSTANTS
  Key,      \* addresses of strings
  Value,    \* values
  Text,     \* sequences of characters
  Chars,    \* Chars[k]: the characters of string k
  Absent    \* the result when there is no such key

VARIABLES
  dict,     \* the value of each key
  weak,     \* is this the table of strings?
  garbage,  \* the keys that the collection at work will free
  result    \* the last operation, its argument and what it returned

vars == <<dict, weak, garbage, result>>

Returns(op, arg, answer) == result' = [op |-> op, arg |-> arg, answer |-> answer]

Init ==
  /\ dict = <<>>
  /\ weak \in BOOLEAN
  /\ garbage = {}
  /\ result = [op |-> "none", arg |-> Absent, answer |-> Absent]

\* No collection is at work.
Steady == garbage = {} /\ UNCHANGED <<weak, garbage>>

Lookup(k) ==
  /\ Steady
  /\ Returns("get", k, IF k \in DOMAIN dict THEN dict[k] ELSE Absent)
  /\ UNCHANGED dict

Put(k, v) ==
  /\ Steady
  /\ Returns("set", k, k \notin DOMAIN dict)
  /\ dict' = [j \in DOMAIN dict \union {k} |-> IF j = k THEN v ELSE dict[j]]

Remove(k) ==
  /\ Steady
  /\ Returns("delete", k, k \in DOMAIN dict)
  /\ dict' = Restrict(dict, DOMAIN dict \ {k})

\* The string that has these characters.
Find(text) ==
  /\ Steady
  /\ \/ \E k \in DOMAIN dict : Chars[k] = text /\ Returns("find", text, k)
     \/ (\A k \in DOMAIN dict : Chars[k] # text) /\ Returns("find", text, Absent)
  /\ UNCHANGED dict

\* A collection finds that these strings of the table are not in use,
Collect(dead) ==
  /\ weak
  /\ garbage = {}
  /\ garbage' = dead
  /\ UNCHANGED <<dict, weak, result>>

\* takes each of them out of the table,
Drop(k) ==
  /\ k \in garbage
  /\ dict' = Restrict(dict, DOMAIN dict \ {k})
  /\ UNCHANGED <<weak, garbage, result>>

\* and frees them when none is left in it.
Collected ==
  /\ garbage \intersect DOMAIN dict = {}
  /\ garbage' = {}
  /\ UNCHANGED <<dict, weak, result>>

Next ==
  \/ \E k \in Key : Lookup(k) \/ Remove(k) \/ Drop(k) \/ \E v \in Value : Put(k, v)
  \/ \E text \in Text : Find(text)
  \/ \E dead \in SUBSET DOMAIN dict : Collect(dead)
  \/ Collected

Spec == Init /\ [][Next]_vars

=============================================================================
