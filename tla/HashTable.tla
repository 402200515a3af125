----------------------------- MODULE HashTable ------------------------------
(***************************************************************************)
(* The hash table of table.c: open addressing with linear probing,         *)
(* tombstones, and growth by rehashing.  It holds the fields of an         *)
(* instance and the messages of an actor (keys to values), and the strings *)
(* of the machine (vm.strings), which copy_string and string_concat        *)
(* consult before they add one and the collector prunes.                   *)
(*                                                                         *)
(* find_entry, table_find_string and the stores are one step each; the     *)
(* loops over the entries (adjust_capacity, table_remove_white,            *)
(* table_add_all) go one entry per step, since a collection may come in    *)
(* the middle of table_set, when adjust_capacity allocates.                *)
(***************************************************************************)
EXTENDS Integers, Sequences, FiniteSets, FiniteSetsExt

CONSTANTS
  Key,          \* addresses of strings
  NoKey,        \* NULL
  Text,         \* sequences of characters
  Chars,        \* Chars[k]: the characters of string k
  Hash,         \* Hash[t]: hash_string of the characters t
  Value,        \* values
  Nil, True,    \* two of them: the value of an empty entry, and of a tombstone
  MinCapacity,  \* GROW_CAPACITY of a small capacity (8 in memory.h)
  MaxCapacity,  \* bound: entries
  FieldKey      \* the strings that name fields and messages

ASSUME KeyAssumption == NoKey \notin Key /\ Chars \in [Key -> Text] /\ Hash \in [Text -> Nat]
ASSUME ValueAssumption == Nil \in Value /\ True \in Value /\ Nil # True
ASSUME CapacityAssumption == MinCapacity \in Nat /\ MinCapacity > 1 /\ MaxCapacity \in Nat
\* The strings in use are interned, so that those of equal characters are the same.
ASSUME FieldKeyAssumption ==
  FieldKey \subseteq Key /\ \A k, j \in FieldKey : Chars[k] = Chars[j] => k = j

VARIABLES
  interning, \* is this vm.strings, or a table of fields or messages?
  entries,   \* table->entries, indexed from 0
  capacity,  \* table->capacity
  count,     \* table->count
  pc,        \* "idle", or where the operation in progress is
  pending,   \* the pairs that table_set or table_add_all has still to set
  white,     \* the unmarked keys, for table_remove_white
  pos,       \* i, the index of the loop in progress
  fresh,     \* the entries that adjust_capacity fills
  result     \* the last operation, its argument and what it returned

tableVars == <<interning, entries, capacity, count>>
vars == <<tableVars, pc, pending, white, pos, fresh, result>>

Entry == [key : Key \union {NoKey}, value : Value]
Empty == [key |-> NoKey, value |-> Nil]
Tombstone == [key |-> NoKey, value |-> True]

Init ==
  /\ interning \in BOOLEAN
  /\ entries = [i \in 0..-1 |-> Empty]
  /\ capacity = 0
  /\ count = 0
  /\ pc = "idle"
  /\ pending = <<>>
  /\ white = {}
  /\ pos = 0
  /\ fresh = [i \in 0..-1 |-> Empty]
  /\ result = [op |-> "none", arg |-> NoKey, answer |-> NoKey]

-----------------------------------------------------------------------------
(***************************************************************************)
(* Probing.                                                                *)
(***************************************************************************)

\* The d-th entry that a search from hash h looks at.
Probe(h, d, cap) == (h + d) % cap

\* A slip of find_entry for the mutants: the first tombstone is returned at once.
FindEntryHasty(es, cap, k) ==
  LET at(d) == Probe(Hash[Chars[k]], d, cap)
      stops(d) == es[at(d)].key \in {k, NoKey}
  IN  at(CHOOSE d \in 0..(cap - 1) : stops(d) /\ \A e \in 0..(d - 1) : ~stops(e))

\* find_entry: the entry of the key, or else the one to put it in, which is the
\* first tombstone on the way to an empty entry, if there is one.
FindEntry(es, cap, k) ==
  LET at(d) == Probe(Hash[Chars[k]], d, cap)
      stops(d) == es[at(d)] = Empty \/ es[at(d)].key = k
      end == CHOOSE d \in 0..(cap - 1) : stops(d) /\ \A e \in 0..(d - 1) : ~stops(e)
      tombstones == {d \in 0..(end - 1) : es[at(d)].key = NoKey}
  IN  IF es[at(end)].key = k \/ tombstones = {} THEN at(end) ELSE at(Min(tombstones))

\* A slip of table_find_string: it stops at a tombstone.
FindStringHasty(t) ==
  LET at(d) == Probe(Hash[t], d, capacity)
      found(d) == entries[at(d)].key # NoKey /\ Chars[entries[at(d)].key] = t
      stops(d) == entries[at(d)].key = NoKey \/ found(d)
      end == CHOOSE d \in 0..(capacity - 1) : stops(d) /\ \A e \in 0..(d - 1) : ~stops(e)
  IN  IF count = 0 THEN NoKey ELSE entries[at(end)].key

\* table_find_string
FindString(t) ==
  LET at(d) == Probe(Hash[t], d, capacity)
      found(d) == entries[at(d)].key # NoKey /\ Chars[entries[at(d)].key] = t
      stops(d) == entries[at(d)] = Empty \/ found(d)
      end == CHOOSE d \in 0..(capacity - 1) : stops(d) /\ \A e \in 0..(d - 1) : ~stops(e)
  IN  IF count = 0 THEN NoKey ELSE entries[at(end)].key

Put(es, i, k, v) == [es EXCEPT ![i] = [key |-> k, value |-> v]]

\* A slip of table_delete: count goes down.
BuryUncounted(k) ==
  /\ entries' = [entries EXCEPT ![FindEntry(entries, capacity, k)] = Tombstone]
  /\ count' = count - 1
  /\ UNCHANGED <<interning, capacity>>

\* table_delete of a key leaves a tombstone, and count as it is.
Bury(k) ==
  /\ entries' = [entries EXCEPT ![FindEntry(entries, capacity, k)] = Tombstone]
  /\ UNCHANGED <<interning, capacity, count>>

Keys == {entries[i].key : i \in DOMAIN entries} \ {NoKey}
Holds(k) == count > 0 /\ entries[FindEntry(entries, capacity, k)].key # NoKey

-----------------------------------------------------------------------------
(***************************************************************************)
(* Operations.                                                             *)
(***************************************************************************)

Returns(op, arg, answer) == result' = [op |-> op, arg |-> arg, answer |-> answer]

Get(k) ==
  /\ pc = "idle"
  /\ ~interning
  /\ Returns("get", k, IF Holds(k) THEN entries[FindEntry(entries, capacity, k)].value ELSE NoKey)
  /\ UNCHANGED <<tableVars, pc, pending, white, pos, fresh>>

Delete(k) ==
  /\ pc = "idle"
  /\ ~interning
  /\ Returns("delete", k, Holds(k))
  /\ IF Holds(k) THEN Bury(k) ELSE UNCHANGED tableVars
  /\ UNCHANGED <<pc, pending, white, pos, fresh>>

\* table_set, and table_add_all of a table with these pairs.
Set(pairs) ==
  /\ pc = "idle"
  /\ ~interning
  /\ pc' = "set"
  /\ pending' = pairs
  /\ UNCHANGED <<tableVars, white, pos, fresh, result>>

\* copy_string and string_concat: find the string, or else add a new one.
Intern(k) ==
  /\ pc = "idle"
  /\ interning
  /\ k \notin Keys
  /\ Returns("find", Chars[k], FindString(Chars[k]))
  /\ IF FindString(Chars[k]) = NoKey
       THEN /\ pc' = "set"
            /\ pending' = <<[key |-> k, value |-> Nil]>>
       ELSE UNCHANGED <<pc, pending>>
  /\ UNCHANGED <<tableVars, white, pos, fresh>>

Overloaded == 4 * (count + 1) > 3 * capacity
GrowCapacity(n) == IF n < MinCapacity THEN MinCapacity ELSE 2 * n

\* Collection of some strings, in ALLOCATE of adjust_capacity or at any other
\* time.  The key being set is on the stack.
Collect(dead) ==
  /\ interning
  /\ dead # {} /\ dead \subseteq Keys
  /\ \/ pc = "idle"
     \/ pc = "set" /\ Overloaded /\ GrowCapacity(capacity) <= MaxCapacity
  /\ pc' = IF pc = "idle" THEN "remove" ELSE "remove_grow"
  /\ white' = dead
  /\ pos' = 0
  /\ UNCHANGED <<tableVars, pending, fresh, result>>

\* table_remove_white, one iteration, and its end.
RemoveStep ==
  /\ pc \in {"remove", "remove_grow"}
  /\ pos < capacity
  /\ IF entries[pos].key \in white THEN Bury(entries[pos].key) ELSE UNCHANGED tableVars
  /\ pos' = pos + 1
  /\ UNCHANGED <<pc, pending, white, fresh, result>>

StartGrow ==
  /\ pc' = "grow"
  /\ count' = 0
  /\ pos' = 0
  /\ fresh' = [i \in 0..(GrowCapacity(capacity) - 1) |-> Empty]
  /\ white' = {}
  /\ UNCHANGED <<interning, entries, capacity, pending, result>>

RemoveEnd ==
  /\ pos = capacity
  /\ \/ /\ pc = "remove"
        /\ pc' = "idle"
        /\ white' = {}
        /\ pos' = 0
        /\ UNCHANGED <<tableVars, pending, fresh, result>>
     \/ /\ pc = "remove_grow"
        /\ StartGrow

\* A slip of adjust_capacity: table->capacity is not set.
GrowEndForgetful ==
  /\ pc = "grow"
  /\ pos = capacity
  /\ entries' = fresh
  /\ pc' = "store"
  /\ pos' = 0
  /\ fresh' = [i \in 0..-1 |-> Empty]
  /\ UNCHANGED <<interning, capacity, count, pending, white, result>>

\* Another: the loop ends before the last entry.
GrowEndShort ==
  /\ pc = "grow"
  /\ pos + 1 >= capacity
  /\ entries' = fresh
  /\ capacity' = GrowCapacity(capacity)
  /\ pc' = "store"
  /\ pos' = 0
  /\ fresh' = [i \in 0..-1 |-> Empty]
  /\ UNCHANGED <<interning, count, pending, white, result>>

\* adjust_capacity: ALLOCATE without a collection, one iteration of the loop that
\* rehashes, and its end.
Grow ==
  /\ pc = "set"
  /\ Overloaded
  /\ GrowCapacity(capacity) <= MaxCapacity
  /\ StartGrow

Rehash ==
  /\ pc = "grow"
  /\ pos < capacity
  /\ IF entries[pos].key = NoKey
       THEN UNCHANGED <<fresh, count>>
       ELSE LET k == entries[pos].key
            IN  /\ fresh' = Put(fresh, FindEntry(fresh, GrowCapacity(capacity), k),
                                k, entries[pos].value)
                /\ count' = count + 1
  /\ pos' = pos + 1
  /\ UNCHANGED <<interning, entries, capacity, pc, pending, white, result>>

GrowEnd ==
  /\ pc = "grow"
  /\ pos = capacity
  /\ entries' = fresh
  /\ capacity' = GrowCapacity(capacity)
  /\ pc' = "store"
  /\ pos' = 0
  /\ fresh' = [i \in 0..-1 |-> Empty]
  /\ UNCHANGED <<interning, count, pending, white, result>>

\* A slip of table_set: a tombstone that is used again is counted again.
StoreCounting ==
  /\ pc = "store" \/ (pc = "set" /\ ~Overloaded)
  /\ LET k == Head(pending).key
         i == FindEntry(entries, capacity, k)
     IN  /\ entries' = Put(entries, i, k, Head(pending).value)
         /\ count' = IF entries[i].key = NoKey THEN count + 1 ELSE count
         /\ Returns("set", k, entries[i].key = NoKey)
  /\ pending' = Tail(pending)
  /\ pc' = IF Len(pending) = 1 THEN "idle" ELSE "set"
  /\ UNCHANGED <<interning, capacity, white, pos, fresh>>

\* The rest of table_set.
Store ==
  /\ pc = "store" \/ (pc = "set" /\ ~Overloaded)
  /\ LET k == Head(pending).key
         i == FindEntry(entries, capacity, k)
     IN  /\ entries' = Put(entries, i, k, Head(pending).value)
         /\ count' = IF entries[i] = Empty THEN count + 1 ELSE count
         /\ Returns("set", k, entries[i].key = NoKey)
  /\ pending' = Tail(pending)
  /\ pc' = IF Len(pending) = 1 THEN "idle" ELSE "set"
  /\ UNCHANGED <<interning, capacity, white, pos, fresh>>

Next ==
  \/ RemoveStep \/ RemoveEnd \/ Grow \/ Rehash \/ GrowEnd \/ Store
  \/ \E k \in Key : Intern(k)
  \/ \E k \in FieldKey : Get(k) \/ Delete(k)
  \/ \E k \in FieldKey, v \in Value : Set(<<[key |-> k, value |-> v]>>)
  \/ \E k, j \in FieldKey : k # j /\ Set(<<[key |-> k, value |-> Nil], [key |-> j, value |-> True]>>)
  \/ \E dead \in SUBSET Keys : Collect(dead)

Spec == Init /\ [][Next]_vars

-----------------------------------------------------------------------------
(***************************************************************************)
(* Properties.                                                             *)
(***************************************************************************)

Pcs == {"idle", "set", "remove", "remove_grow", "grow", "store"}

\* Every variable has its type; the entries are as many as the capacity says.
TypeOK ==
  /\ interning \in BOOLEAN /\ capacity \in Nat /\ count \in Nat /\ pos \in 0..capacity
  /\ entries \in [0..(capacity - 1) -> Entry]
  /\ pc \in Pcs
  /\ pending \in Seq([key : Key, value : Value])
  /\ white \subseteq Key
  /\ fresh \in [0..((IF pc = "grow" THEN GrowCapacity(capacity) ELSE 0) - 1) -> Entry]
  /\ result.op \in {"none", "get", "delete", "set", "find"}
  /\ result.answer \in Value \union Key \union {NoKey} \union BOOLEAN

\* Slots of es that are not empty: keys and tombstones.
Occupied(es) == {i \in DOMAIN es : es[i] # Empty}

\* find_entry and table_find_string loop until they meet an empty entry: there is
\* always one, in the table and in the one that adjust_capacity fills, however
\* many tombstones deletions have left.
ProbeEnds ==
  /\ capacity > 0 => Occupied(entries) # DOMAIN entries
  /\ pc = "grow" => Occupied(fresh) # DOMAIN fresh

\* count is the number of keys and tombstones: deletion keeps it, a store into a
\* tombstone keeps it, rehashing starts it again.
CountExact ==
  count = Cardinality(Occupied(IF pc = "grow" THEN fresh ELSE entries))

\* Every key is where a search for it ends, whatever was deleted or moved on the
\* way there; in particular no key is in the table twice.
Findable ==
  /\ \A i \in DOMAIN entries :
       entries[i].key # NoKey => FindEntry(entries, capacity, entries[i].key) = i
  /\ \A i \in DOMAIN fresh :
       fresh[i].key # NoKey => FindEntry(fresh, GrowCapacity(capacity), fresh[i].key) = i

\* Equal strings are one object: the comparison of two strings in the code
\* (find_entry, values_equal) is that of their addresses.
OneObjectPerText ==
  \A i, j \in DOMAIN entries :
    /\ entries[i].key # NoKey /\ entries[j].key # NoKey
    /\ Chars[entries[i].key] = Chars[entries[j].key]
    => i = j

\* The table is a dictionary (module Dictionary).  A table with a new string in
\* hand has it from the moment it is stored.  Growth loses no key; table_remove_white
\* takes out the unmarked strings and no other, and leaves none of them.
SlotOf(k) == CHOOSE i \in DOMAIN entries : entries[i].key = k

Dict ==
  INSTANCE Dictionary WITH
    Absent <- NoKey,
    weak <- interning,
    garbage <- white,
    dict <- [k \in Keys |-> entries[SlotOf(k)].value]

ImplementsDictionary == Dict!Spec

=============================================================================
