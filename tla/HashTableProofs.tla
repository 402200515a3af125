-------------------------- MODULE HashTableProofs ---------------------------
(***************************************************************************)
(* For any strings, hashes, values and capacities: in the tables of        *)
(* table.c each search ends, each key is where a search for it ends, count *)
(* is exact, equal strings are one object, and the table implements a      *)
(* dictionary (module Dictionary).                                         *)
(***************************************************************************)
EXTENDS HashTable, ProofLemmas

-----------------------------------------------------------------------------
(***************************************************************************)
(* The inductive invariant.                                                *)
(***************************************************************************)

\* A search for k meets slot i, and no empty slot before it.
Reached(es, cap, k, i) ==
  \E d \in 0..(cap - 1) :
    /\ Probe(Hash[Chars[k]], d, cap) = i
    /\ \A e \in 0..(d - 1) : es[Probe(Hash[Chars[k]], e, cap)] # Empty

\* No key is twice in es, and a search for a key gets as far as its slot.
Sound(es, cap) ==
  /\ es \in [0..(cap - 1) -> Entry]
  /\ \A i, j \in 0..(cap - 1) : es[i].key # NoKey /\ es[i].key = es[j].key => i = j
  /\ \A i \in 0..(cap - 1) : es[i].key # NoKey => Reached(es, cap, es[i].key, i)

HasEmpty(es, cap) == cap > 0 => \E i \in 0..(cap - 1) : es[i] = Empty

\* The first n entries of es have been rehashed into new.
Moved(es, n, new, cap) ==
  /\ \A i \in 0..(n - 1) : es[i].key # NoKey => \E j \in 0..(cap - 1) : new[j] = es[i]
  /\ \A j \in 0..(cap - 1) :
       new[j] = Empty \/ (new[j].key # NoKey /\ \E i \in 0..(n - 1) : new[j] = es[i])

\* adjust_capacity in progress: the new entries have room for what is still to move.
GrowInv ==
  pc = "grow" =>
    /\ Sound(fresh, GrowCapacity(capacity))
    /\ HasEmpty(fresh, GrowCapacity(capacity))
    /\ Moved(entries, pos, fresh, GrowCapacity(capacity))
    /\ count <= pos

\* After adjust_capacity the table has room for one more key than it needs.
StoreInv == pc = "store" => count + 1 < capacity

\* table_set has a pair to set; in the table of strings, one string of new characters.
PendingInv ==
  pc \in {"set", "remove_grow", "grow", "store"} =>
    /\ pending # <<>>
    /\ interning =>
         /\ Len(pending) = 1
         /\ \A i \in 0..(capacity - 1) :
              entries[i].key # NoKey => Chars[entries[i].key] # Chars[pending[1].key]

\* The keys of a table of fields or messages are interned strings.
FieldInv ==
  ~interning =>
    /\ pending \in Seq([key : FieldKey, value : Value])
    /\ \A i \in 0..(capacity - 1) : entries[i].key \in FieldKey \union {NoKey}

\* The collector's strings are no longer in the entries that table_remove_white has
\* looked at; when it is not at work there are none.
WhiteInv ==
  /\ pc \notin {"remove", "remove_grow"} => white = {}
  /\ \A i \in 0..(pos - 1) : entries[i].key \notin white

IInv ==
  /\ TypeOK
  /\ Sound(entries, capacity)
  /\ HasEmpty(entries, capacity)
  /\ CountExact
  /\ capacity = 0 \/ capacity >= MinCapacity
  /\ OneObjectPerText
  /\ GrowInv /\ StoreInv /\ PendingInv /\ FieldInv /\ WhiteInv

-----------------------------------------------------------------------------
(***************************************************************************)
(* Probes.                                                                 *)
(***************************************************************************)

\* Euclidean division, which the next lemmas use without its definition.
LEMMA Division ==
  ASSUME NEW h \in Nat, NEW cap \in Nat, cap > 0
  PROVE  /\ h = cap * (h \div cap) + (h % cap)
         /\ h \div cap \in Nat /\ h % cap \in 0..(cap - 1)
OBVIOUS

\* A number of this form has this remainder.
LEMMA Remainder ==
  ASSUME NEW q \in Nat, NEW r \in Nat, NEW cap \in Nat, r < cap
  PROVE  (cap * q + r) % cap = r
OBVIOUS

\* A probe is the index of an entry.
LEMMA ProbeInRange ==
  ASSUME NEW h \in Nat, NEW cap \in Nat, NEW d \in Nat, cap > 0
  PROVE  Probe(h, d, cap) \in 0..(cap - 1)
BY Division DEF Probe

\* A search that goes on for long enough looks at every entry.
LEMMA ProbeReachesAll ==
  ASSUME NEW h \in Nat, NEW cap \in Nat, NEW i \in 0..(cap - 1)
  PROVE  \E d \in 0..(cap - 1) : Probe(h, d, cap) = i
<1>. DEFINE q == h \div cap
            r == h % cap
<1>1. h = cap * q + r /\ q \in Nat /\ r \in 0..(cap - 1)
  BY Division
<1>. HIDE DEF q, r
<1>2. CASE r <= i
  <2>1. (i - r) \in 0..(cap - 1) /\ h + (i - r) = cap * q + i
    BY <1>1, <1>2
  <2>2. (cap * q + i) % cap = i
    BY <1>1, Remainder
  <2>. QED BY <2>1, <2>2 DEF Probe
<1>3. CASE i < r
  <2>1. (i + cap - r) \in 0..(cap - 1) /\ h + (i + cap - r) = cap * (q + 1) + i
    BY <1>1, <1>3
  <2>2. (cap * (q + 1) + i) % cap = i
    BY <1>1, Remainder
  <2>. QED BY <2>1, <2>2 DEF Probe
<1>. QED BY <1>1, <1>2, <1>3

-----------------------------------------------------------------------------
(***************************************************************************)
(* Searches.                                                               *)
(***************************************************************************)

\* What the entries of a table are made of, and what tells them apart.
LEMMA EntryTypes ==
  /\ Empty \in Entry /\ Tombstone \in Entry /\ Tombstone # Empty
  /\ Empty.key = NoKey /\ Tombstone.key = NoKey
  /\ \A e \in Entry : e.key \in Key \union {NoKey} /\ e.value \in Value
  /\ \A k \in Key, v \in Value : [key |-> k, value |-> v] \in Entry
  /\ \A k \in Key : k # NoKey /\ Chars[k] \in Text /\ Hash[Chars[k]] \in Nat
BY KeyAssumption, ValueAssumption DEF Entry, Empty, Tombstone

\* The d-th entry that find_entry looks at, and whether it stops there.
At(k, d, cap) == Probe(Hash[Chars[k]], d, cap)
Stops(es, cap, k, d) == es[At(k, d, cap)] = Empty \/ es[At(k, d, cap)].key = k

\* Tombstones among the first n entries on the way.
Passed(es, cap, k, n) == {d \in 0..(n - 1) : es[At(k, d, cap)].key = NoKey}

\* If the search can stop it does, at the first place where it can.
LEMMA FindEntryStops ==
  ASSUME NEW cap \in Nat, NEW es, NEW k,
         NEW stop \in 0..(cap - 1), Stops(es, cap, k, stop)
  PROVE  \E end \in 0..(cap - 1) :
           /\ end <= stop
           /\ Stops(es, cap, k, end)
           /\ \A e \in 0..(end - 1) : ~Stops(es, cap, k, e)
           /\ FindEntry(es, cap, k) =
                IF es[At(k, end, cap)].key = k \/ Passed(es, cap, k, end) = {}
                  THEN At(k, end, cap)
                  ELSE At(k, Min(Passed(es, cap, k, end)), cap)
<1>. DEFINE S == {d \in 0..(cap - 1) : Stops(es, cap, k, d)}
            end == CHOOSE d \in 0..(cap - 1) :
                     Stops(es, cap, k, d) /\ \A e \in 0..(d - 1) : ~Stops(es, cap, k, e)
<1>1. FindEntry(es, cap, k) =
        IF es[At(k, end, cap)].key = k \/ Passed(es, cap, k, end) = {}
          THEN At(k, end, cap)
          ELSE At(k, Min(Passed(es, cap, k, end)), cap)
  BY DEF FindEntry, Stops, Passed, At
<1>2. PICK n \in S : \A m \in S : n <= m
  <2>1. S \in SUBSET Nat /\ S # {}
    OBVIOUS
  <2>. HIDE DEF S
  <2>. QED BY <2>1, LeastElement
<1>3. n \in 0..(cap - 1) /\ Stops(es, cap, k, n) /\ \A e \in 0..(n - 1) : ~Stops(es, cap, k, e)
  BY <1>2
<1>4. /\ end \in 0..(cap - 1) /\ Stops(es, cap, k, end)
      /\ \A e \in 0..(end - 1) : ~Stops(es, cap, k, e)
  BY <1>3
<1>5. end <= stop
  <2>. HIDE DEF end
  <2>. QED BY <1>4
<1>. HIDE DEF end
<1>. QED BY <1>1, <1>4, <1>5

\* Every place that find_entry looks at is an entry.
LEMMA AtInRange ==
  ASSUME NEW k \in Key, NEW cap \in Nat, NEW d \in 0..(cap - 1)
  PROVE  At(k, d, cap) \in 0..(cap - 1)
BY EntryTypes, ProbeInRange DEF At

\* A search for a key of the table ends at its slot.
LEMMA FindEntryPresent ==
  ASSUME NEW cap \in Nat, NEW es, Sound(es, cap),
         NEW i \in 0..(cap - 1), es[i].key # NoKey
  PROVE  FindEntry(es, cap, es[i].key) = i
<1>. DEFINE k == es[i].key
<1>1. k \in Key
  BY EntryTypes DEF Sound
<1>2. PICK d \in 0..(cap - 1) : At(k, d, cap) = i /\ \A e \in 0..(d - 1) : es[At(k, e, cap)] # Empty
  BY DEF Sound, Reached, At
<1>3. Stops(es, cap, k, d)
  BY <1>2 DEF Stops
<1>. HIDE DEF k
<1>4. PICK end \in 0..(cap - 1) :
           /\ end <= d
           /\ Stops(es, cap, k, end)
           /\ FindEntry(es, cap, k) =
                IF es[At(k, end, cap)].key = k \/ Passed(es, cap, k, end) = {}
                  THEN At(k, end, cap)
                  ELSE At(k, Min(Passed(es, cap, k, end)), cap)
  BY <1>3, FindEntryStops
<1>5. es[At(k, end, cap)].key = k
  <2>1. CASE end = d
    BY <2>1, <1>2 DEF k
  <2>2. CASE end < d
    BY <2>2, <1>2, <1>4 DEF Stops
  <2>. QED BY <1>4, <2>1, <2>2
<1>6. At(k, end, cap) = i
  BY <1>1, <1>5, AtInRange DEF Sound, k
<1>. QED BY <1>4, <1>5, <1>6 DEF k

\* A search for another key ends, at a slot without a key that a later search for it reaches.
LEMMA FindEntryAbsent ==
  ASSUME NEW cap \in Nat, cap > 0, NEW es, es \in [0..(cap - 1) -> Entry], HasEmpty(es, cap),
         NEW k \in Key, \A i \in 0..(cap - 1) : es[i].key # k
  PROVE  LET i == FindEntry(es, cap, k)
         IN  i \in 0..(cap - 1) /\ es[i].key = NoKey /\ Reached(es, cap, k, i)
<1>1. PICK hole \in 0..(cap - 1) : es[hole] = Empty
  BY DEF HasEmpty
<1>2. PICK stop \in 0..(cap - 1) : At(k, stop, cap) = hole
  BY EntryTypes, ProbeReachesAll DEF At
<1>3. Stops(es, cap, k, stop)
  BY <1>1, <1>2 DEF Stops
<1>4. PICK end \in 0..(cap - 1) :
           /\ Stops(es, cap, k, end)
           /\ \A e \in 0..(end - 1) : ~Stops(es, cap, k, e)
           /\ FindEntry(es, cap, k) =
                IF es[At(k, end, cap)].key = k \/ Passed(es, cap, k, end) = {}
                  THEN At(k, end, cap)
                  ELSE At(k, Min(Passed(es, cap, k, end)), cap)
  BY <1>3, FindEntryStops
<1>5. \A d \in 0..(cap - 1) : At(k, d, cap) \in 0..(cap - 1)
  BY AtInRange
<1>6. \A e \in 0..(end - 1) : es[At(k, e, cap)] # Empty
  BY <1>4 DEF Stops
<1>7. es[At(k, end, cap)] = Empty
  BY <1>4, <1>5 DEF Stops
<1>8. CASE Passed(es, cap, k, end) = {}
  <2>1. FindEntry(es, cap, k) = At(k, end, cap)
    BY <1>4, <1>8
  <2>. QED BY <2>1, <1>5, <1>6, <1>7, EntryTypes DEF Reached, At
<1>9. CASE Passed(es, cap, k, end) # {}
  <2>. DEFINE m == Min(Passed(es, cap, k, end))
  <2>1. m \in Passed(es, cap, k, end)
    <3>1. Passed(es, cap, k, end) \in SUBSET Nat
      BY DEF Passed
    <3>2. PICK n \in Passed(es, cap, k, end) : \A d \in Passed(es, cap, k, end) : n <= d
      BY <1>9, <3>1, LeastElement
    <3>. QED BY <3>2 DEF Min
  <2>. HIDE DEF m
  <2>2. m \in 0..(cap - 1) /\ m < end /\ es[At(k, m, cap)].key = NoKey
    BY <2>1 DEF Passed
  <2>3. FindEntry(es, cap, k) = At(k, m, cap)
    <3>1. es[At(k, end, cap)].key # k
      BY <1>5
    <3>. QED BY <1>4, <1>9, <3>1 DEF m
  <2>4. \A e \in 0..(m - 1) : es[At(k, e, cap)] # Empty
    BY <2>2, <1>6
  <2>. QED BY <2>2, <2>3, <2>4, <1>5 DEF Reached, At
<1>. QED BY <1>8, <1>9

\* The same for a search by text, in the table itself.
AtText(t, d) == Probe(Hash[t], d, capacity)
Hit(t, d) == entries[AtText(t, d)].key # NoKey /\ Chars[entries[AtText(t, d)].key] = t
StopsText(t, d) == entries[AtText(t, d)] = Empty \/ Hit(t, d)

\* table_find_string stops at the first place where it can.
LEMMA FindStringStops ==
  ASSUME capacity \in Nat, NEW t, count # 0,
         NEW stop \in 0..(capacity - 1), StopsText(t, stop)
  PROVE  \E end \in 0..(capacity - 1) :
           /\ end <= stop
           /\ StopsText(t, end)
           /\ FindString(t) = entries[AtText(t, end)].key
<1>. DEFINE S == {d \in 0..(capacity - 1) : StopsText(t, d)}
            end == CHOOSE d \in 0..(capacity - 1) :
                     StopsText(t, d) /\ \A e \in 0..(d - 1) : ~StopsText(t, e)
<1>1. FindString(t) = entries[AtText(t, end)].key
  BY DEF FindString, StopsText, Hit, AtText
<1>2. PICK n \in S : \A m \in S : n <= m
  <2>1. S \in SUBSET Nat /\ S # {}
    OBVIOUS
  <2>. HIDE DEF S
  <2>. QED BY <2>1, LeastElement
<1>3. n \in 0..(capacity - 1) /\ StopsText(t, n) /\ \A e \in 0..(n - 1) : ~StopsText(t, e)
  BY <1>2
<1>4. /\ end \in 0..(capacity - 1) /\ StopsText(t, end)
      /\ \A e \in 0..(end - 1) : ~StopsText(t, e)
  BY <1>3
<1>5. end <= stop
  <2>. HIDE DEF end
  <2>. QED BY <1>4
<1>. HIDE DEF end
<1>. QED BY <1>1, <1>4, <1>5

\* table_find_string returns the string of this text, or NULL if the table has none.
LEMMA FindStringExact ==
  ASSUME capacity \in Nat, Sound(entries, capacity), HasEmpty(entries, capacity),
         count = 0 => \A i \in 0..(capacity - 1) : entries[i] = Empty,
         capacity = 0 => count = 0,
         NEW t \in Text
  PROVE  \/ /\ FindString(t) = NoKey
            /\ \A i \in 0..(capacity - 1) :
                 entries[i].key # NoKey => Chars[entries[i].key] # t
         \/ \E i \in 0..(capacity - 1) :
              /\ FindString(t) = entries[i].key
              /\ entries[i].key # NoKey /\ Chars[entries[i].key] = t
<1>1. CASE count = 0
  BY <1>1, EntryTypes DEF FindString
<1>2. CASE count # 0
  <2>1. capacity > 0 /\ Hash[t] \in Nat
    BY <1>2, KeyAssumption
  <2>2. PICK hole \in 0..(capacity - 1) : entries[hole] = Empty
    BY <2>1 DEF HasEmpty
  <2>3. PICK stop \in 0..(capacity - 1) : AtText(t, stop) = hole
    BY <2>1, ProbeReachesAll DEF AtText
  <2>4. StopsText(t, stop)
    BY <2>2, <2>3 DEF StopsText
  <2>5. PICK end \in 0..(capacity - 1) :
          StopsText(t, end) /\ FindString(t) = entries[AtText(t, end)].key
    BY <1>2, <2>4, FindStringStops
  <2>6. AtText(t, end) \in 0..(capacity - 1)
    BY <2>1, end \in Nat, ProbeInRange DEF AtText
  <2>7. CASE Hit(t, end)
    BY <2>5, <2>6, <2>7 DEF Hit
  <2>8. CASE ~Hit(t, end)
    <3>1. FindString(t) = NoKey
      BY <2>5, <2>8, EntryTypes DEF StopsText
    <3>2. ASSUME NEW i \in 0..(capacity - 1), entries[i].key # NoKey, Chars[entries[i].key] = t
          PROVE  FALSE
      <4>1. PICK d \in 0..(capacity - 1) :
              AtText(t, d) = i /\ \A e \in 0..(d - 1) : entries[AtText(t, e)] # Empty
        BY <3>2 DEF Sound, Reached, AtText
      <4>2. StopsText(t, d)
        BY <3>2, <4>1 DEF StopsText, Hit
      <4>3. PICK last \in 0..(capacity - 1) :
              last <= d /\ StopsText(t, last) /\ FindString(t) = entries[AtText(t, last)].key
        BY <1>2, <4>2, FindStringStops
      <4>4. entries[AtText(t, last)].key # NoKey
        <5>1. CASE last = d
          BY <5>1, <4>1, <3>2
        <5>2. CASE last < d
          BY <5>2, <4>1, <4>3 DEF StopsText, Hit
        <5>. QED BY <4>3, <5>1, <5>2
      <4>. QED BY <3>1, <4>3, <4>4
    <3>. QED BY <3>1, <3>2
  <2>. QED BY <2>7, <2>8
<1>. QED BY <1>1, <1>2

-----------------------------------------------------------------------------
(***************************************************************************)
(* Stores, deletions and the count.                                        *)
(***************************************************************************)

\* What is not empty stays so: then no search is cut short.
LEMMA ReachedKept ==
  ASSUME NEW cap \in Nat, NEW es, NEW new, NEW k \in Key, NEW i, Reached(es, cap, k, i),
         \A j \in 0..(cap - 1) : es[j] # Empty => new[j] # Empty
  PROVE  Reached(new, cap, k, i)
<1>1. PICK d \in 0..(cap - 1) :
        At(k, d, cap) = i /\ \A e \in 0..(d - 1) : es[At(k, e, cap)] # Empty
  BY DEF Reached, At
<1>2. \A e \in 0..(d - 1) : At(k, e, cap) \in 0..(cap - 1)
  BY AtInRange
<1>. QED BY <1>1, <1>2 DEF Reached, At

\* A pair goes to the slot of its key, or to one where the key will be found.
LEMMA PutSound ==
  ASSUME NEW cap \in Nat, NEW es, Sound(es, cap), NEW k \in Key, NEW v \in Value,
         NEW i \in 0..(cap - 1),
         \/ es[i].key = k
         \/ /\ \A j \in 0..(cap - 1) : es[j].key # k
            /\ es[i].key = NoKey
            /\ Reached(es, cap, k, i)
  PROVE  Sound(Put(es, i, k, v), cap)
<1>. DEFINE new == Put(es, i, k, v)
            e == [key |-> k, value |-> v]
<1>1. e \in Entry /\ e # Empty /\ e.key = k /\ k # NoKey
  BY EntryTypes
<1>2. /\ new \in [0..(cap - 1) -> Entry] /\ new[i] = e
      /\ \A j \in 0..(cap - 1) : j # i => new[j] = es[j]
  BY <1>1 DEF Sound, Put
<1>. HIDE DEF new, e
<1>3. \A j \in 0..(cap - 1) : es[j] # Empty => new[j] # Empty
  BY <1>1, <1>2
<1>4. Reached(es, cap, k, i)
  BY <1>1 DEF Sound
<1>5. ASSUME NEW j \in 0..(cap - 1), new[j].key # NoKey
      PROVE  Reached(new, cap, new[j].key, j)
  <2>1. CASE j = i
    BY <2>1, <1>1, <1>2, <1>3, <1>4, ReachedKept
  <2>2. CASE j # i
    <3>1. es[j].key \in Key /\ Reached(es, cap, es[j].key, j) /\ new[j] = es[j]
      BY <1>2, <1>5, <2>2, EntryTypes DEF Sound
    <3>. QED BY <3>1, <1>3, ReachedKept
  <2>. QED BY <2>1, <2>2
<1>6. ASSUME NEW j \in 0..(cap - 1), NEW m \in 0..(cap - 1),
             new[j].key # NoKey, new[j].key = new[m].key
      PROVE  j = m
  BY <1>1, <1>2, <1>6 DEF Sound
<1>. QED BY <1>2, <1>5, <1>6 DEF Sound, new, e

\* A tombstone in the place of a key cuts no search short.
LEMMA BurySound ==
  ASSUME NEW cap \in Nat, NEW es, Sound(es, cap), HasEmpty(es, cap),
         NEW i \in 0..(cap - 1), es[i].key # NoKey
  PROVE  LET new == [es EXCEPT ![i] = Tombstone]
         IN  /\ Sound(new, cap) /\ HasEmpty(new, cap) /\ Occupied(new) = Occupied(es)
             /\ new[i] = Tombstone
             /\ \A j \in 0..(cap - 1) : j # i => new[j] = es[j]
<1>. DEFINE new == [es EXCEPT ![i] = Tombstone]
<1>1. /\ new \in [0..(cap - 1) -> Entry] /\ new[i] = Tombstone
      /\ \A j \in 0..(cap - 1) : j # i => new[j] = es[j]
  BY EntryTypes DEF Sound
<1>. HIDE DEF new
<1>2. \A j \in 0..(cap - 1) : es[j] # Empty <=> new[j] # Empty
  BY <1>1, EntryTypes
<1>3. HasEmpty(new, cap)
  BY <1>2 DEF HasEmpty
<1>4. Occupied(new) = Occupied(es)
  BY <1>1, <1>2 DEF Occupied, Sound
<1>5. ASSUME NEW j \in 0..(cap - 1), new[j].key # NoKey
      PROVE  Reached(new, cap, new[j].key, j)
  <2>1. j # i
    BY <1>1, <1>5, EntryTypes
  <2>2. es[j].key \in Key /\ Reached(es, cap, es[j].key, j) /\ new[j] = es[j]
    BY <1>1, <1>5, <2>1, EntryTypes DEF Sound
  <2>. QED BY <2>2, <1>2, ReachedKept
<1>6. ASSUME NEW j \in 0..(cap - 1), NEW m \in 0..(cap - 1),
             new[j].key # NoKey, new[j].key = new[m].key
      PROVE  j = m
  BY <1>1, <1>6, EntryTypes DEF Sound
<1>. QED BY <1>1, <1>3, <1>4, <1>5, <1>6 DEF Sound, new

\* Counting the occupied entries: none, some room, no more than there are.
LEMMA OccupiedSize ==
  ASSUME NEW cap \in Nat, NEW es, es \in [0..(cap - 1) -> Entry]
  PROVE  /\ Occupied(es) \subseteq 0..(cap - 1)
         /\ IsFiniteSet(Occupied(es)) /\ Cardinality(Occupied(es)) \in Nat
         /\ Cardinality(Occupied(es)) = 0 => \A i \in 0..(cap - 1) : es[i] = Empty
         /\ Cardinality(Occupied(es)) < cap => HasEmpty(es, cap)
         /\ HasEmpty(es, cap) => Cardinality(Occupied(es)) <= cap
<1>1. Occupied(es) \subseteq 0..(cap - 1)
  BY DEF Occupied
<1>2. IsFiniteSet(0..(cap - 1)) /\ Cardinality(0..(cap - 1)) = cap
  BY FS_Interval
<1>3. /\ IsFiniteSet(Occupied(es)) /\ Cardinality(Occupied(es)) \in Nat
      /\ Cardinality(Occupied(es)) <= cap
      /\ Cardinality(Occupied(es)) < cap => Occupied(es) # 0..(cap - 1)
  BY <1>1, <1>2, FS_Subset, FS_CardinalityType
<1>4. Cardinality(Occupied(es)) = 0 => Occupied(es) = {}
  BY <1>3, FS_EmptySet
<1>. QED BY <1>1, <1>3, <1>4 DEF Occupied, HasEmpty

\* One slot more is occupied if the pair was put in an empty one.
LEMMA PutOccupied ==
  ASSUME NEW cap \in Nat, NEW es, es \in [0..(cap - 1) -> Entry],
         NEW k \in Key, NEW v \in Value, NEW i \in 0..(cap - 1)
  PROVE  Cardinality(Occupied(Put(es, i, k, v))) =
           IF es[i] = Empty THEN Cardinality(Occupied(es)) + 1 ELSE Cardinality(Occupied(es))
<1>1. [key |-> k, value |-> v] # Empty
  BY EntryTypes
<1>2. Occupied(Put(es, i, k, v)) = Occupied(es) \union {i}
  BY <1>1 DEF Occupied, Put
<1>3. i \in Occupied(es) <=> es[i] # Empty
  BY DEF Occupied
<1>4. CASE es[i] = Empty
  BY <1>2, <1>3, <1>4, OccupiedSize, FS_AddElement
<1>5. CASE es[i] # Empty
  <2>1. Occupied(es) \union {i} = Occupied(es)
    BY <1>3, <1>5
  <2>. QED BY <1>2, <1>5, <2>1
<1>. QED BY <1>4, <1>5

-----------------------------------------------------------------------------
(***************************************************************************)
(* The invariant, one operation at a time.                                 *)
(***************************************************************************)

\* GROW_CAPACITY gives room for one more entry, and for two once there are any.
LEMMA GrowCapacityGrows ==
  ASSUME NEW n \in Nat
  PROVE  /\ GrowCapacity(n) \in Nat /\ n < GrowCapacity(n) /\ MinCapacity <= GrowCapacity(n)
         /\ MinCapacity <= n => n + 1 < GrowCapacity(n)
BY CapacityAssumption DEF GrowCapacity

\* The types of the variables, and the capacity that adjust_capacity would choose.
LEMMA TypeFacts ==
  ASSUME IInv
  PROVE  /\ capacity \in Nat /\ count \in Nat /\ pos \in 0..capacity /\ pos \in Nat
         /\ entries \in [0..(capacity - 1) -> Entry] /\ DOMAIN entries = 0..(capacity - 1)
         /\ pc # "grow" => fresh \in [0..-1 -> Entry]
         /\ pc = "grow" => fresh \in [0..(GrowCapacity(capacity) - 1) -> Entry]
         /\ GrowCapacity(capacity) \in Nat /\ capacity < GrowCapacity(capacity)
<1>1. /\ capacity \in Nat /\ count \in Nat /\ pos \in 0..capacity
      /\ entries \in [0..(capacity - 1) -> Entry]
      /\ fresh \in [0..((IF pc = "grow" THEN GrowCapacity(capacity) ELSE 0) - 1) -> Entry]
  BY DEF IInv, TypeOK
<1>2. pos \in Nat /\ DOMAIN entries = 0..(capacity - 1) /\ 0 - 1 = -1
  BY <1>1
<1>3. GrowCapacity(capacity) \in Nat /\ capacity < GrowCapacity(capacity)
  BY <1>1, GrowCapacityGrows
<1>4. CASE pc = "grow"
  BY <1>1, <1>2, <1>3, <1>4
<1>5. CASE pc # "grow"
  BY <1>1, <1>2, <1>3, <1>5
<1>. QED BY <1>4, <1>5

\* The type of a step that does not rehash.
LEMMA TypeStep ==
  ASSUME IInv, pc # "grow", pc' \in Pcs \ {"grow"}, UNCHANGED <<interning, capacity, fresh>>,
         entries' \in [0..(capacity - 1) -> Entry], count' \in Nat, pos' \in 0..capacity,
         pending' \in Seq([key : Key, value : Value]), white' \subseteq Key,
         result'.op \in {"none", "get", "delete", "set", "find"},
         result'.answer \in Value \union Key \union {NoKey} \union BOOLEAN
  PROVE  TypeOK'
<1>1. capacity \in Nat /\ fresh \in [0..-1 -> Entry] /\ 0 - 1 = -1 /\ interning \in BOOLEAN
  BY TypeFacts DEF IInv, TypeOK
<1>. QED BY <1>1 DEF TypeOK

\* What count says of the table when it is not being rehashed.
LEMMA CountMeans ==
  ASSUME IInv, pc # "grow"
  PROVE  /\ capacity \in Nat /\ count \in Nat
         /\ count = Cardinality(Occupied(entries)) /\ count <= capacity
         /\ count = 0 => \A i \in 0..(capacity - 1) : entries[i] = Empty
BY OccupiedSize DEF IInv, TypeOK, CountExact

\* A key is held when it is in the table, and its slot is the one that is found.
LEMMA HoldsIsMembership ==
  ASSUME IInv, pc # "grow", NEW k \in Key
  PROVE  /\ Holds(k) => \E i \in 0..(capacity - 1) :
                          FindEntry(entries, capacity, k) = i /\ entries[i].key = k
         /\ ~Holds(k) => \A i \in 0..(capacity - 1) : entries[i].key # k
<1>1. /\ capacity \in Nat /\ count \in Nat /\ count <= capacity
      /\ count = 0 => \A i \in 0..(capacity - 1) : entries[i] = Empty
  BY CountMeans
<1>2. /\ Sound(entries, capacity) /\ HasEmpty(entries, capacity)
      /\ entries \in [0..(capacity - 1) -> Entry]
  BY DEF IInv, Sound
<1>3. ASSUME NEW i \in 0..(capacity - 1), entries[i].key = k
      PROVE  Holds(k) /\ FindEntry(entries, capacity, k) = i
  <2>1. k # NoKey /\ entries[i] # Empty
    BY <1>3, EntryTypes
  <2>2. count > 0
    BY <1>1, <2>1
  <2>3. FindEntry(entries, capacity, k) = i
    BY <1>1, <1>2, <1>3, <2>1, FindEntryPresent
  <2>. QED BY <1>3, <2>1, <2>2, <2>3 DEF Holds
<1>4. ASSUME \A i \in 0..(capacity - 1) : entries[i].key # k
      PROVE  ~Holds(k)
  <2>1. SUFFICES ASSUME count > 0 PROVE entries[FindEntry(entries, capacity, k)].key = NoKey
    BY DEF Holds
  <2>. QED BY <1>1, <1>2, <1>4, <2>1, FindEntryAbsent
<1>. QED BY <1>3, <1>4

\* A new table is empty.
LEMMA InitInv == Init => IInv
<1>. SUFFICES ASSUME Init PROVE IInv
  OBVIOUS
<1>1. entries \in [0..-1 -> Entry] /\ fresh \in [0..-1 -> Entry] /\ 0..-1 = {}
  BY EntryTypes DEF Init
<1>2. TypeOK
  BY <1>1 DEF Init, TypeOK, Pcs
<1>3. Sound(entries, capacity) /\ HasEmpty(entries, capacity)
  BY <1>1 DEF Init, Sound, HasEmpty
<1>4. CountExact
  <2>1. Occupied(entries) = {}
    BY <1>1 DEF Occupied
  <2>. QED BY <2>1, FS_EmptySet DEF Init, CountExact
<1>5. OneObjectPerText
  BY <1>1 DEF Init, OneObjectPerText
<1>6. GrowInv /\ StoreInv /\ PendingInv /\ FieldInv /\ WhiteInv
  BY <1>1 DEF Init, GrowInv, StoreInv, PendingInv, FieldInv, WhiteInv
<1>. QED BY <1>2, <1>3, <1>4, <1>5, <1>6 DEF Init, IInv

\* Steps that leave the table and the operation as they are.
LEMMA SameTable ==
  ASSUME IInv, UNCHANGED <<tableVars, pc, pending, white, pos, fresh>>,
         result'.op \in {"none", "get", "delete", "set", "find"},
         result'.answer \in Value \union Key \union {NoKey} \union BOOLEAN
  PROVE  IInv'
<1>1. TypeOK'
  BY DEF IInv, TypeOK, tableVars
<1>2. (Sound(entries, capacity) /\ HasEmpty(entries, capacity))'
  <2>1. Sound(entries, capacity) /\ HasEmpty(entries, capacity) /\ UNCHANGED <<entries, capacity>>
    BY DEF IInv, tableVars
  <2>. QED BY <2>1 DEF Sound, HasEmpty, Reached
<1>3. CountExact' /\ OneObjectPerText'
  BY DEF IInv, tableVars, CountExact, Occupied, OneObjectPerText
<1>4. GrowInv' /\ StoreInv'
  BY DEF IInv, tableVars, GrowInv, StoreInv, Sound, HasEmpty, Reached, Moved, GrowCapacity
<1>5. PendingInv' /\ FieldInv' /\ WhiteInv'
  BY DEF IInv, tableVars, PendingInv, FieldInv, WhiteInv
<1>. QED BY <1>1, <1>2, <1>3, <1>4, <1>5 DEF IInv, tableVars

\* table_get changes nothing.
LEMMA GetInv ==
  ASSUME IInv, NEW k \in FieldKey, Get(k)
  PROVE  IInv'
<1>1. k \in Key /\ pc # "grow"
  BY FieldKeyAssumption DEF Get
<1>2. (IF Holds(k) THEN entries[FindEntry(entries, capacity, k)].value ELSE NoKey)
        \in Value \union {NoKey}
  <2>1. CASE Holds(k)
    <3>1. PICK i \in 0..(capacity - 1) : FindEntry(entries, capacity, k) = i
      BY <1>1, <2>1, HoldsIsMembership
    <3>2. entries[i] \in Entry
      BY DEF IInv, Sound
    <3>. QED BY <2>1, <3>1, <3>2, EntryTypes
  <2>. QED BY <2>1
<1>. QED BY <1>2, SameTable DEF Get, Returns

\* table_delete of the key at slot i, alone or in table_remove_white.
LEMMA BuryInv ==
  ASSUME IInv, pc # "grow", pc' # "grow", pc # "store", pc' # "store",
         NEW i \in 0..(capacity - 1), entries[i].key # NoKey, Bury(entries[i].key)
  PROVE  /\ (Sound(entries, capacity) /\ HasEmpty(entries, capacity) /\ CountExact)'
         /\ OneObjectPerText' /\ GrowInv' /\ StoreInv'
         /\ capacity' = capacity /\ count' = count /\ interning' = interning
         /\ entries'[i] = Tombstone
         /\ \A j \in 0..(capacity - 1) : j # i => entries'[j] = entries[j]
<1>1. capacity \in Nat /\ Sound(entries, capacity) /\ HasEmpty(entries, capacity)
  BY DEF IInv, TypeOK
<1>2. FindEntry(entries, capacity, entries[i].key) = i
  BY <1>1, FindEntryPresent
<1>3. /\ entries' = [entries EXCEPT ![i] = Tombstone]
      /\ capacity' = capacity /\ count' = count /\ interning' = interning
  BY <1>2 DEF Bury
<1>4. /\ Sound(entries', capacity) /\ HasEmpty(entries', capacity)
      /\ Occupied(entries') = Occupied(entries)
      /\ entries'[i] = Tombstone
      /\ \A j \in 0..(capacity - 1) : j # i => entries'[j] = entries[j]
  <2>. DEFINE buried == [entries EXCEPT ![i] = Tombstone]
  <2>1. /\ Sound(buried, capacity) /\ HasEmpty(buried, capacity)
        /\ Occupied(buried) = Occupied(entries)
    BY <1>1, BurySound
  <2>2. buried[i] = Tombstone /\ \A j \in 0..(capacity - 1) : j # i => buried[j] = entries[j]
    BY <1>1 DEF Sound
  <2>. QED BY <1>3, <2>1, <2>2
<1>5. CountExact'
  BY <1>3, <1>4, CountMeans DEF CountExact
<1>6. (Sound(entries, capacity) /\ HasEmpty(entries, capacity))'
  BY <1>3, <1>4
<1>7. OneObjectPerText'
  <2>1. DOMAIN entries' = 0..(capacity - 1) /\ DOMAIN entries = 0..(capacity - 1)
    BY <1>1, <1>4 DEF Sound
  <2>. QED BY <1>4, <2>1, EntryTypes DEF OneObjectPerText, IInv
<1>. QED BY <1>3, <1>4, <1>5, <1>6, <1>7 DEF GrowInv, StoreInv

\* table_delete buries the key if it is held.
LEMMA DeleteInv ==
  ASSUME IInv, NEW k \in FieldKey, Delete(k)
  PROVE  IInv'
<1>1. k \in Key /\ k # NoKey /\ pc = "idle" /\ Holds(k) \in BOOLEAN
  BY FieldKeyAssumption, EntryTypes DEF Delete, Holds
<1>2. CASE ~Holds(k)
  BY <1>1, <1>2, SameTable DEF Delete, Returns
<1>3. CASE Holds(k)
  <2>1. PICK i \in 0..(capacity - 1) : entries[i].key = k
    BY <1>1, <1>3, HoldsIsMembership
  <2>2. /\ Bury(k) /\ pc' = pc /\ pending' = pending /\ white' = white /\ pos' = pos
        /\ fresh' = fresh /\ Returns("delete", k, TRUE)
    BY <1>3 DEF Delete
  <2>3. /\ (Sound(entries, capacity) /\ HasEmpty(entries, capacity) /\ CountExact)'
        /\ OneObjectPerText' /\ GrowInv' /\ StoreInv'
        /\ capacity' = capacity /\ count' = count /\ interning' = interning
        /\ entries'[i] = Tombstone
        /\ \A j \in 0..(capacity - 1) : j # i => entries'[j] = entries[j]
    BY <1>1, <2>1, <2>2, BuryInv
  <2>4. TypeOK'
    BY <1>1, <2>2, <2>3 DEF IInv, TypeOK, Returns, Sound
  <2>5. PendingInv'
    BY <1>1, <2>2 DEF PendingInv
  <2>6. FieldInv'
    BY <2>2, <2>3, EntryTypes DEF IInv, FieldInv
  <2>7. WhiteInv'
    BY <1>1, <2>2 DEF IInv, WhiteInv
  <2>. QED BY <2>3, <2>4, <2>5, <2>6, <2>7 DEF IInv
<1>. QED BY <1>2, <1>3

\* An operation begins: only the control and the pairs to set change.
LEMMA SameEntries ==
  ASSUME IInv, UNCHANGED tableVars, pc # "grow", pc' # "grow", pc' # "store", TypeOK',
         PendingInv', WhiteInv', (~interning => pending \in Seq([key : FieldKey, value : Value]))'
  PROVE  IInv'
<1>1. (Sound(entries, capacity) /\ HasEmpty(entries, capacity))'
  BY DEF IInv, tableVars, Sound, HasEmpty, Reached
<1>2. CountExact' /\ OneObjectPerText'
  BY DEF IInv, tableVars, CountExact, Occupied, OneObjectPerText
<1>3. GrowInv' /\ StoreInv' /\ FieldInv'
  BY DEF IInv, tableVars, GrowInv, StoreInv, FieldInv
<1>. QED BY <1>1, <1>2, <1>3 DEF IInv, tableVars

\* table_set and table_add_all begin.
LEMMA SetInv ==
  ASSUME IInv, NEW pairs, Set(pairs), pairs # <<>>,
         pairs \in Seq([key : FieldKey, value : Value])
  PROVE  IInv'
<1>1. pairs \in Seq([key : Key, value : Value])
  <2>1. [key : FieldKey, value : Value] \subseteq [key : Key, value : Value]
    BY FieldKeyAssumption
  <2>. QED BY <2>1, SeqOfMore
<1>2. TypeOK'
  BY <1>1 DEF IInv, TypeOK, Set, tableVars, Pcs
<1>3. PendingInv' /\ interning' = FALSE
  BY DEF IInv, TypeOK, Set, tableVars, PendingInv
<1>4. WhiteInv'
  BY DEF IInv, Set, WhiteInv
<1>. QED BY <1>2, <1>3, <1>4, SameEntries DEF Set

\* copy_string finds the string, or has a new one to add whose text the table does not have.
LEMMA InternInv ==
  ASSUME IInv, NEW k \in Key, Intern(k)
  PROVE  IInv'
<1>. DEFINE s == FindString(Chars[k])
<1>1. pc = "idle" /\ interning /\ Chars[k] \in Text
  BY EntryTypes DEF Intern
<1>2. \/ /\ s = NoKey
         /\ \A i \in 0..(capacity - 1) :
              entries[i].key # NoKey => Chars[entries[i].key] # Chars[k]
      \/ \E i \in 0..(capacity - 1) : s = entries[i].key /\ s # NoKey
  BY <1>1, CountMeans, FindStringExact DEF IInv
<1>3. s \in Key \union {NoKey}
  BY <1>2, EntryTypes DEF IInv, Sound
<1>4. CASE s = NoKey
  <2>. DEFINE pair == [key |-> k, value |-> Nil]
  <2>1. /\ pc' = "set" /\ pending' = <<pair>>
        /\ result' = [op |-> "find", arg |-> Chars[k], answer |-> s]
        /\ UNCHANGED <<tableVars, white, pos, fresh>>
    BY <1>4 DEF Intern, Returns
  <2>2. pair \in [key : Key, value : Value] /\ pair.key = k
    BY ValueAssumption
  <2>. HIDE DEF pair, s
  <2>3. TypeOK'
    BY <1>1, <1>3, <2>1, <2>2 DEF IInv, TypeOK, tableVars, Pcs
  <2>4. PendingInv'
    BY <1>2, <1>4, <2>1, <2>2 DEF PendingInv, tableVars
  <2>5. WhiteInv'
    BY <1>1, <2>1 DEF IInv, WhiteInv
  <2>. QED BY <1>1, <2>1, <2>3, <2>4, <2>5, SameEntries DEF tableVars
<1>5. CASE s # NoKey
  BY <1>3, <1>5, SameTable DEF Intern, Returns
<1>. QED BY <1>4, <1>5

\* A collection begins in vm.strings.
LEMMA CollectInv ==
  ASSUME IInv, NEW dead, Collect(dead)
  PROVE  IInv'
<1>1. interning /\ pc \in {"idle", "set"}
  BY DEF Collect
<1>2. dead \subseteq Key
  <2>1. Keys \subseteq Key
    BY TypeFacts, EntryTypes DEF Keys
  <2>. QED BY <2>1 DEF Collect
<1>3. TypeOK'
  <2>1. pc' \in Pcs \ {"grow"} /\ pos' = 0 /\ white' = dead
        /\ UNCHANGED <<tableVars, pending, fresh, result>>
    BY DEF Collect, Pcs
  <2>. QED BY <1>1, <1>2, <2>1, TypeFacts, TypeStep DEF tableVars, IInv, TypeOK
<1>4. PendingInv'
  BY <1>1 DEF IInv, PendingInv, Collect, tableVars
<1>5. pc # "grow" /\ pc' # "grow" /\ pc' # "store" /\ UNCHANGED tableVars /\ interning'
  BY <1>1 DEF Collect, tableVars
<1>6. WhiteInv'
  BY <1>1 DEF Collect, WhiteInv
<1>. QED BY <1>3, <1>4, <1>5, <1>6, SameEntries

\* table_remove_white, one iteration: fewer keys, so that no text comes back.
LEMMA RemoveStepInv ==
  ASSUME IInv, RemoveStep
  PROVE  IInv'
<1>1. /\ pc \in {"remove", "remove_grow"} /\ pos < capacity
      /\ pos' = pos + 1 /\ UNCHANGED <<pc, pending, white, fresh, result>>
      /\ capacity \in Nat /\ pos \in 0..(capacity - 1)
  BY TypeFacts DEF RemoveStep
<1>2. CASE entries[pos].key \notin white
  <2>1. UNCHANGED tableVars
    BY <1>2 DEF RemoveStep
  <2>2. TypeOK'
    BY <1>1, <2>1, TypeFacts, TypeStep DEF IInv, TypeOK, tableVars
  <2>3. PendingInv' /\ (~interning => pending \in Seq([key : FieldKey, value : Value]))'
    BY <1>1, <2>1 DEF IInv, PendingInv, FieldInv, tableVars
  <2>4. WhiteInv'
    <3>1. entries' = entries
      BY <2>1 DEF tableVars
    <3>2. ASSUME NEW j \in 0..pos PROVE entries[j].key \notin white
      BY <1>1, <1>2, <3>2 DEF IInv, WhiteInv
    <3>3. (pos + 1) - 1 = pos
      BY <1>1
    <3>. QED BY <1>1, <3>1, <3>2, <3>3 DEF WhiteInv
  <2>. QED BY <1>1, <2>1, <2>2, <2>3, <2>4, SameEntries
<1>3. CASE entries[pos].key \in white
  <2>1. entries[pos].key # NoKey /\ Bury(entries[pos].key)
    BY <1>3, EntryTypes DEF RemoveStep, IInv, TypeOK
  <2>2. /\ (Sound(entries, capacity) /\ HasEmpty(entries, capacity) /\ CountExact)'
        /\ OneObjectPerText' /\ GrowInv' /\ StoreInv'
        /\ capacity' = capacity /\ count' = count /\ interning' = interning
        /\ entries'[pos] = Tombstone
        /\ \A j \in 0..(capacity - 1) : j # pos => entries'[j] = entries[j]
    BY <1>1, <2>1, BuryInv
  <2>3. TypeOK'
    BY <1>1, <2>2, TypeFacts, TypeStep DEF IInv, TypeOK, Sound
  <2>4. \A j \in 0..(capacity - 1) : entries'[j].key = NoKey \/ entries'[j] = entries[j]
    BY <2>2, EntryTypes
  <2>5. PendingInv' /\ FieldInv'
    BY <1>1, <2>2, <2>4 DEF IInv, PendingInv, FieldInv
  <2>6. WhiteInv'
    <3>1. NoKey \notin white
      BY EntryTypes DEF IInv, TypeOK
    <3>2. ASSUME NEW j \in 0..pos PROVE entries'[j].key \notin white
      <4>1. CASE j = pos
        BY <2>2, <3>1, <4>1, EntryTypes
      <4>2. CASE j < pos
        BY <1>1, <2>4, <3>1, <4>2 DEF IInv, WhiteInv
      <4>. QED BY <1>1, <4>1, <4>2
    <3>3. (pos + 1) - 1 = pos
      BY <1>1
    <3>. QED BY <1>1, <3>2, <3>3 DEF WhiteInv
  <2>. QED BY <2>2, <2>3, <2>5, <2>6 DEF IInv
<1>. QED BY <1>2, <1>3

\* adjust_capacity begins with entries that are all empty.
LEMMA StartGrowInv ==
  ASSUME IInv, pc \in {"set", "remove_grow"}, StartGrow
  PROVE  IInv'
<1>. DEFINE cap == GrowCapacity(capacity)
<1>1. capacity \in Nat /\ cap \in Nat /\ cap > 0
  BY TypeFacts
<1>2. /\ pc' = "grow" /\ count' = 0 /\ pos' = 0 /\ white' = {}
      /\ UNCHANGED <<interning, entries, capacity, pending, result>>
  BY DEF StartGrow
<1>3. GrowCapacity(capacity') = cap
  BY <1>2
<1>4. fresh' \in [0..(cap - 1) -> Entry] /\ \A i \in 0..(cap - 1) : fresh'[i] = Empty
  <2>1. fresh' = [i \in 0..(cap - 1) |-> Empty]
    BY DEF StartGrow
  <2>. QED BY <2>1, EntryTypes
<1>. HIDE DEF cap
<1>5. TypeOK'
  <2>1. pos' \in 0..capacity' /\ count' \in Nat /\ pc' \in Pcs
    BY <1>1, <1>2 DEF Pcs
  <2>. QED BY <1>2, <1>3, <1>4, <2>1 DEF IInv, TypeOK
<1>6. (Sound(entries, capacity) /\ HasEmpty(entries, capacity))'
  BY <1>2 DEF IInv, Sound, HasEmpty, Reached
<1>7. OneObjectPerText'
  BY <1>2 DEF IInv, OneObjectPerText
<1>8. CountExact'
  <2>1. Occupied(fresh') = {}
    BY <1>4 DEF Occupied
  <2>. QED BY <1>2, <2>1, FS_EmptySet DEF CountExact
<1>9. GrowInv'
  <2>1. Sound(fresh', cap)
    BY <1>1, <1>4, EntryTypes DEF Sound
  <2>2. HasEmpty(fresh', cap)
    BY <1>1, <1>4 DEF HasEmpty
  <2>3. Moved(entries', 0, fresh', cap)
    BY <1>4 DEF Moved
  <2>. QED BY <1>2, <1>3, <2>1, <2>2, <2>3 DEF GrowInv
<1>10. StoreInv' /\ PendingInv' /\ FieldInv' /\ WhiteInv'
  BY <1>2 DEF IInv, StoreInv, PendingInv, FieldInv, WhiteInv
<1>. QED BY <1>2, <1>5, <1>6, <1>7, <1>8, <1>9, <1>10 DEF IInv

\* table_remove_white ends, and adjust_capacity goes on if the collection came from it.
LEMMA RemoveEndInv ==
  ASSUME IInv, RemoveEnd
  PROVE  IInv'
<1>1. CASE pc = "remove_grow" /\ StartGrow
  BY <1>1, StartGrowInv
<1>2. CASE /\ pc = "remove" /\ pc' = "idle" /\ white' = {} /\ pos' = 0
           /\ UNCHANGED <<tableVars, pending, fresh, result>>
  <2>1. TypeOK'
    BY <1>2, TypeFacts, TypeStep DEF IInv, TypeOK, tableVars, Pcs
  <2>2. PendingInv' /\ (~interning => pending \in Seq([key : FieldKey, value : Value]))'
    BY <1>2 DEF IInv, PendingInv, FieldInv, tableVars
  <2>3. WhiteInv'
    BY <1>2 DEF WhiteInv
  <2>. QED BY <1>2, <2>1, <2>2, <2>3, SameEntries
<1>. QED BY <1>1, <1>2 DEF RemoveEnd

\* adjust_capacity begins without a collection.
LEMMA GrowStartInv ==
  ASSUME IInv, Grow
  PROVE  IInv'
BY StartGrowInv DEF Grow

\* adjust_capacity, one iteration: a key that moves is not there yet, and the new
\* entries, of which there are more, stay partly empty.
LEMMA RehashInv ==
  ASSUME IInv, Rehash
  PROVE  IInv'
<1>. DEFINE cap == GrowCapacity(capacity)
            k == entries[pos].key
            i == FindEntry(fresh, cap, k)
<1>1. /\ pc = "grow" /\ pos < capacity /\ pos' = pos + 1
      /\ UNCHANGED <<interning, entries, capacity, pc, pending, white, result>>
  BY DEF Rehash
<1>2. /\ capacity \in Nat /\ count \in Nat /\ pos \in 0..(capacity - 1) /\ pos + 1 \in 0..capacity
      /\ entries \in [0..(capacity - 1) -> Entry] /\ fresh \in [0..(cap - 1) -> Entry]
      /\ cap \in Nat /\ capacity < cap
  BY <1>1, TypeFacts
<1>3. /\ Sound(fresh, cap) /\ HasEmpty(fresh, cap)
      /\ Moved(entries, pos, fresh, cap) /\ count <= pos
      /\ count = Cardinality(Occupied(fresh))
  BY <1>1 DEF IInv, GrowInv, CountExact
<1>4. (Sound(entries, capacity) /\ HasEmpty(entries, capacity))'
  BY <1>1 DEF IInv, Sound, HasEmpty, Reached
<1>5. OneObjectPerText' /\ StoreInv' /\ PendingInv' /\ FieldInv' /\ GrowCapacity(capacity') = cap
  BY <1>1 DEF IInv, OneObjectPerText, StoreInv, PendingInv, FieldInv
<1>6. /\ Sound(fresh', cap) /\ HasEmpty(fresh', cap) /\ Moved(entries, pos + 1, fresh', cap)
      /\ count' = Cardinality(Occupied(fresh')) /\ count' \in Nat /\ count' <= pos + 1
  <2>1. CASE k = NoKey
    <3>1. fresh' = fresh /\ count' = count
      BY <2>1 DEF Rehash
    <3>2. Moved(entries, pos + 1, fresh, cap)
      BY <1>2, <1>3, <2>1 DEF Moved
    <3>. QED BY <1>2, <1>3, <3>1, <3>2
  <2>2. CASE k # NoKey
    <3>. DEFINE v == entries[pos].value
                new == Put(fresh, i, k, v)
    <3>1. fresh' = new /\ count' = count + 1
      BY <2>2 DEF Rehash
    <3>2. k \in Key /\ v \in Value /\ entries[pos] = [key |-> k, value |-> v]
      BY <1>2, <2>2, EntryTypes DEF Entry
    <3>. HIDE DEF k, v, cap
    <3>3. \A j \in 0..(cap - 1) : fresh[j].key # k
      <4>1. SUFFICES ASSUME NEW j \in 0..(cap - 1), fresh[j].key = k PROVE FALSE
        OBVIOUS
      <4>2. fresh[j] # Empty
        BY <2>2, <4>1, EntryTypes
      <4>3. PICK n \in 0..(pos - 1) : fresh[j] = entries[n]
        BY <1>3, <4>2 DEF Moved
      <4>4. n \in 0..(capacity - 1) /\ n # pos /\ entries[n].key = entries[pos].key
        BY <1>2, <4>1, <4>3 DEF k
      <4>. QED BY <1>2, <2>2, <4>4 DEF IInv, Sound, k
    <3>4. i \in 0..(cap - 1) /\ fresh[i].key = NoKey /\ Reached(fresh, cap, k, i)
      BY <1>2, <1>3, <3>2, <3>3, FindEntryAbsent
    <3>. HIDE DEF i
    <3>5. fresh[i] = Empty
      BY <1>3, <3>4 DEF Moved
    <3>6. /\ Sound(new, cap) /\ new[i] = [key |-> k, value |-> v]
          /\ \A j \in 0..(cap - 1) : j # i => new[j] = fresh[j]
      <4>1. Sound(Put(fresh, i, k, v), cap)
        BY <1>2, <1>3, <3>2, <3>3, <3>4, PutSound
      <4>2. new[i] = [key |-> k, value |-> v] /\ \A j \in 0..(cap - 1) : j # i => new[j] = fresh[j]
        BY <1>2, <3>4 DEF Put
      <4>. QED BY <4>1, <4>2
    <3>7. Cardinality(Occupied(new)) = count + 1
      BY <1>2, <1>3, <3>2, <3>4, <3>5, PutOccupied
    <3>. HIDE DEF new
    <3>8. HasEmpty(new, cap)
      BY <1>2, <1>3, <3>6, <3>7, OccupiedSize DEF Sound
    <3>9. Moved(entries, pos + 1, new, cap)
      <4>1. new[i] = entries[pos] /\ new[i].key # NoKey
        BY <2>2, <3>2, <3>6
      <4>2. ASSUME NEW n \in 0..pos, entries[n].key # NoKey
            PROVE  \E j \in 0..(cap - 1) : new[j] = entries[n]
        <5>1. CASE n = pos
          BY <3>4, <4>1, <5>1
        <5>2. CASE n < pos
          <6>1. PICK j \in 0..(cap - 1) : fresh[j] = entries[n]
            BY <1>2, <1>3, <4>2, <5>2 DEF Moved
          <6>2. j # i
            BY <3>4, <4>2, <6>1
          <6>. QED BY <3>6, <6>1, <6>2
        <5>. QED BY <1>2, <5>1, <5>2
      <4>3. ASSUME NEW j \in 0..(cap - 1), new[j] # Empty
            PROVE  new[j].key # NoKey /\ \E n \in 0..pos : new[j] = entries[n]
        <5>1. CASE j = i
          BY <1>2, <4>1, <5>1
        <5>2. CASE j # i
          BY <1>2, <1>3, <3>6, <4>3, <5>2 DEF Moved
        <5>. QED BY <5>1, <5>2
      <4>4. (pos + 1) - 1 = pos
        BY <1>2
      <4>. QED BY <4>2, <4>3, <4>4 DEF Moved
    <3>. QED BY <1>2, <1>3, <3>1, <3>6, <3>7, <3>8, <3>9
  <2>. QED BY <2>1, <2>2
<1>7. TypeOK'
  <2>1. fresh' \in [0..(cap - 1) -> Entry]
    BY <1>6 DEF Sound
  <2>. HIDE DEF cap
  <2>. QED BY <1>1, <1>2, <1>5, <1>6, <2>1 DEF IInv, TypeOK
<1>8. CountExact'
  BY <1>1, <1>6 DEF CountExact
<1>9. GrowInv'
  BY <1>1, <1>5, <1>6 DEF GrowInv
<1>10. WhiteInv'
  BY <1>1 DEF IInv, WhiteInv
<1>. QED BY <1>1, <1>4, <1>5, <1>7, <1>8, <1>9, <1>10 DEF IInv

\* The table after adjust_capacity has the same keys, and room.
LEMMA GrowEndInv ==
  ASSUME IInv, GrowEnd
  PROVE  IInv'
<1>. DEFINE cap == GrowCapacity(capacity)
<1>1. /\ pc = "grow" /\ pos = capacity /\ entries' = fresh /\ capacity' = cap /\ pc' = "store"
      /\ pos' = 0 /\ fresh' = [i \in 0..-1 |-> Empty]
      /\ UNCHANGED <<interning, count, pending, white, result>>
  BY DEF GrowEnd
<1>2. /\ capacity \in Nat /\ count \in Nat /\ cap \in Nat /\ capacity < cap
      /\ entries \in [0..(capacity - 1) -> Entry] /\ fresh \in [0..(cap - 1) -> Entry]
      /\ capacity = 0 \/ capacity >= MinCapacity
  BY <1>1, TypeFacts DEF IInv
<1>3. /\ Sound(fresh, cap) /\ HasEmpty(fresh, cap) /\ Moved(entries, capacity, fresh, cap)
      /\ count <= capacity /\ count = Cardinality(Occupied(fresh))
  BY <1>1 DEF IInv, GrowInv, CountExact
<1>4. MinCapacity <= cap /\ (MinCapacity <= capacity => capacity + 1 < cap)
  BY <1>2, GrowCapacityGrows
<1>. HIDE DEF cap
<1>5. (Sound(entries, capacity) /\ HasEmpty(entries, capacity) /\ CountExact)'
  BY <1>1, <1>3 DEF CountExact
<1>6. fresh' \in [0..-1 -> Entry]
  BY <1>1, EntryTypes
<1>7. TypeOK'
  <2>1. pos' \in 0..capacity' /\ pc' \in Pcs /\ pc' # "grow" /\ 0 - 1 = -1
    BY <1>1, <1>2 DEF Pcs
  <2>. QED BY <1>1, <1>2, <1>6, <2>1 DEF IInv, TypeOK
<1>8. \A j \in 0..(cap - 1) : fresh[j].key # NoKey =>
        \E n \in 0..(capacity - 1) : fresh[j] = entries[n]
  BY <1>3, EntryTypes DEF Moved
<1>9. OneObjectPerText'
  <2>1. SUFFICES ASSUME NEW i \in 0..(cap - 1), NEW j \in 0..(cap - 1),
                        fresh[i].key # NoKey, fresh[j].key # NoKey,
                        Chars[fresh[i].key] = Chars[fresh[j].key]
                 PROVE  i = j
    BY <1>1, <1>2 DEF OneObjectPerText
  <2>2. PICK n \in 0..(capacity - 1) : fresh[i] = entries[n]
    BY <1>8, <2>1
  <2>3. PICK m \in 0..(capacity - 1) : fresh[j] = entries[m]
    BY <1>8, <2>1
  <2>4. n = m
    BY <1>2, <2>1, <2>2, <2>3 DEF IInv, OneObjectPerText
  <2>. QED BY <1>3, <2>1, <2>2, <2>3, <2>4 DEF Sound
<1>10. StoreInv'
  <2>1. count + 1 < cap
    <3>1. CASE capacity = 0
      BY <1>2, <1>3, <1>4, <3>1, CapacityAssumption
    <3>2. CASE capacity >= MinCapacity
      BY <1>2, <1>3, <1>4, <3>2, CapacityAssumption
    <3>. QED BY <1>2, <3>1, <3>2
  <2>. QED BY <1>1, <2>1 DEF StoreInv
<1>11. GrowInv'
  BY <1>1 DEF GrowInv
<1>12. PendingInv'
  BY <1>1, <1>8 DEF IInv, PendingInv
<1>13. FieldInv'
  BY <1>1, <1>2, <1>8, EntryTypes DEF IInv, FieldInv
<1>14. capacity' = 0 \/ capacity' >= MinCapacity
  BY <1>1, <1>2, <1>4, CapacityAssumption
<1>15. WhiteInv'
  BY <1>1 DEF IInv, WhiteInv
<1>. QED BY <1>5, <1>7, <1>9, <1>10, <1>11, <1>12, <1>13, <1>14, <1>15 DEF IInv

\* What the rest of table_set finds: the pair has a slot, and an empty one remains.
LEMMA StoreFinds ==
  ASSUME IInv, pc = "store" \/ (pc = "set" /\ ~Overloaded)
  PROVE  LET k == pending[1].key
             i == FindEntry(entries, capacity, k)
         IN  /\ k \in Key /\ pending[1].value \in Value /\ i \in 0..(capacity - 1)
             /\ count + 1 < capacity
             /\ \/ entries[i].key = k
                \/ /\ \A j \in 0..(capacity - 1) : entries[j].key # k
                   /\ entries[i].key = NoKey
                   /\ Reached(entries, capacity, k, i)
<1>. DEFINE k == pending[1].key
            i == FindEntry(entries, capacity, k)
<1>1. /\ capacity \in Nat /\ count \in Nat /\ pending \in Seq([key : Key, value : Value])
      /\ pending # <<>> /\ Sound(entries, capacity) /\ HasEmpty(entries, capacity)
      /\ entries \in [0..(capacity - 1) -> Entry]
  BY TypeFacts DEF IInv, TypeOK, PendingInv
<1>2. pending[1] \in [key : Key, value : Value]
  BY <1>1, SeqParts
<1>3. k \in Key /\ pending[1].value \in Value /\ k # NoKey
  BY <1>2, EntryTypes
<1>4. count + 1 < capacity
  <2>1. CASE pc = "store"
    BY <2>1 DEF IInv, StoreInv
  <2>2. CASE ~(4 * (count + 1) > 3 * capacity)
    BY <1>1, <2>2
  <2>. QED BY <2>1, <2>2 DEF Overloaded
<1>. HIDE DEF k
<1>5. CASE \A j \in 0..(capacity - 1) : entries[j].key # k
  <2>1. i \in 0..(capacity - 1) /\ entries[i].key = NoKey /\ Reached(entries, capacity, k, i)
    BY <1>1, <1>3, <1>4, <1>5, FindEntryAbsent
  <2>. QED BY <1>3, <1>4, <1>5, <2>1 DEF k
<1>6. CASE \E j \in 0..(capacity - 1) : entries[j].key = k
  <2>1. PICK j \in 0..(capacity - 1) : entries[j].key = k
    BY <1>6
  <2>2. i = j
    BY <1>1, <1>3, <2>1, FindEntryPresent
  <2>. HIDE DEF i
  <2>3. i \in 0..(capacity - 1) /\ entries[i].key = k
    BY <2>1, <2>2
  <2>. QED BY <1>3, <1>4, <2>3 DEF k, i
<1>. QED BY <1>5, <1>6

\* The store takes at most one empty entry, and there are two.
LEMMA StoreInvariant ==
  ASSUME IInv, Store
  PROVE  IInv'
<1>. DEFINE k == pending[1].key
            v == pending[1].value
            i == FindEntry(entries, capacity, k)
<1>1. /\ capacity \in Nat /\ count \in Nat /\ pending \in Seq([key : Key, value : Value])
      /\ pending # <<>> /\ Sound(entries, capacity)
      /\ entries \in [0..(capacity - 1) -> Entry]
      /\ pc \in {"set", "store"} /\ count = Cardinality(Occupied(entries))
  BY TypeFacts DEF IInv, TypeOK, PendingInv, Store, CountExact
<1>2. /\ k \in Key /\ v \in Value /\ i \in 0..(capacity - 1) /\ count + 1 < capacity
      /\ \/ entries[i].key = k
         \/ /\ \A j \in 0..(capacity - 1) : entries[j].key # k
            /\ entries[i].key = NoKey
            /\ Reached(entries, capacity, k, i)
  BY StoreFinds DEF Store
<1>3. /\ entries' = Put(entries, i, k, v)
      /\ count' = IF entries[i] = Empty THEN count + 1 ELSE count
      /\ result' = [op |-> "set", arg |-> k, answer |-> entries[i].key = NoKey]
      /\ pending' = Tail(pending) /\ pc' = IF Len(pending) = 1 THEN "idle" ELSE "set"
      /\ UNCHANGED <<interning, capacity, white, pos, fresh>>
  BY <1>1 DEF Store, Returns
<1>. HIDE DEF k, v, i
<1>4. /\ entries'[i] = [key |-> k, value |-> v]
      /\ \A j \in 0..(capacity - 1) : j # i => entries'[j] = entries[j]
      /\ entries' \in [0..(capacity - 1) -> Entry]
  <2>1. [key |-> k, value |-> v] \in Entry
    BY <1>2, EntryTypes
  <2>. QED BY <1>1, <1>2, <1>3, <2>1 DEF Put
<1>5. Sound(Put(entries, i, k, v), capacity)
  BY <1>1, <1>2, PutSound
<1>6. count' = Cardinality(Occupied(entries')) /\ count' \in Nat /\ count' < capacity
  <2>1. Cardinality(Occupied(Put(entries, i, k, v))) =
          IF entries[i] = Empty THEN count + 1 ELSE count
    BY <1>1, <1>2, PutOccupied
  <2>2. count' = Cardinality(Occupied(entries'))
    BY <1>3, <2>1, Zenon
  <2>3. count' = count \/ count' = count + 1
    BY <1>3
  <2>. QED BY <1>1, <1>2, <2>2, <2>3
<1>7. (Sound(entries, capacity) /\ HasEmpty(entries, capacity))'
  BY <1>1, <1>3, <1>4, <1>5, <1>6, OccupiedSize
<1>8. CountExact' /\ GrowInv' /\ StoreInv'
  BY <1>3, <1>6 DEF CountExact, GrowInv, StoreInv
<1>9. /\ Tail(pending) \in Seq([key : Key, value : Value])
      /\ Len(pending) # 1 => Tail(pending) # <<>>
  BY <1>1, SeqParts
<1>10. TypeOK'
  <2>1. pos \in 0..capacity /\ white \subseteq Key
    BY DEF IInv, TypeOK
  <2>2. (entries[i].key = NoKey) \in BOOLEAN
    OBVIOUS
  <2>3. pc' \in Pcs \ {"grow"} /\ pc # "grow"
    BY <1>1, <1>3 DEF Pcs
  <2>4. result'.op = "set" /\ result'.answer \in BOOLEAN
    BY <1>3, <2>2
  <2>. QED BY <1>3, <1>4, <1>6, <1>9, <2>1, <2>3, <2>4, TypeStep
<1>11. interning => Len(pending) = 1
  BY <1>1 DEF IInv, PendingInv
<1>12. PendingInv'
  BY <1>3, <1>9, <1>11 DEF PendingInv
<1>13. FieldInv'
  <2>1. SUFFICES ASSUME ~interning
                 PROVE  /\ Tail(pending) \in Seq([key : FieldKey, value : Value])
                        /\ \A j \in 0..(capacity - 1) : entries'[j].key \in FieldKey \union {NoKey}
    BY <1>3 DEF FieldInv
  <2>2. /\ pending \in Seq([key : FieldKey, value : Value])
        /\ \A j \in 0..(capacity - 1) : entries[j].key \in FieldKey \union {NoKey}
    BY <2>1 DEF IInv, FieldInv
  <2>3. pending[1] \in [key : FieldKey, value : Value]
    BY <1>1, <2>2, SeqParts
  <2>4. k \in FieldKey
    BY <2>3 DEF k
  <2>5. Tail(pending) \in Seq([key : FieldKey, value : Value])
    BY <1>1, <2>2, SeqParts
  <2>. QED BY <1>4, <2>2, <2>4, <2>5
<1>14. OneObjectPerText'
  <2>1. DOMAIN entries' = 0..(capacity - 1) /\ DOMAIN entries = 0..(capacity - 1)
    BY <1>1, <1>4
  <2>2. CASE interning
    <3>1. \A j \in 0..(capacity - 1) :
            entries[j].key # NoKey => Chars[entries[j].key] # Chars[k]
      BY <1>1, <2>2 DEF IInv, PendingInv, k
    <3>. QED BY <1>4, <2>1, <3>1 DEF IInv, OneObjectPerText
  <2>3. CASE ~interning
    <3>1. \A j \in 0..(capacity - 1) : entries'[j].key \in FieldKey \union {NoKey}
      BY <1>3, <1>13, <2>3 DEF FieldInv
    <3>2. \A m, n \in 0..(capacity - 1) :
            entries'[m].key # NoKey /\ entries'[m].key = entries'[n].key => m = n
      BY <1>3, <1>5 DEF Sound
    <3>. QED BY <2>1, <3>1, <3>2, FieldKeyAssumption DEF OneObjectPerText
  <2>. QED BY <2>2, <2>3
<1>15. WhiteInv'
  <2>1. pc' \notin {"remove", "remove_grow"} /\ white = {} /\ white' = {}
    BY <1>1, <1>3 DEF IInv, WhiteInv
  <2>. QED BY <2>1 DEF WhiteInv
<1>. QED BY <1>3, <1>7, <1>8, <1>10, <1>12, <1>13, <1>14, <1>15 DEF IInv

\* Each step of the table preserves the invariant.
LEMMA NextInv ==
  ASSUME IInv, Next
  PROVE  IInv'
<1>1. \A k \in FieldKey, v \in Value :
        <<[key |-> k, value |-> v]>> \in Seq([key : FieldKey, value : Value])
  OBVIOUS
<1>2. \A k, j \in FieldKey :
        <<[key |-> k, value |-> Nil], [key |-> j, value |-> True]>>
          \in Seq([key : FieldKey, value : Value])
  BY ValueAssumption
<1>3. CASE \E k \in FieldKey, v \in Value : Set(<<[key |-> k, value |-> v]>>)
  BY <1>1, <1>3, SetInv
<1>4. CASE \E k, j \in FieldKey :
             k # j /\ Set(<<[key |-> k, value |-> Nil], [key |-> j, value |-> True]>>)
  BY <1>2, <1>4, SetInv
<1>5. CASE \E k \in FieldKey : Get(k) \/ Delete(k)
  BY <1>5, GetInv, DeleteInv
<1>6. CASE \E k \in Key : Intern(k)
  BY <1>6, InternInv
<1>7. CASE \E dead \in SUBSET Keys : Collect(dead)
  BY <1>7, CollectInv
<1>8. CASE RemoveStep \/ RemoveEnd \/ Grow \/ Rehash \/ GrowEnd \/ Store
  BY <1>8, RemoveStepInv, RemoveEndInv, GrowStartInv, RehashInv, GrowEndInv, StoreInvariant
<1>. QED BY <1>3, <1>4, <1>5, <1>6, <1>7, <1>8 DEF Next

\* So does a step of something else.
LEMMA StutterInv ==
  ASSUME IInv, UNCHANGED vars
  PROVE  IInv'
<1>1. UNCHANGED <<tableVars, pc, pending, white, pos, fresh, result>>
  BY DEF vars
<1>2. /\ result'.op \in {"none", "get", "delete", "set", "find"}
      /\ result'.answer \in Value \union Key \union {NoKey} \union BOOLEAN
  BY <1>1 DEF IInv, TypeOK
<1>. QED BY <1>1, <1>2, SameTable

-----------------------------------------------------------------------------
(***************************************************************************)
(* The theorems.                                                           *)
(***************************************************************************)

\* Every reachable state of a table satisfies the inductive invariant.
THEOREM InductiveInvariant == Spec => []IInv
<1>1. Init => IInv
  BY InitInv
<1>2. IInv /\ [Next]_vars => IInv'
  BY NextInv, StutterInv
<1>. QED BY <1>1, <1>2, PTL DEF Spec

\* The variables have their types: the entries are as many as the capacity.
THEOREM TypeCorrect == Spec => []TypeOK
<1>1. IInv => TypeOK
  BY DEF IInv
<1>. QED BY <1>1, InductiveInvariant, PTL

\* count of table.c is the number of keys and tombstones.
THEOREM CountIsExact == Spec => []CountExact
<1>1. IInv => CountExact
  BY DEF IInv
<1>. QED BY <1>1, InductiveInvariant, PTL

\* The loops of find_entry and table_find_string come to an empty entry, however many
\* tombstones there are.
THEOREM SearchesEnd == Spec => []ProbeEnds
<1>1. ASSUME IInv PROVE ProbeEnds
  <2>1. /\ DOMAIN entries = 0..(capacity - 1) /\ GrowCapacity(capacity) > 0
        /\ pc = "grow" => DOMAIN fresh = 0..(GrowCapacity(capacity) - 1)
    BY <1>1, TypeFacts
  <2>2. capacity > 0 => \E i \in DOMAIN entries : entries[i] = Empty
    BY <1>1, <2>1 DEF IInv, HasEmpty
  <2>3. pc = "grow" => \E i \in DOMAIN fresh : fresh[i] = Empty
    BY <1>1, <2>1 DEF IInv, GrowInv, HasEmpty
  <2>. QED BY <2>2, <2>3 DEF ProbeEnds, Occupied
<1>. QED BY <1>1, InductiveInvariant, PTL

\* find_entry finds every key of the table, and of the one that adjust_capacity fills.
THEOREM KeysAreFound == Spec => []Findable
<1>1. ASSUME IInv PROVE Findable
  <2>1. /\ capacity \in Nat /\ GrowCapacity(capacity) \in Nat /\ DOMAIN entries = 0..(capacity - 1)
        /\ pc = "grow" => DOMAIN fresh = 0..(GrowCapacity(capacity) - 1)
        /\ pc # "grow" => DOMAIN fresh = {}
    BY <1>1, TypeFacts
  <2>2. Sound(entries, capacity) /\ (pc = "grow" => Sound(fresh, GrowCapacity(capacity)))
    BY <1>1 DEF IInv, GrowInv
  <2>. QED BY <2>1, <2>2, FindEntryPresent DEF Findable
<1>. QED BY <1>1, InductiveInvariant, PTL

\* Equal strings are one object, so that comparing addresses compares characters.
THEOREM StringsAreInterned == Spec => []OneObjectPerText
<1>1. IInv => OneObjectPerText
  BY DEF IInv
<1>. QED BY <1>1, InductiveInvariant, PTL

-----------------------------------------------------------------------------
(***************************************************************************)
(* The dictionary.                                                         *)
(***************************************************************************)

\* The keys of the entries es, and the map from keys to values they stand for.
HeldBy(es) == {es[i].key : i \in DOMAIN es} \ {NoKey}
MeaningOf(es) == [k \in HeldBy(es) |-> es[CHOOSE i \in DOMAIN es : es[i].key = k].value]

\* Each key in es means the value of its slot, the only one that it has.
LEMMA MeaningOfSlot ==
  ASSUME NEW cap \in Nat, NEW es, Sound(es, cap)
  PROVE  /\ DOMAIN MeaningOf(es) = HeldBy(es)
         /\ MeaningOf(es) = [k \in HeldBy(es) |-> MeaningOf(es)[k]]
         /\ \A i \in 0..(cap - 1) : es[i].key # NoKey =>
              es[i].key \in HeldBy(es) /\ MeaningOf(es)[es[i].key] = es[i].value
         /\ \A k \in HeldBy(es) : k \in Key /\ \E i \in 0..(cap - 1) : es[i].key = k
<1>1. DOMAIN es = 0..(cap - 1) /\ \A i \in 0..(cap - 1) : es[i].key \in Key \union {NoKey}
  BY EntryTypes DEF Sound
<1>2. ASSUME NEW i \in 0..(cap - 1), es[i].key # NoKey
      PROVE  es[i].key \in HeldBy(es) /\ MeaningOf(es)[es[i].key] = es[i].value
  <2>1. es[i].key \in HeldBy(es)
    BY <1>1, <1>2 DEF HeldBy
  <2>2. \A j \in DOMAIN es : es[j].key = es[i].key => j = i
    BY <1>1, <1>2 DEF Sound
  <2>3. (CHOOSE j \in DOMAIN es : es[j].key = es[i].key) = i
    BY <1>1, <2>2
  <2>. QED BY <2>1, <2>3 DEF MeaningOf
<1>3. \A k \in HeldBy(es) : k \in Key /\ \E i \in 0..(cap - 1) : es[i].key = k
  BY <1>1 DEF HeldBy
<1>4. DOMAIN MeaningOf(es) = HeldBy(es) /\ MeaningOf(es) = [k \in HeldBy(es) |-> MeaningOf(es)[k]]
  BY DEF MeaningOf
<1>. QED BY <1>2, <1>3, <1>4

\* Rehashing keeps the pairs, wherever it puts them.
LEMMA SamePairs ==
  ASSUME NEW cap \in Nat, NEW es, Sound(es, cap), NEW size \in Nat, NEW new, Sound(new, size),
         \A i \in 0..(cap - 1) : es[i].key # NoKey => \E j \in 0..(size - 1) : new[j] = es[i],
         \A j \in 0..(size - 1) : new[j].key # NoKey => \E i \in 0..(cap - 1) : new[j] = es[i]
  PROVE  MeaningOf(new) = MeaningOf(es)
<1>1. ASSUME NEW k \in HeldBy(es)
      PROVE  k \in HeldBy(new) /\ MeaningOf(new)[k] = MeaningOf(es)[k]
  <2>1. PICK i \in 0..(cap - 1) : es[i].key = k
    BY MeaningOfSlot
  <2>2. k # NoKey
    BY DEF HeldBy
  <2>3. PICK j \in 0..(size - 1) : new[j] = es[i]
    BY <2>1, <2>2
  <2>4. MeaningOf(es)[k] = es[i].value
    BY <2>1, <2>2, MeaningOfSlot
  <2>5. k \in HeldBy(new) /\ MeaningOf(new)[k] = new[j].value
    BY <2>1, <2>2, <2>3, MeaningOfSlot
  <2>. QED BY <2>3, <2>4, <2>5
<1>2. ASSUME NEW k \in HeldBy(new)
      PROVE  k \in HeldBy(es)
  <2>1. PICK j \in 0..(size - 1) : new[j].key = k
    BY MeaningOfSlot
  <2>2. k # NoKey
    BY DEF HeldBy
  <2>3. PICK i \in 0..(cap - 1) : new[j] = es[i]
    BY <2>1, <2>2
  <2>. QED BY <2>1, <2>2, <2>3, MeaningOfSlot
<1>3. HeldBy(new) = HeldBy(es)
  BY <1>1, <1>2
<1>4. [k \in HeldBy(new) |-> MeaningOf(new)[k]] = [k \in HeldBy(es) |-> MeaningOf(es)[k]]
  BY <1>1, <1>3
<1>. QED BY <1>4, MeaningOfSlot

\* A store changes the meaning of one key.
LEMMA PutMeaning ==
  ASSUME NEW cap \in Nat, NEW es, Sound(es, cap), NEW k \in Key, NEW v \in Value,
         NEW i \in 0..(cap - 1),
         \/ es[i].key = k
         \/ /\ \A j \in 0..(cap - 1) : es[j].key # k
            /\ es[i].key = NoKey
            /\ Reached(es, cap, k, i)
  PROVE  /\ HeldBy(Put(es, i, k, v)) = HeldBy(es) \union {k}
         /\ MeaningOf(Put(es, i, k, v))[k] = v
         /\ \A m \in HeldBy(es) \ {k} : MeaningOf(Put(es, i, k, v))[m] = MeaningOf(es)[m]
         /\ es[i].key = NoKey <=> k \notin HeldBy(es)
<1>. DEFINE new == Put(es, i, k, v)
<1>1. Sound(new, cap)
  BY PutSound
<1>2. new[i] = [key |-> k, value |-> v] /\ \A j \in 0..(cap - 1) : j # i => new[j] = es[j]
  BY DEF Sound, Put
<1>. HIDE DEF new
<1>3. k # NoKey
  BY EntryTypes
<1>4. MeaningOf(new)[k] = v /\ k \in HeldBy(new)
  BY <1>1, <1>2, <1>3, MeaningOfSlot
<1>5. ASSUME NEW m \in HeldBy(es), m # k
      PROVE  m \in HeldBy(new) /\ MeaningOf(new)[m] = MeaningOf(es)[m]
  <2>1. PICK n \in 0..(cap - 1) : es[n].key = m
    BY MeaningOfSlot
  <2>2. m # NoKey
    BY DEF HeldBy
  <2>3. n # i
    BY <1>5, <2>1, <2>2
  <2>. QED BY <1>1, <1>2, <2>1, <2>2, <2>3, MeaningOfSlot
<1>6. ASSUME NEW m \in HeldBy(new), m # k
      PROVE  m \in HeldBy(es)
  <2>1. PICK n \in 0..(cap - 1) : new[n].key = m
    BY <1>1, MeaningOfSlot
  <2>2. m # NoKey
    BY DEF HeldBy
  <2>3. n # i
    BY <1>2, <1>6, <2>1
  <2>. QED BY <1>2, <2>1, <2>2, <2>3, MeaningOfSlot
<1>7. HeldBy(new) = HeldBy(es) \union {k}
  BY <1>4, <1>5, <1>6
<1>8. es[i].key = NoKey <=> k \notin HeldBy(es)
  BY <1>3, MeaningOfSlot
<1>. QED BY <1>4, <1>5, <1>7, <1>8 DEF new

\* A deletion takes the meaning of one key.
LEMMA BuryMeaning ==
  ASSUME NEW cap \in Nat, NEW es, Sound(es, cap), HasEmpty(es, cap),
         NEW i \in 0..(cap - 1), es[i].key # NoKey
  PROVE  MeaningOf([es EXCEPT ![i] = Tombstone]) =
           [m \in HeldBy(es) \ {es[i].key} |-> MeaningOf(es)[m]]
<1>. DEFINE new == [es EXCEPT ![i] = Tombstone]
<1>1. Sound(new, cap)
  BY BurySound
<1>2. new[i] = Tombstone /\ \A j \in 0..(cap - 1) : j # i => new[j] = es[j]
  BY DEF Sound
<1>. HIDE DEF new
<1>3. ASSUME NEW m \in HeldBy(es), m # es[i].key
      PROVE  m \in HeldBy(new) /\ MeaningOf(new)[m] = MeaningOf(es)[m]
  <2>1. PICK n \in 0..(cap - 1) : es[n].key = m
    BY MeaningOfSlot
  <2>2. m # NoKey /\ n # i
    BY <1>3, <2>1 DEF HeldBy
  <2>. QED BY <1>1, <1>2, <2>1, <2>2, MeaningOfSlot
<1>4. ASSUME NEW m \in HeldBy(new)
      PROVE  m \in HeldBy(es) /\ m # es[i].key
  <2>1. PICK n \in 0..(cap - 1) : new[n].key = m
    BY <1>1, MeaningOfSlot
  <2>2. m # NoKey
    BY DEF HeldBy
  <2>3. n # i /\ es[n].key = m
    BY <1>2, <2>1, <2>2, EntryTypes
  <2>4. m \in HeldBy(es)
    BY <2>2, <2>3, MeaningOfSlot
  <2>5. m # es[i].key
    BY <2>2, <2>3 DEF Sound
  <2>. QED BY <2>4, <2>5
<1>5. HeldBy(new) = HeldBy(es) \ {es[i].key}
  BY <1>3, <1>4
<1>6. [m \in HeldBy(new) |-> MeaningOf(new)[m]] =
        [m \in HeldBy(es) \ {es[i].key} |-> MeaningOf(es)[m]]
  BY <1>3, <1>5
<1>. QED BY <1>1, <1>6, MeaningOfSlot DEF new

\* The dictionary of the refinement is the meaning of the entries, in each state.
LEMMA BarIsMeaning ==
  /\ [k \in Keys |-> entries[SlotOf(k)].value] = MeaningOf(entries)
  /\ [k \in Keys |-> entries[SlotOf(k)].value]' = MeaningOf(entries')
BY DEF Keys, SlotOf, MeaningOf, HeldBy

\* A new table is the empty dictionary.
LEMMA InitRefines == Init => Dict!Init
<1>. SUFFICES ASSUME Init PROVE Dict!Init
  OBVIOUS
<1>1. Keys = {}
  BY DEF Init, Keys
<1>2. [k \in Keys |-> entries[SlotOf(k)].value] = <<>>
  BY <1>1
<1>. QED BY <1>2 DEF Init, Dict!Init

\* A step that leaves the pairs, the collector's strings and the result alone is a stutter.
LEMMA StutterRefines ==
  ASSUME MeaningOf(entries') = MeaningOf(entries), UNCHANGED <<interning, white, result>>
  PROVE  UNCHANGED Dict!vars
BY BarIsMeaning DEF Dict!vars

\* table_get looks the key up.
LEMMA GetRefines ==
  ASSUME IInv, NEW k \in FieldKey, Get(k)
  PROVE  Dict!Lookup(k)
<1>1. k \in Key /\ pc = "idle" /\ entries' = entries /\ Dict!Steady
  BY FieldKeyAssumption DEF Get, tableVars, IInv, WhiteInv, Dict!Steady
<1>2. capacity \in Nat /\ Sound(entries, capacity)
  BY TypeFacts DEF IInv
<1>3. CASE Holds(k)
  <2>1. PICK i \in 0..(capacity - 1) : FindEntry(entries, capacity, k) = i /\ entries[i].key = k
    BY <1>1, <1>3, HoldsIsMembership
  <2>2. k \in DOMAIN MeaningOf(entries) /\ MeaningOf(entries)[k] = entries[i].value
    BY <1>1, <1>2, <2>1, EntryTypes, MeaningOfSlot
  <2>3. result' = [op |-> "get", arg |-> k, answer |-> MeaningOf(entries)[k]]
    BY <1>3, <2>1, <2>2 DEF Get, Returns
  <2>. QED BY <1>1, <2>2, <2>3, BarIsMeaning DEF Dict!Lookup, Dict!Returns
<1>4. CASE ~Holds(k)
  <2>1. k \notin DOMAIN MeaningOf(entries)
    BY <1>1, <1>2, <1>4, HoldsIsMembership, MeaningOfSlot
  <2>2. result' = [op |-> "get", arg |-> k, answer |-> NoKey]
    BY <1>4 DEF Get, Returns
  <2>. QED BY <1>1, <2>1, <2>2, BarIsMeaning DEF Dict!Lookup, Dict!Returns
<1>. QED BY <1>3, <1>4

\* The entries without the key at slot i.
LEMMA BuryRefines ==
  ASSUME IInv, NEW i \in 0..(capacity - 1), entries[i].key # NoKey, Bury(entries[i].key)
  PROVE  /\ entries[i].key \in DOMAIN MeaningOf(entries)
         /\ MeaningOf(entries') = Restrict(MeaningOf(entries),
                                           DOMAIN MeaningOf(entries) \ {entries[i].key})
<1>1. capacity \in Nat /\ Sound(entries, capacity) /\ HasEmpty(entries, capacity)
  BY TypeFacts DEF IInv
<1>2. entries' = [entries EXCEPT ![i] = Tombstone]
  BY <1>1, FindEntryPresent DEF Bury
<1>3. MeaningOf(entries') = [m \in HeldBy(entries) \ {entries[i].key} |-> MeaningOf(entries)[m]]
  BY <1>1, <1>2, BuryMeaning
<1>. QED BY <1>1, <1>3, MeaningOfSlot DEF Restrict

\* table_delete removes the key, or reports that there is none.
LEMMA DeleteRefines ==
  ASSUME IInv, NEW k \in FieldKey, Delete(k)
  PROVE  Dict!Remove(k)
<1>1. k \in Key /\ pc = "idle" /\ Dict!Steady
  <2>1. k \in Key /\ pc = "idle" /\ white' = white /\ interning' = interning
    BY FieldKeyAssumption DEF Delete, Bury, tableVars
  <2>. QED BY <2>1 DEF IInv, WhiteInv, Dict!Steady
<1>2. capacity \in Nat /\ Sound(entries, capacity)
  BY TypeFacts DEF IInv
<1>3. CASE Holds(k)
  <2>1. PICK i \in 0..(capacity - 1) : entries[i].key = k
    BY <1>1, <1>3, HoldsIsMembership
  <2>2. Bury(k) /\ result' = [op |-> "delete", arg |-> k, answer |-> TRUE] /\ k # NoKey
    BY <1>1, <1>3, EntryTypes DEF Delete, Returns
  <2>3. /\ k \in DOMAIN MeaningOf(entries)
        /\ MeaningOf(entries') = Restrict(MeaningOf(entries), DOMAIN MeaningOf(entries) \ {k})
    BY <2>1, <2>2, BuryRefines
  <2>. QED BY <1>1, <2>2, <2>3, BarIsMeaning DEF Dict!Remove, Dict!Returns, Dict!Restrict, Restrict
<1>4. CASE ~Holds(k)
  <2>1. k \notin DOMAIN MeaningOf(entries)
    BY <1>1, <1>2, <1>4, HoldsIsMembership, MeaningOfSlot
  <2>2. entries' = entries /\ result' = [op |-> "delete", arg |-> k, answer |-> FALSE]
    <3>1. Holds(k) = FALSE
      BY <1>4 DEF Holds
    <3>. QED BY <3>1 DEF Delete, Returns, tableVars
  <2>3. MeaningOf(entries') = Restrict(MeaningOf(entries), DOMAIN MeaningOf(entries) \ {k})
    <3>1. DOMAIN MeaningOf(entries) \ {k} = HeldBy(entries)
      BY <1>2, <2>1, MeaningOfSlot
    <3>. QED BY <1>2, <2>2, <3>1, MeaningOfSlot DEF Restrict
  <2>4. (k \in DOMAIN MeaningOf(entries)) = FALSE
    BY <2>1
  <2>5. Dict!Returns("delete", k, k \in DOMAIN MeaningOf(entries))
    BY <2>2, <2>4 DEF Dict!Returns
  <2>. QED BY <1>1, <2>3, <2>5, BarIsMeaning DEF Dict!Remove, Dict!Returns, Dict!Restrict, Restrict
<1>. QED BY <1>3, <1>4

\* table_find_string gives the string of the text that the dictionary has.
LEMMA InternRefines ==
  ASSUME IInv, NEW k \in Key, Intern(k)
  PROVE  Dict!Find(Chars[k])
<1>. DEFINE s == FindString(Chars[k])
<1>1. pc = "idle" /\ Chars[k] \in Text /\ entries' = entries
      /\ result' = [op |-> "find", arg |-> Chars[k], answer |-> s]
  BY EntryTypes DEF Intern, Returns, tableVars
<1>2. capacity \in Nat /\ Sound(entries, capacity)
  BY TypeFacts DEF IInv
<1>3. \/ /\ s = NoKey
         /\ \A i \in 0..(capacity - 1) :
              entries[i].key # NoKey => Chars[entries[i].key] # Chars[k]
      \/ \E i \in 0..(capacity - 1) :
           s = entries[i].key /\ s # NoKey /\ Chars[s] = Chars[k]
  BY <1>1, CountMeans, FindStringExact DEF IInv
<1>. HIDE DEF s
<1>4. \/ s = NoKey /\ \A m \in DOMAIN MeaningOf(entries) : Chars[m] # Chars[k]
      \/ s \in DOMAIN MeaningOf(entries) /\ Chars[s] = Chars[k]
  <2>1. CASE s = NoKey /\ \A i \in 0..(capacity - 1) :
                            entries[i].key # NoKey => Chars[entries[i].key] # Chars[k]
    BY <1>2, <2>1, EntryTypes, MeaningOfSlot
  <2>2. CASE \E i \in 0..(capacity - 1) : s = entries[i].key /\ s # NoKey /\ Chars[s] = Chars[k]
    BY <1>2, <2>2, MeaningOfSlot
  <2>. QED BY <1>3, <2>1, <2>2
<1>5. Dict!Steady
  BY <1>1 DEF IInv, WhiteInv, Intern, tableVars, Dict!Steady
<1>. QED BY <1>1, <1>4, <1>5, BarIsMeaning DEF Dict!Find, Dict!Returns

\* The collector's strings are among the keys.
LEMMA CollectRefines ==
  ASSUME IInv, NEW dead \in SUBSET Keys, Collect(dead)
  PROVE  \E d \in SUBSET DOMAIN MeaningOf(entries) : Dict!Collect(d)
<1>1. pc \in {"idle", "set"} /\ interning /\ white' = dead /\ UNCHANGED <<tableVars, result>>
  BY DEF Collect
<1>2. white = {}
  BY <1>1 DEF IInv, WhiteInv
<1>3. dead \in SUBSET DOMAIN MeaningOf(entries)
  BY DEF Keys, HeldBy, MeaningOf
<1>4. Dict!Collect(dead)
  BY <1>1, <1>2, BarIsMeaning DEF Dict!Collect, tableVars
<1>. QED BY <1>3, <1>4

\* table_remove_white has looked at every entry, so that none has a string of the collector's.
LEMMA RemoveEndRefines ==
  ASSUME IInv, RemoveEnd
  PROVE  Dict!Collected
<1>1. pos = capacity /\ white' = {} /\ UNCHANGED <<interning, entries, result>>
  BY DEF RemoveEnd, StartGrow, tableVars
<1>2. ASSUME NEW k \in DOMAIN MeaningOf(entries) PROVE k \notin white
  <2>1. PICK i \in 0..(capacity - 1) : entries[i].key = k
    BY TypeFacts DEF MeaningOf, HeldBy
  <2>. QED BY <1>1, <2>1 DEF IInv, WhiteInv
<1>. QED BY <1>1, <1>2, BarIsMeaning DEF Dict!Collected

\* adjust_capacity begins, without a collection.
LEMMA GrowRefines ==
  ASSUME IInv, Grow
  PROVE  UNCHANGED Dict!vars
<1>1. pc = "set" /\ white' = {} /\ UNCHANGED <<interning, entries, result>>
  BY DEF Grow, StartGrow
<1>2. white = {}
  BY <1>1 DEF IInv, WhiteInv
<1>. QED BY <1>1, <1>2, StutterRefines

\* table_remove_white drops one key after the other.
LEMMA RemoveStepRefines ==
  ASSUME IInv, RemoveStep
  PROVE  (\E k \in Key : Dict!Drop(k)) \/ UNCHANGED Dict!vars
<1>1. pos \in 0..(capacity - 1) /\ UNCHANGED <<interning, white, result>>
  BY TypeFacts DEF RemoveStep, Bury, tableVars
<1>2. CASE entries[pos].key \notin white
  BY <1>1, <1>2, StutterRefines DEF RemoveStep, tableVars
<1>3. CASE entries[pos].key \in white
  <2>1. entries[pos].key \in Key /\ entries[pos].key # NoKey /\ Bury(entries[pos].key)
    BY <1>3, EntryTypes DEF RemoveStep, IInv, TypeOK
  <2>2. MeaningOf(entries') = Restrict(MeaningOf(entries),
                                       DOMAIN MeaningOf(entries) \ {entries[pos].key})
    BY <1>1, <2>1, BuryRefines
  <2>3. Dict!Drop(entries[pos].key)
    BY <1>1, <1>3, <2>2, BarIsMeaning DEF Dict!Drop, Dict!Restrict, Restrict
  <2>. QED BY <2>1, <2>3
<1>. QED BY <1>2, <1>3

\* Growth is not seen.
LEMMA GrowEndRefines ==
  ASSUME IInv, GrowEnd
  PROVE  UNCHANGED Dict!vars
<1>1. /\ pc = "grow" /\ pos = capacity /\ entries' = fresh /\ UNCHANGED <<interning, white, result>>
      /\ capacity \in Nat /\ GrowCapacity(capacity) \in Nat
  BY TypeFacts DEF GrowEnd
<1>2. /\ Sound(entries, capacity) /\ Sound(fresh, GrowCapacity(capacity))
      /\ Moved(entries, capacity, fresh, GrowCapacity(capacity))
  BY <1>1 DEF IInv, GrowInv
<1>3. MeaningOf(fresh) = MeaningOf(entries)
  BY <1>1, <1>2, EntryTypes, SamePairs DEF Moved
<1>. QED BY <1>1, <1>3, StutterRefines

\* The store is the abstract Put.
LEMMA StoreRefines ==
  ASSUME IInv, Store
  PROVE  \E k \in Key, v \in Value : Dict!Put(k, v)
<1>. DEFINE k == pending[1].key
            v == pending[1].value
            i == FindEntry(entries, capacity, k)
<1>1. capacity \in Nat /\ Sound(entries, capacity)
  BY TypeFacts DEF IInv
<1>2. /\ k \in Key /\ v \in Value /\ i \in 0..(capacity - 1)
      /\ \/ entries[i].key = k
         \/ /\ \A j \in 0..(capacity - 1) : entries[j].key # k
            /\ entries[i].key = NoKey
            /\ Reached(entries, capacity, k, i)
  BY StoreFinds DEF Store
<1>3. /\ entries' = Put(entries, i, k, v)
      /\ result' = [op |-> "set", arg |-> k, answer |-> entries[i].key = NoKey]
  BY DEF Store, Returns
<1>. HIDE DEF k, v, i
<1>4. /\ HeldBy(entries') = HeldBy(entries) \union {k}
      /\ MeaningOf(entries')[k] = v
      /\ \A m \in HeldBy(entries) \ {k} : MeaningOf(entries')[m] = MeaningOf(entries)[m]
      /\ entries[i].key = NoKey <=> k \notin HeldBy(entries)
  BY <1>1, <1>2, <1>3, PutMeaning
<1>5. DOMAIN MeaningOf(entries) = HeldBy(entries)
      /\ MeaningOf(entries') = [j \in HeldBy(entries') |-> MeaningOf(entries')[j]]
  BY DEF MeaningOf
<1>6. /\ MeaningOf(entries') =
           [j \in DOMAIN MeaningOf(entries) \union {k} |->
              IF j = k THEN v ELSE MeaningOf(entries)[j]]
      /\ result' = [op |-> "set", arg |-> k, answer |-> k \notin DOMAIN MeaningOf(entries)]
  <2>1. (entries[i].key = NoKey) = (k \notin DOMAIN MeaningOf(entries))
    BY <1>4, <1>5
  <2>2. [j \in HeldBy(entries') |-> MeaningOf(entries')[j]] =
          [j \in DOMAIN MeaningOf(entries) \union {k} |->
             IF j = k THEN v ELSE MeaningOf(entries)[j]]
    BY <1>4, <1>5
  <2>. QED BY <1>3, <1>5, <2>1, <2>2
<1>7. Dict!Steady
  <2>1. pc \in {"set", "store"} /\ UNCHANGED <<interning, white>>
    BY DEF Store
  <2>. QED BY <2>1 DEF IInv, WhiteInv, Dict!Steady
<1>8. Dict!Put(k, v)
  BY <1>6, <1>7, BarIsMeaning DEF Dict!Put, Dict!Returns
<1>. QED BY <1>2, <1>8

\* Each step of the table is one of the dictionary, or none.
LEMMA StepRefines ==
  ASSUME IInv, [Next]_vars
  PROVE  [Dict!Next]_(Dict!vars)
<1>1. CASE \E k \in FieldKey : Get(k) \/ Delete(k)
  <2>1. PICK k \in FieldKey : Get(k) \/ Delete(k)
    BY <1>1
  <2>2. k \in Key /\ (Dict!Lookup(k) \/ Dict!Remove(k))
    BY <2>1, FieldKeyAssumption, GetRefines, DeleteRefines
  <2>. QED BY <2>2 DEF Dict!Next
<1>2. CASE \E k \in Key : Intern(k)
  <2>1. PICK k \in Key : Intern(k)
    BY <1>2
  <2>2. Chars[k] \in Text /\ Dict!Find(Chars[k])
    BY <2>1, EntryTypes, InternRefines
  <2>. QED BY <2>2 DEF Dict!Next
<1>3. CASE RemoveStep
  BY <1>3, RemoveStepRefines DEF Dict!Next
<1>4. CASE GrowEnd
  BY <1>4, GrowEndRefines
<1>5. CASE Store
  BY <1>5, StoreRefines DEF Dict!Next
<1>6. CASE UNCHANGED <<interning, entries, white, result>>
  BY <1>6, StutterRefines
<1>7. ASSUME NEW pairs, Set(pairs) PROVE UNCHANGED <<interning, entries, white, result>>
  BY <1>7 DEF Set, tableVars
<1>8. CASE \E dead \in SUBSET Keys : Collect(dead)
  <2>1. \E d \in SUBSET DOMAIN [k \in Keys |-> entries[SlotOf(k)].value] : Dict!Collect(d)
    BY <1>8, CollectRefines, BarIsMeaning
  <2>. QED BY <2>1 DEF Dict!Next
<1>9. CASE RemoveEnd
  BY <1>9, RemoveEndRefines DEF Dict!Next
<1>10. CASE Grow
  BY <1>10, GrowRefines
<1>11. Rehash \/ UNCHANGED vars => UNCHANGED <<interning, entries, white, result>>
  BY DEF Rehash, vars, tableVars
<1>. QED BY <1>1, <1>2, <1>3, <1>4, <1>5, <1>6, <1>7, <1>8, <1>9, <1>10, <1>11 DEF Next

\* The table is a dictionary: each operation takes effect at one step, a store at its last,
\* a key leaves only by table_delete, or as a string that the collection at work will free,
\* and growth, even with a collection in the middle of it, loses none.
THEOREM TableImplementsDictionary == Spec => ImplementsDictionary
BY InitRefines, InductiveInvariant, StepRefines, PTL
   DEF Spec, ImplementsDictionary, Dict!Spec

=============================================================================
