--------------------------- MODULE RuntimeProofs ----------------------------
(***************************************************************************)
(* Proofs about module Runtime, for any objects, texts and bounds: its     *)
(* inductive invariant IInv and the safety properties that follow.         *)
(*                                                                         *)
(* A collection is harmless to a C function if what it goes on to use is a *)
(* root whenever it allocates.  So IInv says, for each place pc where a    *)
(* function may be, what it has in hand, what is on the stack above the    *)
(* values of the program, and that roots and references are usable: there, *)
(* and interned if they are strings.                                       *)
(***************************************************************************)
EXTENDS Runtime, ProofLemmas

-----------------------------------------------------------------------------
(***************************************************************************)
(* The inductive invariant.                                                *)
(***************************************************************************)

\* The object v of the heap h may be used by a program.
Usable(v, h) == v \in DOMAIN h /\ (h[v].kind = "string" => h[v].interned)

\* No interned string has the text t.
NewText(h, t) == \A o \in Interned(h) : h[o].text # t

\* Every reference is to something usable, and interned strings differ.
GoodHeap(h) ==
  /\ DOMAIN h \subseteq Obj /\ \A o \in DOMAIN h : h[o] \in ObjectType
  /\ \A o \in DOMAIN h : \A p \in h[o].refs : Usable(p, h)
  /\ \A a, b \in Interned(h) : h[a].text = h[b].text => a = b

\* Roots are usable, but for the string that is pushed while it is interned.
RootsInv ==
  fault = "none" =>
    \A r \in Roots : Usable(r, heap) \/ (pc = "intern_set" /\ r = hand /\ r \in DOMAIN heap)

\* Where the C function in progress has no object, and where it has a new string.
NoHand == {"ready", "name", "concat", "concat_new"}
Interning == {"intern", "intern_set"}

HandInv ==
  /\ pc \in NoHand <=> hand = None
  /\ fault = "none" /\ pc \in Interning =>
       /\ hand \in Strings(heap) /\ NewText(heap, heap[hand].text)
       /\ after \in {"named", "constant", "concat_store"}
  /\ fault = "none" /\ pc \notin NoHand \union Interning => Usable(hand, heap)

\* concatenate goes on to store its result above vm.stack_top.
Storing ==
  \/ pc \in {"concat", "concat_new", "concat_store"}
  \/ pc \in Interning /\ after = "concat_store"

\* Where the top of the stack is there only to protect it.
Protecting == {"intern_set", "constant_write", "interpret_closure"}

\* The room that concatenate has, the stack of the compiler, and what protects hand.
StackInv ==
  /\ capacity \in Nat
  /\ Storing =>
       IF early THEN Len(stack) >= (IF pc = "intern_set" THEN 2 ELSE 1)
       ELSE Len(stack) + (IF pc = "intern_set" THEN 0 ELSE 1) <= capacity
  /\ running = None =>
       IF pc \in Protecting THEN Len(stack) = 1 ELSE stack = <<>>
  /\ running # None /\ pc = "ready" => stack # <<>>
  /\ pc \in Protecting \union {"capture"} => Len(stack) >= 1 /\ Top = hand

\* What string_concat has read, and what it is about to make of it.
ConcatInv ==
  fault = "none" =>
    /\ pc = "concat" =>
         /\ Len(operands) = 2 /\ Range(operands) \subseteq DOMAIN heap
         /\ heap[operands[1]].text + heap[operands[2]].text <= MaxText
    /\ pc = "concat_new" => NewText(heap, chars)

Compiles ==
  \/ pc \in {"name", "named", "constant", "constant_write"}
  \/ pc \in Interning /\ after # "concat_store"

\* A session compiles or executes, never both.
PhaseInv ==
  /\ running # None => compiling = <<>>
  /\ Compiles => compiling # <<>> /\ running = None
  /\ pc \in {"interpret", "interpret_closure"} => compiling = <<>> /\ running = None
  /\ Storing \/ pc \in {"push_closure", "push_actor", "capture"} => running # None

IInv ==
  TypeOK /\ GoodHeap(heap) /\ RootsInv /\ HandInv /\ StackInv /\ ConcatInv /\ PhaseInv

-----------------------------------------------------------------------------
(***************************************************************************)
(* Heaps.                                                                  *)
(***************************************************************************)

\* The heap h is what is left of g.
SubHeap(h, g) == DOMAIN h \subseteq DOMAIN g /\ \A o \in DOMAIN h : h[o] = g[o]

LEMMA SubHeapKeeps ==
  ASSUME NEW g, NEW h, SubHeap(h, g)
  PROVE  /\ Strings(h) = Strings(g) \intersect DOMAIN h
         /\ Interned(h) = Interned(g) \intersect DOMAIN h
         /\ \A v \in DOMAIN h : Usable(v, g) => Usable(v, h)
         /\ \A t : NewText(g, t) => NewText(h, t)
<1>1. Strings(h) = Strings(g) \intersect DOMAIN h
  BY DEF SubHeap, Strings
<1>2. Interned(h) = Interned(g) \intersect DOMAIN h
  BY <1>1 DEF SubHeap, Strings, Interned
<1>3. \A v \in DOMAIN h : Usable(v, g) => Usable(v, h)
  BY DEF SubHeap, Usable
<1>4. \A t : NewText(g, t) => NewText(h, t)
  BY <1>2 DEF SubHeap, NewText, Interned, Strings
<1>. QED BY <1>1, <1>2, <1>3, <1>4

\* What is left of a good heap is good if nothing points out of it.
LEMMA SubHeapGood ==
  ASSUME NEW g, NEW h, SubHeap(h, g), GoodHeap(g),
         \A o \in DOMAIN h : h[o].refs \subseteq DOMAIN h
  PROVE  GoodHeap(h)
<1>1. DOMAIN h \subseteq Obj /\ \A o \in DOMAIN h : h[o] \in ObjectType
  BY DEF SubHeap, GoodHeap
<1>2. ASSUME NEW o \in DOMAIN h, NEW p \in h[o].refs PROVE Usable(p, h)
  BY <1>2, SubHeapKeeps DEF SubHeap, GoodHeap
<1>3. ASSUME NEW a \in Interned(h), NEW b \in Interned(h), h[a].text = h[b].text
      PROVE  a = b
  BY <1>3, SubHeapKeeps DEF SubHeap, GoodHeap
<1>. QED BY <1>1, <1>2, <1>3 DEF GoodHeap

\* A collection keeps the roots and leaves a good heap.
LEMMA AllocatedIs ==
  ASSUME GoodHeap(heap), Roots \subseteq DOMAIN heap, NEW h \in Allocated
  PROVE  GoodHeap(h) /\ SubHeap(h, heap) /\ Roots \subseteq DOMAIN h
<1>1. CASE h = heap
  BY <1>1 DEF SubHeap
<1>2. CASE h = Restrict(heap, Reachable(Roots, Refs))
  <2>. DEFINE kept == Reachable(Roots, Refs)
  <2>1. DOMAIN Refs = DOMAIN heap /\ \A o \in DOMAIN heap : Refs[o] = heap[o].refs
    BY DEF Refs
  <2>2. kept \subseteq DOMAIN heap /\ Roots \subseteq kept
    BY <2>1 DEF Reachable
  <2>3. ASSUME NEW o \in kept, NEW p \in heap[o].refs PROVE p \in kept
    <3>1. o \in DOMAIN heap /\ p \in DOMAIN Refs
      BY <2>1, <2>2 DEF GoodHeap, Usable
    <3>2. ASSUME NEW S \in SUBSET DOMAIN Refs, Roots \subseteq S, Closed(S, Refs)
          PROVE  p \in S
      <4>1. o \in S
        BY <3>2 DEF Reachable
      <4>. QED BY <2>1, <3>1, <3>2, <4>1 DEF Closed
    <3>. QED BY <3>1, <3>2 DEF Reachable
  <2>4. DOMAIN h = kept /\ \A o \in kept : h[o] = heap[o]
    BY <1>2 DEF Restrict
  <2>5. SubHeap(h, heap)
    BY <2>2, <2>4 DEF SubHeap
  <2>. HIDE DEF kept
  <2>6. GoodHeap(h)
    BY <2>3, <2>4, <2>5, SubHeapGood
  <2>. QED BY <2>2, <2>4, <2>5, <2>6
<1>. QED BY <1>1, <1>2 DEF Allocated

\* new is the heap h with one more object, o.
Adds(new, h, o) ==
  /\ o \in Obj \ DOMAIN h
  /\ DOMAIN new = DOMAIN h \union {o} /\ \A a \in DOMAIN h : new[a] = h[a]

\* A new object that refers to usable objects.
LEMMA WithGood ==
  ASSUME NEW h, GoodHeap(h), NEW new, NEW o, Adds(new, h, o),
         new[o] \in ObjectType, ~new[o].interned, \A p \in new[o].refs : Usable(p, h)
  PROVE  /\ GoodHeap(new)
         /\ \A a : Usable(a, h) => Usable(a, new)
         /\ \A t : NewText(h, t) => NewText(new, t)
<1>1. /\ DOMAIN new = DOMAIN h \union {o} /\ o \in Obj /\ o \notin DOMAIN h
      /\ \A a \in DOMAIN h : new[a] = h[a]
  BY DEF Adds
<1>2. Interned(new) = Interned(h)
  <2>1. ASSUME NEW a \in Interned(new) PROVE a \in Interned(h)
    BY <1>1 DEF Interned, Strings
  <2>2. ASSUME NEW a \in Interned(h) PROVE a \in Interned(new)
    BY <1>1 DEF Interned, Strings
  <2>. QED BY <2>1, <2>2
<1>3. \A a : Usable(a, h) => Usable(a, new)
  BY <1>1 DEF Usable
<1>4. \A t : NewText(h, t) => NewText(new, t)
  BY <1>1, <1>2 DEF NewText, Interned, Strings
<1>5. DOMAIN new \subseteq Obj /\ \A a \in DOMAIN new : new[a] \in ObjectType
  BY <1>1 DEF GoodHeap
<1>6. ASSUME NEW a \in DOMAIN new, NEW p \in new[a].refs PROVE Usable(p, new)
  BY <1>1, <1>3 DEF GoodHeap
<1>7. ASSUME NEW a \in Interned(new), NEW b \in Interned(new), new[a].text = new[b].text
      PROVE  a = b
  <2>1. a \in Interned(h) /\ b \in Interned(h) /\ new[a] = h[a] /\ new[b] = h[b]
    BY <1>1, <1>2 DEF Interned, Strings
  <2>. QED BY <1>7, <2>1 DEF GoodHeap
<1>8. GoodHeap(new)
  BY <1>5, <1>6, <1>7 DEF GoodHeap
<1>. QED BY <1>3, <1>4, <1>8

\* An object that is made to refer to other usable objects.
LEMMA LinkGood ==
  ASSUME NEW h, GoodHeap(h), NEW o \in DOMAIN h, NEW targets,
         \A p \in targets \ {Plain} : Usable(p, h), NEW new, new = Link(h, o, targets)
  PROVE  /\ GoodHeap(new) /\ DOMAIN new = DOMAIN h
         /\ \A a : Usable(a, h) => Usable(a, new)
<1>. DEFINE more == targets \ {Plain}
<1>1. DOMAIN new = DOMAIN h
  BY DEF Link
<1>2. \A a \in DOMAIN h : h[a] \in ObjectType
  BY DEF GoodHeap
<1>3. ASSUME NEW a \in DOMAIN h
      PROVE  /\ new[a].kind = h[a].kind /\ new[a].text = h[a].text
             /\ new[a].interned = h[a].interned
             /\ new[a].refs \subseteq h[a].refs \union more
             /\ new[a].kind \in Kinds /\ new[a].text \in Text /\ new[a].interned \in BOOLEAN
             /\ new[a] = [kind |-> new[a].kind, refs |-> new[a].refs, text |-> new[a].text,
                          interned |-> new[a].interned]
  <2>1. CASE a = o
    BY <1>2, <2>1 DEF Link, ObjectType
  <2>2. CASE a # o
    BY <1>2, <2>2 DEF Link, ObjectType
  <2>. QED BY <2>1, <2>2
<1>4. \A a : Usable(a, h) => Usable(a, new)
  BY <1>1, <1>3 DEF Usable
<1>5. more \subseteq Obj
  BY DEF Usable, GoodHeap
<1>6. \A a \in DOMAIN new : new[a] \in ObjectType
  <2>1. ASSUME NEW a \in DOMAIN new PROVE new[a].refs \in SUBSET Obj
    BY <1>1, <1>2, <1>3, <1>5 DEF ObjectType
  <2>. HIDE DEF more
  <2>2. ASSUME NEW a \in DOMAIN new PROVE new[a] \in ObjectType
    <3>. DEFINE k == new[a].kind
                r == new[a].refs
                t == new[a].text
                i == new[a].interned
    <3>1. k \in Kinds /\ r \in SUBSET Obj /\ t \in Text /\ i \in BOOLEAN
      BY <1>1, <1>3, <2>1
    <3>2. new[a] = [kind |-> k, refs |-> r, text |-> t, interned |-> i]
      BY <1>1, <1>3
    <3>. HIDE DEF k, r, t, i
    <3>3. [kind |-> k, refs |-> r, text |-> t, interned |-> i] \in ObjectType
      BY <3>1 DEF ObjectType
    <3>. QED BY <3>2, <3>3
  <2>. QED BY <2>2
<1>7. ASSUME NEW a \in DOMAIN new, NEW p \in new[a].refs PROVE Usable(p, new)
  <2>1. p \in h[a].refs \/ p \in more
    BY <1>1, <1>3
  <2>. QED BY <1>1, <1>4, <2>1 DEF GoodHeap
<1>8. Interned(new) = Interned(h)
  <2>1. ASSUME NEW a \in Interned(new) PROVE a \in Interned(h)
    BY <1>1, <1>3 DEF Interned, Strings
  <2>2. ASSUME NEW a \in Interned(h) PROVE a \in Interned(new)
    BY <1>1, <1>3 DEF Interned, Strings
  <2>. QED BY <2>1, <2>2
<1>9. ASSUME NEW a \in Interned(new), NEW b \in Interned(new), new[a].text = new[b].text
      PROVE  a = b
  <2>1. a \in Interned(h) /\ b \in Interned(h) /\ a \in DOMAIN h /\ b \in DOMAIN h
    BY <1>1, <1>8 DEF Interned, Strings
  <2>. QED BY <1>3, <1>9, <2>1 DEF GoodHeap
<1>10. GoodHeap(new)
  BY <1>1, <1>6, <1>7, <1>9 DEF GoodHeap
<1>. QED BY <1>1, <1>4, <1>10

\* A string whose text no interned string has is interned.
LEMMA InternedGood ==
  ASSUME NEW h, GoodHeap(h), NEW s \in Strings(h), NewText(h, h[s].text)
  PROVE  /\ GoodHeap([h EXCEPT ![s].interned = TRUE])
         /\ DOMAIN [h EXCEPT ![s].interned = TRUE] = DOMAIN h
         /\ \A a : Usable(a, h) \/ a = s => Usable(a, [h EXCEPT ![s].interned = TRUE])
<1>. DEFINE new == [h EXCEPT ![s].interned = TRUE]
<1>1. DOMAIN new = DOMAIN h
  OBVIOUS
<1>2. s \in DOMAIN h /\ h[s].kind = "string" /\ \A a \in DOMAIN h : h[a] \in ObjectType
  BY DEF GoodHeap, Strings
<1>3. ASSUME NEW a \in DOMAIN h, a # s PROVE new[a] = h[a]
  BY <1>3
<1>4. /\ new[s].kind = "string" /\ new[s].text = h[s].text /\ new[s].refs = h[s].refs
      /\ new[s].interned = TRUE /\ new[s] \in ObjectType
  BY <1>2 DEF ObjectType
<1>. HIDE DEF new
<1>5. \A a : Usable(a, h) \/ a = s => Usable(a, new)
  BY <1>1, <1>2, <1>3, <1>4 DEF Usable
<1>6. \A a \in DOMAIN new : new[a] \in ObjectType
  BY <1>1, <1>2, <1>3, <1>4
<1>7. ASSUME NEW a \in DOMAIN new, NEW p \in new[a].refs PROVE Usable(p, new)
  <2>1. p \in h[a].refs
    BY <1>1, <1>3, <1>4
  <2>. QED BY <1>1, <1>5, <2>1 DEF GoodHeap
<1>8. \A a \in Interned(new) : a = s \/ (a \in Interned(h) /\ new[a] = h[a])
  BY <1>1, <1>3 DEF Interned, Strings
<1>9. ASSUME NEW a \in Interned(new), NEW b \in Interned(new), new[a].text = new[b].text
      PROVE  a = b
  <2>1. CASE a = s /\ b # s
    BY <1>4, <1>8, <1>9, <2>1 DEF NewText
  <2>2. CASE b = s /\ a # s
    BY <1>4, <1>8, <1>9, <2>2 DEF NewText
  <2>3. CASE a # s /\ b # s
    BY <1>8, <1>9, <2>3 DEF GoodHeap
  <2>. QED BY <2>1, <2>2, <2>3
<1>10. GoodHeap(new)
  BY <1>1, <1>6, <1>7, <1>9 DEF GoodHeap
<1>. QED BY <1>1, <1>5, <1>10 DEF new

\* A new string.
LEMMA NewString ==
  ASSUME NEW h, GoodHeap(h), NEW s \in Free(h), NEW t \in Text, NEW new,
         new = With(h, s, String(t))
  PROVE  /\ GoodHeap(new)
         /\ s \in Strings(new) /\ new[s].text = t
         /\ \A a : Usable(a, h) => Usable(a, new)
         /\ \A u : NewText(h, u) => NewText(new, u)
<1>1. Adds(new, h, s) /\ new[s] = String(t)
  BY DEF With, Adds, Free
<1>2. /\ new[s] \in ObjectType /\ ~new[s].interned /\ new[s].refs = {}
      /\ new[s].kind = "string" /\ new[s].text = t
  <2>1. /\ String(t) \in ObjectType /\ String(t).interned = FALSE /\ String(t).refs = {}
        /\ String(t).kind = "string" /\ String(t).text = t
    BY DEF String, ObjectType, Kinds
  <2>. QED BY <1>1, <2>1, Zenon
<1>3. \A p \in new[s].refs : Usable(p, h)
  BY <1>2
<1>4. s \in Strings(new)
  BY <1>1, <1>2 DEF Strings, Adds
<1>5. /\ GoodHeap(new)
      /\ \A a : Usable(a, h) => Usable(a, new)
      /\ \A u : NewText(h, u) => NewText(new, u)
  BY <1>1, <1>2, <1>3, WithGood
<1>. QED BY <1>2, <1>4, <1>5

\* Every object of S may be used.
AllUsable(S, h) == \A p \in S : Usable(p, h)

\* new is the heap h with another new object.
Makes(new, h, o, kind, refs) ==
  /\ o \in Free(h) /\ new = With(h, o, Object(kind, refs))
  /\ kind \in Kinds \ {"string"} /\ AllUsable(refs, h)

LEMMA NewObject ==
  ASSUME NEW h, GoodHeap(h), NEW o, NEW kind, NEW refs, NEW new, Makes(new, h, o, kind, refs)
  PROVE  /\ GoodHeap(new)
         /\ Usable(o, new) /\ DOMAIN new = DOMAIN h \union {o} /\ o \in Obj
         /\ \A a : Usable(a, h) => Usable(a, new)
<1>0. /\ o \in Free(h) /\ new = With(h, o, Object(kind, refs))
      /\ kind \in Kinds /\ kind # "string" /\ \A p \in refs : Usable(p, h)
  BY DEF Makes, AllUsable
<1>1. Adds(new, h, o) /\ new[o] = Object(kind, refs)
  BY <1>0 DEF With, Adds, Free
<1>2. refs \in SUBSET Obj
  BY <1>0 DEF GoodHeap, Usable
<1>3. /\ new[o] \in ObjectType /\ ~new[o].interned /\ new[o].refs = refs
      /\ new[o].kind = kind
  <2>. DEFINE object == Object(kind, refs)
  <2>1. /\ object \in ObjectType /\ object.interned = FALSE /\ object.refs = refs
        /\ object.kind = kind
    BY <1>0, <1>2, BoundAssumption DEF Object, ObjectType, Text
  <2>. HIDE DEF object
  <2>. QED BY <1>1, <2>1, Zenon DEF object
<1>4. Usable(o, new)
  BY <1>0, <1>1, <1>3 DEF Usable, Adds
<1>5. /\ GoodHeap(new)
      /\ \A a : Usable(a, h) => Usable(a, new)
  <2>1. \A p \in new[o].refs : Usable(p, h)
    BY <1>0, <1>3
  <2>. QED BY <1>1, <1>3, <2>1, WithGood
<1>. QED BY <1>1, <1>4, <1>5 DEF Adds

-----------------------------------------------------------------------------
(***************************************************************************)
(* The stack.                                                              *)
(***************************************************************************)

LEMMA AppendIs ==
  ASSUME NEW S, NEW seq \in Seq(S), NEW v \in S
  PROVE  /\ Append(seq, v) \in Seq(S) /\ Len(Append(seq, v)) = Len(seq) + 1
         /\ Append(seq, v)[Len(seq) + 1] = v
         /\ Range(Append(seq, v)) \subseteq Range(seq) \union {v}
<1>1. /\ Append(seq, v) \in Seq(S) /\ Len(Append(seq, v)) = Len(seq) + 1
      /\ Append(seq, v)[Len(seq) + 1] = v
      /\ \A i \in 1..Len(seq) : Append(seq, v)[i] = seq[i]
  OBVIOUS
<1>2. DOMAIN Append(seq, v) = 1..(Len(seq) + 1) /\ DOMAIN seq = 1..Len(seq) /\ Len(seq) \in Nat
  OBVIOUS
<1>3. ASSUME NEW i \in 1..(Len(seq) + 1) PROVE i \in 1..Len(seq) \/ i = Len(seq) + 1
  BY <1>2
<1>. QED BY <1>1, <1>2, <1>3 DEF Range

LEMMA RangeIs ==
  ASSUME NEW S, NEW seq \in Seq(S)
  PROVE  /\ Range(seq) \subseteq S
         /\ \A i \in 1..Len(seq) : seq[i] \in Range(seq)
BY DEF Range

LEMMA DropIs ==
  ASSUME NEW n \in 0..Len(stack), stack \in Seq(Obj \union {Plain})
  PROVE  /\ Drop(n) \in Seq(Obj \union {Plain}) /\ Len(Drop(n)) = Len(stack) - n
         /\ Range(Drop(n)) \subseteq Range(stack)
         /\ \A i \in 1..(Len(stack) - n) : Drop(n)[i] = stack[i]
<1>. DEFINE m == Len(stack) - n
<1>1. m \in 0..Len(stack)
  OBVIOUS
<1>2. /\ Drop(n) \in Seq(Obj \union {Plain}) /\ Len(Drop(n)) = m
      /\ \A i \in 1..m : Drop(n)[i] = stack[i]
  <2>. HIDE DEF m
  <2>1. Drop(n) = SubSeq(stack, 1, m)
    BY DEF Drop, m
  <2>. QED BY <1>1, <2>1, PrefixIs, Zenon
<1>3. DOMAIN Drop(n) = 1..m /\ DOMAIN stack = 1..Len(stack) /\ 1..m \subseteq 1..Len(stack)
  <2>. HIDE DEF m
  <2>. QED BY <1>1, <1>2
<1>4. Range(Drop(n)) \subseteq Range(stack)
  BY <1>2, <1>3 DEF Range
<1>. QED BY <1>2, <1>4

\* The stack is within its capacity.
LEMMA StackFacts ==
  ASSUME IInv
  PROVE  /\ stack \in Seq(Obj \union {Plain}) /\ Len(stack) \in Nat
         /\ capacity \in Nat /\ Len(stack) <= capacity
         /\ stack # <<>> => Len(stack) >= 1
         /\ stack = <<>> => Len(stack) = 0
         /\ Len(stack) >= 1 => Top \in Range(stack) /\ Top \in Obj \union {Plain}
         /\ Len(stack) > 1 => Below \in Range(stack) /\ Below \in Obj \union {Plain}
<1>1. /\ stack \in Seq(Obj \union {Plain}) /\ Len(stack) \in Nat
      /\ capacity \in Nat /\ Len(stack) <= capacity
      /\ stack # <<>> => Len(stack) >= 1
      /\ stack = <<>> => Len(stack) = 0
  BY DEF IInv, TypeOK, StackInv
<1>2. ASSUME Len(stack) >= 1 PROVE Top \in Range(stack) /\ Top \in Obj \union {Plain}
  <2>1. Len(stack) \in 1..Len(stack)
    BY <1>1, <1>2
  <2>. QED BY <1>1, <2>1, RangeIs DEF Top
<1>3. ASSUME Len(stack) > 1 PROVE Below \in Range(stack) /\ Below \in Obj \union {Plain}
  <2>1. Len(stack) - 1 \in 1..Len(stack)
    BY <1>1, <1>3
  <2>. QED BY <1>1, <2>1, RangeIs DEF Below
<1>. QED BY <1>1, <1>2, <1>3

\* Values on the stack, as well as the other roots, are roots.
LEMMA RootsAre ==
  ASSUME IInv
  PROVE  /\ \A v \in Range(stack) : v \in Obj => v \in Roots
         /\ running # None => running \in Roots
         /\ globals \subseteq Roots
         /\ \A i \in 1..Len(compiling) : compiling[i] \in Roots
         /\ Roots \subseteq Obj
<1>1. Range(stack) \subseteq Obj \union {Plain} /\ Range(compiling) \subseteq Obj
  BY RangeIs DEF IInv, TypeOK
<1>2. /\ globals \subseteq Obj /\ open \subseteq Obj /\ running \in Obj \union {None}
      /\ compiling \in Seq(Obj)
  BY DEF IInv, TypeOK
<1>. QED BY <1>1, <1>2, RangeIs, ObjAssumption DEF Roots

\* What is safe to use while no fault has occurred.
LEMMA SafeFacts ==
  ASSUME IInv, fault = "none"
  PROVE  /\ GoodHeap(heap) /\ Roots \subseteq DOMAIN heap
         /\ pc # "intern_set" => \A r \in Roots : Usable(r, heap)
BY DEF IInv, RootsInv, Usable

\* After a collection, a root is as usable as before.
LEMMA CollectFacts ==
  ASSUME IInv, fault = "none", NEW h \in Allocated
  PROVE  /\ GoodHeap(h) /\ SubHeap(h, heap) /\ Roots \subseteq DOMAIN h
         /\ DOMAIN h \subseteq Obj
         /\ \A v : v \in DOMAIN h /\ Usable(v, heap) => Usable(v, h)
         /\ \A t : NewText(heap, t) => NewText(h, t)
         /\ pc # "intern_set" => \A r \in Roots : Usable(r, h)
<1>1. GoodHeap(heap) /\ Roots \subseteq DOMAIN heap
      /\ (pc # "intern_set" => \A r \in Roots : Usable(r, heap))
  BY SafeFacts
<1>2. GoodHeap(h) /\ SubHeap(h, heap) /\ Roots \subseteq DOMAIN h
  BY <1>1, AllocatedIs
<1>3. /\ \A v \in DOMAIN h : Usable(v, heap) => Usable(v, h)
      /\ \A t : NewText(heap, t) => NewText(h, t)
  BY <1>2, SubHeapKeeps, Zenon
<1>4. DOMAIN h \subseteq Obj
  BY <1>2 DEF GoodHeap
<1>. QED BY <1>1, <1>2, <1>3, <1>4

\* push: what was a root is kept; if the pushed value is not, that is a fault.
LEMMA PushFacts ==
  ASSUME IInv, fault = "none", NEW v \in Obj \union {Plain}, Push(v)
  PROVE  /\ stack' \in Seq(Obj \union {Plain}) /\ Len(stack') = Len(stack) + 1
         /\ stack'[Len(stack) + 1] = v
         /\ capacity' \in Nat /\ Len(stack) + 1 <= capacity'
         /\ heap' \in Allocated
         /\ fault' \in {"none", "push"}
         /\ fault' = "none" => v = Plain \/ v \in DOMAIN heap'
         /\ Roots' \subseteq Roots \union ({v} \ {Plain})
<1>1. /\ stack \in Seq(Obj \union {Plain}) /\ Len(stack) \in Nat
      /\ capacity \in Nat /\ Len(stack) <= capacity
  BY StackFacts
<1>2. stack' = Append(stack, v)
  BY DEF Push
<1>3. /\ stack' \in Seq(Obj \union {Plain}) /\ Len(stack') = Len(stack) + 1
      /\ stack'[Len(stack) + 1] = v /\ Range(stack') \subseteq Range(stack) \union {v}
  BY <1>1, <1>2, AppendIs
<1>4. capacity' \in Nat /\ Len(stack) + 1 <= capacity'
  <2>1. CASE Len(stack) = capacity
    <3>1. capacity' = GrowCapacity(capacity)
      BY <2>1 DEF Push
    <3>. QED BY <1>1, <2>1, <3>1, BoundAssumption DEF GrowCapacity
  <2>2. CASE Len(stack) # capacity
    BY <1>1, <2>2 DEF Push
  <2>. QED BY <2>1, <2>2
<1>5. heap' \in Allocated
  BY DEF Push, Allocated
<1>6. fault' \in {"none", "push"} /\ (fault' = "none" => v = Plain \/ v \in DOMAIN heap')
  BY DEF Push
<1>7. Roots' \subseteq Roots \union ({v} \ {Plain})
  BY <1>3 DEF Push, Roots
<1>. QED BY <1>1, <1>3, <1>4, <1>5, <1>6, <1>7

\* Between the C functions little is asked: a good heap, usable roots, and a stack
\* only for what runs.
LEMMA ReadyStep ==
  ASSUME IInv, pc' = "ready", hand' = None, GoodHeap(heap'),
         UNCHANGED <<after, operands, chars>>, early' \in BOOLEAN,
         stack' \in Seq(Obj \union {Plain}), Len(stack') <= capacity', capacity' \in Nat,
         globals' \subseteq Obj, open' \subseteq Obj, UNCHANGED compiling,
         running' \in Obj \union {None},
         running' = None => stack' = <<>>, running' # None => compiling = <<>> /\ stack' # <<>>,
         fault' \in {"none", "push"},
         fault' = "none" => \A r \in Roots' : Usable(r, heap')
  PROVE  IInv'
<1>1. TypeOK'
  BY DEF IInv, TypeOK, Pcs, GoodHeap
<1>2. GoodHeap(heap)'
  OBVIOUS
<1>3. RootsInv'
  BY DEF RootsInv
<1>4. HandInv'
  BY DEF HandInv, NoHand, Interning
<1>5. StackInv'
  BY DEF StackInv, Storing, Interning, Protecting
<1>6. ConcatInv'
  BY DEF ConcatInv
<1>7. PhaseInv'
  BY DEF PhaseInv, Storing, Compiles, Interning
<1>. QED BY <1>1, <1>2, <1>3, <1>4, <1>5, <1>6, <1>7 DEF IInv

-----------------------------------------------------------------------------
(***************************************************************************)
(* Strings.                                                                *)
(***************************************************************************)

LEMMA InternPushStep ==
  ASSUME IInv, InternPush
  PROVE  IInv'
<1>1. /\ pc = "intern" /\ fault = "none" /\ pc' = "intern_set" /\ Push(hand)
      /\ UNCHANGED <<after, hand, operands, chars, early>>
      /\ UNCHANGED <<globals, open, compiling, running>>
  BY DEF InternPush, At, Push, localVars
<1>2. /\ hand # None /\ hand \in Obj /\ hand # Plain
      /\ hand \in Strings(heap) /\ NewText(heap, heap[hand].text)
      /\ after \in {"named", "constant", "concat_store"}
  BY <1>1, ObjAssumption DEF IInv, HandInv, NoHand, Interning, TypeOK
<1>3. /\ stack' \in Seq(Obj \union {Plain}) /\ Len(stack') = Len(stack) + 1
      /\ stack'[Len(stack) + 1] = hand /\ Len(stack) + 1 <= capacity' /\ capacity' \in Nat
      /\ heap' \in Allocated /\ fault' \in {"none", "push"}
      /\ fault' = "none" => hand \in DOMAIN heap'
      /\ Roots' \subseteq Roots \union {hand}
  BY <1>1, <1>2, PushFacts
<1>4. /\ GoodHeap(heap') /\ SubHeap(heap', heap) /\ Roots \subseteq DOMAIN heap'
      /\ \A r \in Roots : Usable(r, heap')
      /\ \A t : NewText(heap, t) => NewText(heap', t)
  BY <1>1, <1>3, CollectFacts
<1>5. TypeOK'
  BY <1>1, <1>3, <1>4 DEF IInv, TypeOK, Pcs, GoodHeap
<1>6. GoodHeap(heap)'
  BY <1>4
<1>7. RootsInv'
  BY <1>1, <1>3, <1>4 DEF RootsInv
<1>8. HandInv'
  <2>1. ASSUME fault' = "none"
        PROVE  hand \in Strings(heap') /\ NewText(heap', heap'[hand].text)
    <3>1. hand \in DOMAIN heap' /\ heap'[hand] = heap[hand]
      BY <1>3, <1>4, <2>1 DEF SubHeap
    <3>. QED BY <1>2, <1>4, <3>1 DEF Strings
  <2>. QED BY <1>1, <1>2, <2>1 DEF HandInv, NoHand, Interning
<1>9. StackInv'
  <2>1. running = None => Len(stack) = 0
    BY <1>1, StackFacts DEF IInv, StackInv, Protecting
  <2>2. Len(stack) \in Nat /\ (after = "concat_store" /\ early => Len(stack) >= 1)
    BY <1>1, StackFacts DEF IInv, StackInv, Storing, Interning
  <2>3. Len(stack') >= 1 /\ Top' = hand
    BY <1>3, <2>2 DEF Top
  <2>. QED BY <1>1, <1>3, <2>1, <2>2, <2>3 DEF StackInv, Storing, Interning, Protecting
<1>10. ConcatInv'
  BY <1>1 DEF ConcatInv
<1>11. PhaseInv'
  BY <1>1 DEF IInv, PhaseInv, Storing, Compiles, Interning
<1>. QED BY <1>5, <1>6, <1>7, <1>8, <1>9, <1>10, <1>11 DEF IInv

LEMMA InternSetStep ==
  ASSUME IInv, InternSet
  PROVE  IInv'
<1>1. /\ pc = "intern_set" /\ fault = "none" /\ fault' = "none"
      /\ stack' = Drop(1) /\ pc' = after /\ after' = "ready"
      /\ UNCHANGED <<capacity, globals, open, compiling, running, hand, operands, chars, early>>
  BY DEF InternSet, At
<1>2. PICK h \in Allocated : heap' = [h EXCEPT ![hand].interned = TRUE]
  BY DEF InternSet
<1>3. /\ hand \in Strings(heap) /\ NewText(heap, heap[hand].text) /\ hand # None
      /\ after \in {"named", "constant", "concat_store"}
      /\ Len(stack) >= 1 /\ Top = hand /\ hand \in Obj
  BY <1>1, ObjAssumption
     DEF IInv, HandInv, NoHand, Interning, StackInv, Protecting, TypeOK
<1>4. /\ GoodHeap(h) /\ SubHeap(h, heap) /\ Roots \subseteq DOMAIN h
      /\ \A v : v \in DOMAIN h /\ Usable(v, heap) => Usable(v, h)
      /\ \A t : NewText(heap, t) => NewText(h, t)
  BY <1>1, CollectFacts
<1>5. hand \in Strings(h) /\ NewText(h, h[hand].text)
  <2>1. hand \in Roots
    BY <1>3, StackFacts, RootsAre
  <2>2. hand \in DOMAIN h /\ h[hand] = heap[hand]
    BY <1>4, <2>1 DEF SubHeap
  <2>. QED BY <1>3, <1>4, <2>2 DEF Strings
<1>6. /\ GoodHeap(heap') /\ DOMAIN heap' = DOMAIN h
      /\ \A a : Usable(a, h) \/ a = hand => Usable(a, heap')
  BY <1>2, <1>4, <1>5, InternedGood
<1>7. /\ stack' \in Seq(Obj \union {Plain}) /\ Len(stack') = Len(stack) - 1
      /\ Range(stack') \subseteq Range(stack) /\ Len(stack) \in Nat
  <2>1. 1 \in 0..Len(stack) /\ stack \in Seq(Obj \union {Plain}) /\ Len(stack) \in Nat
    BY <1>3, StackFacts
  <2>. QED BY <1>1, <2>1, DropIs
<1>8. TypeOK'
  <2>1. Len(stack') <= capacity'
    BY <1>1, <1>7, StackFacts
  <2>. QED BY <1>1, <1>3, <1>6, <1>7, <2>1 DEF IInv, TypeOK, Pcs, GoodHeap
<1>9. GoodHeap(heap)'
  BY <1>6
<1>10. RootsInv'
  <2>1. Roots' \subseteq Roots
    BY <1>1, <1>7 DEF Roots
  <2>2. \A r \in Roots : Usable(r, heap) \/ r = hand
    BY <1>1 DEF IInv, RootsInv
  <2>. QED BY <1>4, <1>6, <2>1, <2>2 DEF RootsInv
<1>11. HandInv'
  BY <1>1, <1>3, <1>6 DEF HandInv, NoHand, Interning
<1>12. StackInv'
  <2>1. after = "concat_store" => IF early THEN Len(stack) >= 2 ELSE Len(stack) <= capacity
    BY <1>1 DEF IInv, StackInv, Storing, Interning
  <2>2. capacity \in Nat /\ (running = None => Len(stack) = 1)
    BY <1>1 DEF IInv, StackInv, Protecting
  <2>3. ASSUME running = None
        PROVE  stack' = <<>>
    <3>1. Len(stack) = 1
      BY <2>2, <2>3
    <3>2. PICK rest \in Seq(Obj \union {Plain}) : rest = stack'
      BY <1>7
    <3>3. Len(rest) = 0
      BY <1>7, <3>1, <3>2
    <3>4. rest = <<>>
      BY <3>3
    <3>. QED BY <3>2, <3>4
  <2>4. after = "concat_store" =>
          IF early THEN Len(stack') >= 1 ELSE Len(stack') + 1 <= capacity
    BY <1>7, <2>1, <2>2
  <2>5. pc' \in {"named", "constant", "concat_store"} /\ pc' = after
    BY <1>1, <1>3
  <2>. QED BY <1>1, <2>2, <2>3, <2>4, <2>5 DEF StackInv, Storing, Interning, Protecting
<1>13. ConcatInv'
  BY <1>1, <1>3 DEF ConcatInv
<1>14. PhaseInv'
  BY <1>1, <1>3 DEF IInv, PhaseInv, Storing, Compiles, Interning
<1>. QED BY <1>8, <1>9, <1>10, <1>11, <1>12, <1>13, <1>14 DEF IInv

\* What copy_string leaves: an interned string, or a new one with a new text.
LEMMA CopyStringFacts ==
  ASSUME IInv, fault = "none", pc # "intern_set", NEW t \in Text, NEW label,
         CopyString(t, label)
  PROVE  /\ GoodHeap(heap') /\ \A r \in Roots : Usable(r, heap')
         /\ hand' \in Obj
         /\ \/ /\ Usable(hand', heap') /\ pc' = label /\ after' = after
            \/ /\ hand' \in Strings(heap') /\ NewText(heap', heap'[hand'].text)
               /\ pc' = "intern" /\ after' = label
<1>1. PICK h \in Allocated, s \in Obj :
        /\ s \in Free(h)
        /\ heap' = With(h, s, String(t))
        /\ \/ /\ Found(h, t) # {}
              /\ hand' \in Found(h, t)
              /\ pc' = label
              /\ UNCHANGED after
           \/ /\ Found(h, t) = {}
              /\ hand' = s
              /\ pc' = "intern"
              /\ after' = label
  BY DEF CopyString, Free
<1>2. GoodHeap(h) /\ DOMAIN h \subseteq Obj /\ \A r \in Roots : Usable(r, h)
  BY CollectFacts
<1>3. s \in Obj /\ s \notin DOMAIN h
  BY <1>1 DEF Free
<1>4. /\ GoodHeap(heap') /\ s \in Strings(heap') /\ heap'[s].text = t
      /\ \A a : Usable(a, h) => Usable(a, heap')
      /\ \A u : NewText(h, u) => NewText(heap', u)
  BY <1>1, <1>2, NewString
<1>5. \A o \in Found(h, t) : Usable(o, h)
  BY DEF Found, Interned, Strings, Usable
<1>6. Found(h, t) = {} => NewText(h, t)
  BY DEF Found, NewText
<1>7. CASE Found(h, t) # {} /\ hand' \in Found(h, t) /\ pc' = label /\ UNCHANGED after
  BY <1>2, <1>4, <1>5, <1>7 DEF Usable
<1>8. CASE Found(h, t) = {} /\ hand' = s /\ pc' = "intern" /\ after' = label
  BY <1>2, <1>3, <1>4, <1>6, <1>8
<1>. QED BY <1>1, <1>7, <1>8

\* copy_string for the compiler.
LEMMA CopyStringStep ==
  ASSUME IInv, fault = "none", pc \in {"ready", "name"}, compiling # <<>>,
         NEW t \in Text, NEW label \in {"named", "constant"}, CopyString(t, label)
  PROVE  IInv'
<1>1. /\ GoodHeap(heap') /\ \A r \in Roots : Usable(r, heap')
      /\ hand' \in Obj /\ hand' # None
      /\ \/ /\ Usable(hand', heap') /\ pc' = label /\ after' = after
         \/ /\ hand' \in Strings(heap') /\ NewText(heap', heap'[hand'].text)
            /\ pc' = "intern" /\ after' = label
  BY CopyStringFacts, ObjAssumption
<1>2. UNCHANGED <<stack, capacity, globals, open, compiling, running, operands, chars, early,
                  fault>>
  BY DEF CopyString, rootVars
<1>3. running = None /\ stack = <<>> /\ capacity \in Nat
  BY DEF IInv, PhaseInv, StackInv, Protecting
<1>4. TypeOK'
  BY <1>1, <1>2 DEF IInv, TypeOK, Pcs, GoodHeap
<1>5. GoodHeap(heap)'
  BY <1>1
<1>6. RootsInv'
  <2>1. Roots' = Roots
    BY <1>2 DEF Roots
  <2>. QED BY <1>1, <2>1 DEF RootsInv
<1>7. HandInv'
  BY <1>1 DEF HandInv, NoHand, Interning
<1>8. StackInv'
  BY <1>1, <1>2, <1>3 DEF StackInv, Storing, Interning, Protecting
<1>9. ConcatInv'
  BY <1>1 DEF ConcatInv
<1>10. PhaseInv'
  BY <1>1, <1>2, <1>3 DEF PhaseInv, Storing, Compiles, Interning
<1>. QED BY <1>4, <1>5, <1>6, <1>7, <1>8, <1>9, <1>10 DEF IInv

LEMMA ConcatenateStep ==
  ASSUME IInv, Concatenate
  PROVE  IInv'
<1>. DEFINE n == IF early' THEN 1 ELSE 2
<1>1. /\ pc = "ready" /\ fault = "none" /\ fault' = "none" /\ pc' = "concat"
      /\ Len(stack) > 1 /\ Is(Top, "string") /\ Is(Below, "string")
      /\ heap[Top].text + heap[Below].text <= MaxText
      /\ operands' = <<Below, Top>> /\ early' \in BOOLEAN /\ stack' = Drop(n)
      /\ UNCHANGED <<heap, capacity, globals, open, compiling, running, after, hand, chars>>
  BY DEF Concatenate, Ready
<1>2. n \in 0..Len(stack) /\ Len(stack) \in Nat /\ stack \in Seq(Obj \union {Plain})
  BY <1>1, StackFacts
<1>3. /\ stack' \in Seq(Obj \union {Plain}) /\ Len(stack') = Len(stack) - n
      /\ Range(stack') \subseteq Range(stack)
  <2>. HIDE DEF n
  <2>. QED BY <1>1, <1>2, DropIs
<1>4. capacity \in Nat /\ Len(stack) <= capacity /\ stack # <<>>
  BY <1>1, StackFacts
<1>5. running # None /\ compiling = <<>>
  BY <1>1, <1>4 DEF IInv, StackInv, Protecting, PhaseInv
<1>6. Top \in DOMAIN heap /\ Below \in DOMAIN heap /\ DOMAIN heap \subseteq Obj
  BY <1>1 DEF Is, IInv, TypeOK
<1>7. operands' \in Seq(Obj)
  BY <1>1, <1>6
<1>8. TypeOK'
  <2>1. Len(stack') <= capacity'
    BY <1>1, <1>2, <1>3, <1>4
  <2>. QED BY <1>1, <1>3, <1>7, <2>1 DEF IInv, TypeOK, Pcs
<1>9. GoodHeap(heap)'
  BY <1>1 DEF IInv
<1>10. RootsInv'
  <2>1. Roots' \subseteq Roots
    BY <1>1, <1>3 DEF Roots
  <2>. QED BY <1>1, <2>1 DEF IInv, RootsInv
<1>11. HandInv'
  BY <1>1 DEF IInv, HandInv, NoHand, Interning
<1>12. StackInv'
  <2>1. IF early' THEN Len(stack') >= 1 ELSE Len(stack') + 1 <= capacity'
    BY <1>1, <1>2, <1>3, <1>4
  <2>. QED BY <1>1, <1>4, <1>5, <2>1 DEF StackInv, Storing, Interning, Protecting
<1>13. ConcatInv'
  <2>1. Len(operands') = 2 /\ operands'[1] = Below /\ operands'[2] = Top
    BY <1>1
  <2>2. Range(operands') \subseteq DOMAIN heap
    BY <1>1, <1>6 DEF Range
  <2>3. heap[Top].text \in Nat /\ heap[Below].text \in Nat
    BY <1>6 DEF IInv, TypeOK, ObjectType, Text
  <2>4. heap[Below].text + heap[Top].text <= MaxText
    BY <1>1, <2>3
  <2>. QED BY <1>1, <2>1, <2>2, <2>4 DEF ConcatInv
<1>14. PhaseInv'
  BY <1>1, <1>5 DEF PhaseInv, Storing, Compiles, Interning
<1>. QED BY <1>8, <1>9, <1>10, <1>11, <1>12, <1>13, <1>14 DEF IInv

LEMMA ConcatBufferStep ==
  ASSUME IInv, ConcatBuffer
  PROVE  IInv'
<1>. DEFINE t == heap[operands[1]].text + heap[operands[2]].text
<1>1. /\ pc = "concat" /\ fault = "none" /\ heap' \in Allocated
      /\ UNCHANGED <<stack, capacity, globals, open, compiling, running, after, early>>
      /\ \/ fault' = "concat" /\ UNCHANGED <<pc, hand, chars, operands>>
         \/ /\ fault' = "none" /\ operands' = <<>>
            /\ \/ Found(heap', t) # {} /\ hand' \in Found(heap', t)
                  /\ pc' = "concat_store" /\ UNCHANGED chars
               \/ Found(heap', t) = {} /\ chars' = t
                  /\ pc' = "concat_new" /\ UNCHANGED hand
  BY DEF ConcatBuffer, At, rootVars
<1>2. /\ GoodHeap(heap') /\ \A r \in Roots : Usable(r, heap')
      /\ DOMAIN heap' \subseteq Obj
  BY <1>1, CollectFacts
<1>3. hand = None /\ running # None /\ compiling = <<>>
  BY <1>1 DEF IInv, HandInv, NoHand, PhaseInv, Storing
<1>4. t \in Text
  <2>1. Len(operands) = 2 /\ Range(operands) \subseteq DOMAIN heap /\ t <= MaxText
    BY <1>1 DEF IInv, ConcatInv
  <2>2. operands[1] \in Range(operands) /\ operands[2] \in Range(operands)
    BY <2>1, RangeIs DEF IInv, TypeOK
  <2>3. heap[operands[1]].text \in Nat /\ heap[operands[2]].text \in Nat
    BY <2>1, <2>2 DEF IInv, TypeOK, ObjectType, Text
  <2>. QED BY <2>1, <2>3, BoundAssumption DEF Text
<1>. HIDE DEF t
<1>5. \A o \in Found(heap', t) : Usable(o, heap') /\ o \in Obj /\ o # None
  BY <1>2, ObjAssumption DEF Found, Interned, Strings, Usable
<1>6. Found(heap', t) = {} => NewText(heap', t)
  BY DEF Found, NewText
<1>7. TypeOK'
  BY <1>1, <1>2, <1>3, <1>4, <1>5 DEF IInv, TypeOK, Pcs, GoodHeap
<1>8. GoodHeap(heap)'
  BY <1>2
<1>9. RootsInv'
  <2>1. Roots' = Roots
    BY <1>1 DEF Roots
  <2>. QED BY <1>2, <2>1 DEF RootsInv
<1>10. HandInv'
  BY <1>1, <1>3, <1>5 DEF HandInv, NoHand, Interning
<1>11. StackInv'
  BY <1>1, <1>3 DEF IInv, StackInv, Storing, Interning, Protecting
<1>12. ConcatInv'
  BY <1>1, <1>6 DEF ConcatInv
<1>13. PhaseInv'
  BY <1>1, <1>3 DEF PhaseInv, Storing, Compiles, Interning
<1>. QED BY <1>7, <1>8, <1>9, <1>10, <1>11, <1>12, <1>13 DEF IInv

LEMMA ConcatNewStep ==
  ASSUME IInv, ConcatNew
  PROVE  IInv'
<1>1. /\ pc = "concat_new" /\ fault = "none" /\ fault' = "none"
      /\ chars' = 0 /\ pc' = "intern" /\ after' = "concat_store"
      /\ UNCHANGED <<stack, capacity, globals, open, compiling, running, operands, early>>
  BY DEF ConcatNew, At, rootVars
<1>2. PICK h \in Allocated, s \in Obj :
        s \in Free(h) /\ heap' = With(h, s, String(chars)) /\ hand' = s
  BY DEF ConcatNew, Free
<1>3. /\ GoodHeap(h) /\ \A r \in Roots : Usable(r, h)
      /\ \A t : NewText(heap, t) => NewText(h, t)
  BY <1>1, CollectFacts
<1>4. s \in Obj /\ s \notin DOMAIN h /\ s # None
  BY <1>2, ObjAssumption DEF Free
<1>5. chars \in Text /\ NewText(heap, chars)
  BY <1>1 DEF IInv, TypeOK, ConcatInv
<1>6. /\ GoodHeap(heap') /\ s \in Strings(heap') /\ heap'[s].text = chars
      /\ \A a : Usable(a, h) => Usable(a, heap')
      /\ \A t : NewText(h, t) => NewText(heap', t)
  BY <1>2, <1>3, <1>5, NewString
<1>7. hand' \in Strings(heap') /\ NewText(heap', heap'[hand'].text)
  BY <1>2, <1>3, <1>5, <1>6
<1>8. TypeOK'
  BY <1>1, <1>2, <1>4, <1>6, BoundAssumption DEF IInv, TypeOK, Pcs, GoodHeap, Text
<1>9. GoodHeap(heap)'
  BY <1>6
<1>10. RootsInv'
  <2>1. Roots' = Roots
    BY <1>1 DEF Roots
  <2>. QED BY <1>3, <1>6, <2>1 DEF RootsInv
<1>11. HandInv'
  BY <1>1, <1>2, <1>4, <1>7 DEF HandInv, NoHand, Interning
<1>12. StackInv'
  BY <1>1 DEF IInv, StackInv, Storing, Interning, Protecting
<1>13. ConcatInv'
  BY <1>1 DEF ConcatInv
<1>14. PhaseInv'
  BY <1>1 DEF IInv, PhaseInv, Storing, Compiles, Interning
<1>. QED BY <1>8, <1>9, <1>10, <1>11, <1>12, <1>13, <1>14 DEF IInv

LEMMA ConcatStoreStep ==
  ASSUME IInv, ConcatStore
  PROVE  IInv'
<1>. DEFINE rest == IF early THEN Drop(1) ELSE stack
<1>1. /\ pc = "concat_store" /\ fault = "none" /\ fault' = "none"
      /\ stack' = Append(rest, hand) /\ pc' = "ready" /\ hand' = None /\ early' = FALSE
      /\ UNCHANGED <<heap, capacity, globals, open, compiling, running, after, operands, chars>>
  BY DEF ConcatStore, At
<1>2. Usable(hand, heap) /\ hand \in Obj
  BY <1>1 DEF IInv, HandInv, NoHand, Interning, TypeOK
<1>3. /\ IF early THEN Len(stack) >= 1 ELSE Len(stack) + 1 <= capacity
      /\ running # None /\ compiling = <<>>
  BY <1>1 DEF IInv, StackInv, Storing, PhaseInv
<1>4. /\ stack \in Seq(Obj \union {Plain}) /\ Len(stack) \in Nat
      /\ capacity \in Nat /\ Len(stack) <= capacity
  BY StackFacts
<1>5. /\ rest \in Seq(Obj \union {Plain}) /\ Len(rest) \in Nat /\ Len(rest) + 1 <= capacity
      /\ Range(rest) \subseteq Range(stack)
  <2>1. CASE early
    <3>1. 1 \in 0..Len(stack)
      BY <1>3, <1>4, <2>1
    <3>2. /\ Drop(1) \in Seq(Obj \union {Plain}) /\ Len(Drop(1)) = Len(stack) - 1
          /\ Range(Drop(1)) \subseteq Range(stack)
      BY <1>4, <3>1, DropIs
    <3>. QED BY <1>3, <1>4, <2>1, <3>2
  <2>2. CASE ~early
    BY <1>3, <1>4, <2>2
  <2>. QED BY <2>1, <2>2
<1>. HIDE DEF rest
<1>6. /\ stack' \in Seq(Obj \union {Plain}) /\ Len(stack') = Len(rest) + 1
      /\ Range(stack') \subseteq Range(rest) \union {hand}
  BY <1>1, <1>2, <1>5, AppendIs
<1>7. Len(stack') <= capacity' /\ stack' # <<>>
  <2>1. Len(stack') <= capacity' /\ Len(stack') # 0
    BY <1>1, <1>5, <1>6
  <2>. QED BY <2>1
<1>8. \A r \in Roots' : Usable(r, heap')
  <2>1. Roots' \subseteq Roots \union {hand}
    BY <1>1, <1>5, <1>6 DEF Roots
  <2>. QED BY <1>1, <1>2, <2>1, SafeFacts
<1>9. /\ GoodHeap(heap') /\ globals \subseteq Obj /\ open \subseteq Obj
      /\ running \in Obj \union {None}
  BY <1>1 DEF IInv, TypeOK
<1>. QED BY <1>1, <1>3, <1>4, <1>6, <1>7, <1>8, <1>9, ReadyStep

-----------------------------------------------------------------------------
(***************************************************************************)
(* Compilation.                                                            *)
(***************************************************************************)

\* While a function is compiled the stack is empty, but for what it protects.
LEMMA CompilerFacts ==
  ASSUME IInv, compiling # <<>>
  PROVE  /\ running = None /\ Head(compiling) \in Roots /\ Head(compiling) \in Obj
         /\ Len(compiling) \in Nat /\ Len(compiling) >= 1
         /\ Tail(compiling) \in Seq(Obj) /\ Range(Tail(compiling)) \subseteq Range(compiling)
         /\ Len(compiling) > 1 => Tail(compiling) # <<>>
         /\ Len(compiling) = 1 => Tail(compiling) = <<>>
<1>1. compiling \in Seq(Obj) /\ running = None
  BY DEF IInv, TypeOK, PhaseInv
<1>2. Len(compiling) \in Nat /\ Len(compiling) >= 1 /\ 1 \in 1..Len(compiling)
  BY <1>1
<1>3. Head(compiling) = compiling[1]
  BY <1>1
<1>4. compiling[1] \in Roots /\ compiling[1] \in Obj
  BY <1>1, <1>2, RootsAre
<1>5. /\ Tail(compiling) \in Seq(Obj) /\ Len(Tail(compiling)) = Len(compiling) - 1
      /\ \A i \in 1..(Len(compiling) - 1) : Tail(compiling)[i] = compiling[i + 1]
  BY <1>1, <1>2
<1>6. Range(Tail(compiling)) \subseteq Range(compiling)
  <2>1. ASSUME NEW i \in 1..(Len(compiling) - 1) PROVE i + 1 \in 1..Len(compiling)
    BY <1>2
  <2>2. DOMAIN Tail(compiling) = 1..(Len(compiling) - 1) /\ DOMAIN compiling = 1..Len(compiling)
    BY <1>1, <1>5
  <2>. QED BY <1>5, <2>1, <2>2 DEF Range
<1>7. Len(compiling) > 1 => Tail(compiling) # <<>>
  BY <1>2, <1>5
<1>8. Len(compiling) = 1 => Tail(compiling) = <<>>
  <2>1. PICK rest \in Seq(Obj) : rest = Tail(compiling)
    BY <1>5
  <2>2. Len(compiling) = 1 => Len(rest) = 0
    BY <1>2, <1>5, <2>1
  <2>3. Len(rest) = 0 => rest = <<>>
    OBVIOUS
  <2>. QED BY <2>1, <2>2, <2>3
<1>. QED BY <1>1, <1>2, <1>3, <1>4, <1>5, <1>6, <1>7, <1>8

LEMMA StartFunctionStep ==
  ASSUME IInv, StartFunction
  PROVE  IInv'
<1>1. /\ pc = "ready" /\ fault = "none" /\ fault' = "none" /\ running = None
      /\ pc' = IF compiling = <<>> THEN "ready" ELSE "name"
      /\ UNCHANGED <<stack, capacity, globals, open, running, after, hand, operands, chars, early>>
  BY DEF StartFunction, Ready, localVars
<1>2. PICK h \in Allocated, f \in Obj :
        /\ f \in Free(h) /\ heap' = With(h, f, Object("function", {}))
        /\ compiling' = <<f>> \o compiling
  BY DEF StartFunction, Free
<1>3. GoodHeap(h) /\ \A r \in Roots : Usable(r, h)
  BY <1>1, CollectFacts
<1>4. /\ GoodHeap(heap') /\ Usable(f, heap')
      /\ \A a : Usable(a, h) => Usable(a, heap')
  <2>1. PICK refs \in SUBSET Obj : refs = {}
    OBVIOUS
  <2>2. "function" \in Kinds \ {"string"} /\ AllUsable(refs, h)
    BY <2>1 DEF Kinds, AllUsable
  <2>3. Makes(heap', h, f, "function", refs)
    BY <1>2, <2>1, <2>2 DEF Makes
  <2>. QED BY <1>3, <2>3, NewObject
<1>5. /\ compiling' \in Seq(Obj) /\ compiling' # <<>>
      /\ Range(compiling') \subseteq {f} \union Range(compiling)
  <2>1. compiling \in Seq(Obj) /\ <<f>> \in Seq(Obj) /\ Len(compiling) \in Nat
    BY DEF IInv, TypeOK
  <2>2. /\ compiling' \in Seq(Obj) /\ Len(compiling') = 1 + Len(compiling)
        /\ compiling'[1] = f
        /\ \A i \in 1..Len(compiling) : compiling'[1 + i] = compiling[i]
    BY <1>2, <2>1
  <2>3. ASSUME NEW i \in 1..(1 + Len(compiling))
        PROVE  compiling'[i] = f \/ compiling'[i] \in Range(compiling)
    <3>1. CASE i = 1
      BY <2>2, <3>1
    <3>2. CASE i # 1
      <4>1. i - 1 \in 1..Len(compiling) /\ 1 + (i - 1) = i
        BY <2>1, <3>2
      <4>. QED BY <2>1, <2>2, <4>1, RangeIs
    <3>. QED BY <3>1, <3>2
  <2>4. DOMAIN compiling' = 1..(1 + Len(compiling)) /\ compiling' # <<>>
    BY <2>1, <2>2
  <2>. QED BY <2>2, <2>3, <2>4 DEF Range
<1>6. hand = None /\ stack = <<>> /\ capacity \in Nat
  BY <1>1 DEF IInv, HandInv, NoHand, StackInv, Protecting
<1>7. TypeOK'
  BY <1>1, <1>4, <1>5 DEF IInv, TypeOK, Pcs, GoodHeap
<1>8. GoodHeap(heap)'
  BY <1>4
<1>9. RootsInv'
  <2>1. Roots' \subseteq Roots \union {f}
    BY <1>1, <1>5 DEF Roots
  <2>. QED BY <1>3, <1>4, <2>1 DEF RootsInv
<1>10. HandInv'
  BY <1>1, <1>6 DEF HandInv, NoHand, Interning
<1>11. StackInv'
  BY <1>1, <1>6 DEF StackInv, Storing, Interning, Protecting
<1>12. ConcatInv'
  BY <1>1 DEF ConcatInv
<1>13. PhaseInv'
  BY <1>1, <1>5 DEF PhaseInv, Storing, Compiles, Interning
<1>. QED BY <1>7, <1>8, <1>9, <1>10, <1>11, <1>12, <1>13 DEF IInv

LEMMA NamedStep ==
  ASSUME IInv, Named
  PROVE  IInv'
<1>1. /\ pc = "named" /\ fault = "none" /\ fault' = "none" /\ pc' = "ready" /\ hand' = None
      /\ heap' = Link(heap, Head(compiling), {hand})
      /\ UNCHANGED <<stack, capacity, globals, open, compiling, running, after, operands, chars,
                     early>>
  BY DEF Named, At, Done, rootVars
<1>2. /\ compiling # <<>> /\ running = None /\ stack = <<>> /\ capacity \in Nat
      /\ Usable(hand, heap)
  BY <1>1 DEF IInv, HandInv, NoHand, Interning, PhaseInv, Compiles, StackInv, Protecting
<1>3. /\ GoodHeap(heap) /\ \A r \in Roots : Usable(r, heap)
      /\ Head(compiling) \in DOMAIN heap
  BY <1>1, <1>2, SafeFacts, CompilerFacts
<1>4. GoodHeap(heap') /\ \A a : Usable(a, heap) => Usable(a, heap')
  BY <1>1, <1>2, <1>3, LinkGood
<1>5. \A r \in Roots' : Usable(r, heap')
  <2>1. Roots' = Roots
    BY <1>1 DEF Roots
  <2>. QED BY <1>3, <1>4, <2>1
<1>6. TypeOK
  BY DEF IInv
<1>. QED BY <1>1, <1>2, <1>4, <1>5, <1>6, ReadyStep DEF TypeOK

LEMMA AddConstantStep ==
  ASSUME IInv, AddConstant
  PROVE  IInv'
<1>1. /\ pc = "constant" /\ fault = "none" /\ compiling # <<>> /\ running = None
      /\ stack = <<>> /\ capacity \in Nat /\ Usable(hand, heap)
      /\ hand \in Obj /\ hand # None /\ hand # Plain
  BY ObjAssumption DEF AddConstant, At, IInv, HandInv, NoHand, Interning, PhaseInv, Compiles,
                       StackInv, Protecting, TypeOK
<1>2. CASE hand \in heap[Head(compiling)].refs
  <2>1. /\ pc' = "ready" /\ hand' = None /\ UNCHANGED fault
        /\ UNCHANGED <<heap, stack, capacity, globals, open, compiling, running, after, operands,
                       chars, early>>
    BY <1>2 DEF AddConstant, Done, rootVars
  <2>2. \A r \in Roots' : Usable(r, heap')
    <3>1. Roots' = Roots
      BY <2>1 DEF Roots
    <3>. QED BY <1>1, <2>1, <3>1, SafeFacts
  <2>3. TypeOK /\ GoodHeap(heap)
    BY DEF IInv
  <2>. QED BY <1>1, <2>1, <2>2, <2>3, ReadyStep DEF TypeOK
<1>3. CASE hand \notin heap[Head(compiling)].refs
  <2>1. /\ pc' = "constant_write" /\ Push(hand)
        /\ UNCHANGED <<after, hand, operands, chars, early>>
        /\ UNCHANGED <<globals, open, compiling, running>>
    BY <1>3 DEF AddConstant, Push, localVars
  <2>2. /\ stack' \in Seq(Obj \union {Plain}) /\ Len(stack') = 1 /\ stack'[1] = hand
        /\ 1 <= capacity' /\ capacity' \in Nat
        /\ heap' \in Allocated /\ fault' \in {"none", "push"}
        /\ fault' = "none" => hand \in DOMAIN heap'
        /\ Roots' \subseteq Roots \union {hand}
    <3>1. Len(stack) = 0
      BY <1>1
    <3>. QED BY <1>1, <2>1, <3>1, PushFacts
  <2>3. /\ GoodHeap(heap') /\ \A r \in Roots : Usable(r, heap')
        /\ fault' = "none" => Usable(hand, heap')
    BY <1>1, <2>2, CollectFacts
  <2>4. TypeOK'
    BY <2>1, <2>2, <2>3 DEF IInv, TypeOK, Pcs, GoodHeap
  <2>5. GoodHeap(heap)'
    BY <2>3
  <2>6. RootsInv'
    BY <2>2, <2>3 DEF RootsInv
  <2>7. HandInv'
    BY <1>1, <2>1, <2>3 DEF HandInv, NoHand, Interning
  <2>8. StackInv'
    BY <2>1, <2>2 DEF StackInv, Storing, Interning, Protecting, Top
  <2>9. ConcatInv'
    BY <2>1 DEF ConcatInv
  <2>10. PhaseInv'
    BY <1>1, <2>1 DEF PhaseInv, Storing, Compiles, Interning
  <2>. QED BY <2>4, <2>5, <2>6, <2>7, <2>8, <2>9, <2>10 DEF IInv
<1>. QED BY <1>2, <1>3

LEMMA WriteConstantStep ==
  ASSUME IInv, WriteConstant
  PROVE  IInv'
<1>1. /\ pc = "constant_write" /\ fault = "none" /\ fault' = "none" /\ pc' = "ready"
      /\ hand' = None /\ stack' = Drop(1)
      /\ UNCHANGED <<capacity, globals, open, compiling, running, after, operands, chars, early>>
  BY DEF WriteConstant, At, Done
<1>2. PICK h \in Allocated : heap' = Link(h, Head(compiling), {hand})
  BY DEF WriteConstant
<1>3. /\ compiling # <<>> /\ running = None /\ Len(stack) = 1 /\ capacity \in Nat
      /\ Usable(hand, heap) /\ Top = hand /\ hand \in Obj
  BY <1>1, ObjAssumption DEF IInv, HandInv, NoHand, Interning, PhaseInv, Compiles, StackInv,
                             Protecting, TypeOK
<1>4. hand \in Roots
  BY <1>3, StackFacts, RootsAre
<1>5. /\ GoodHeap(h) /\ \A r \in Roots : Usable(r, h)
      /\ Head(compiling) \in DOMAIN h /\ Usable(hand, h)
  BY <1>1, <1>3, <1>4, CollectFacts, CompilerFacts
<1>6. GoodHeap(heap') /\ \A a : Usable(a, h) => Usable(a, heap')
  BY <1>2, <1>5, LinkGood
<1>7. stack' = <<>> /\ Range(stack') \subseteq Range(stack) /\ stack' \in Seq(Obj \union {Plain})
  <2>1. 1 \in 0..Len(stack) /\ stack \in Seq(Obj \union {Plain})
    BY <1>3, StackFacts
  <2>2. /\ stack' \in Seq(Obj \union {Plain}) /\ Len(stack') = 0
        /\ Range(stack') \subseteq Range(stack)
    BY <1>1, <1>3, <2>1, DropIs
  <2>. QED BY <2>2
<1>8. \A r \in Roots' : Usable(r, heap')
  <2>1. Roots' \subseteq Roots
    BY <1>1, <1>7 DEF Roots
  <2>. QED BY <1>5, <1>6, <2>1
<1>9. TypeOK /\ Len(stack') <= capacity
  <2>1. Len(stack') = 0
    BY <1>7
  <2>. QED BY <1>3, <2>1 DEF IInv
<1>. QED BY <1>1, <1>3, <1>6, <1>7, <1>8, <1>9, ReadyStep DEF TypeOK

LEMMA EndFunctionStep ==
  ASSUME IInv, EndFunction
  PROVE  IInv'
<1>1. /\ pc = "ready" /\ fault = "none" /\ fault' = "none" /\ compiling # <<>>
      /\ compiling' = Tail(compiling)
      /\ \/ Len(compiling) > 1 /\ pc' = "constant" /\ hand' = Head(compiling)
         \/ Len(compiling) = 1 /\ pc' = "interpret" /\ hand' = Head(compiling)
         \/ Len(compiling) = 1 /\ UNCHANGED <<pc, hand>>
      /\ UNCHANGED <<heap, stack, capacity, globals, open, running, after, operands, chars, early>>
  BY DEF EndFunction, Ready
<1>2. /\ running = None /\ Head(compiling) \in Roots /\ Head(compiling) \in Obj
      /\ Len(compiling) \in Nat /\ Tail(compiling) \in Seq(Obj)
      /\ Range(Tail(compiling)) \subseteq Range(compiling)
      /\ Len(compiling) > 1 => Tail(compiling) # <<>>
      /\ Len(compiling) = 1 => Tail(compiling) = <<>>
  BY <1>1, CompilerFacts
<1>3. stack = <<>> /\ capacity \in Nat /\ hand = None
  BY <1>1, <1>2 DEF IInv, StackInv, Protecting, HandInv, NoHand
<1>4. GoodHeap(heap) /\ \A r \in Roots : Usable(r, heap)
  BY <1>1, SafeFacts
<1>5. TypeOK'
  BY <1>1, <1>2 DEF IInv, TypeOK, Pcs
<1>6. GoodHeap(heap)'
  BY <1>1, <1>4
<1>7. RootsInv'
  <2>1. Roots' \subseteq Roots
    BY <1>1, <1>2 DEF Roots
  <2>. QED BY <1>1, <1>4, <2>1 DEF RootsInv
<1>8. HandInv'
  <2>1. Head(compiling) # None /\ Usable(Head(compiling), heap)
    BY <1>2, <1>4, ObjAssumption
  <2>. QED BY <1>1, <1>3, <2>1 DEF HandInv, NoHand, Interning
<1>9. StackInv'
  BY <1>1, <1>2, <1>3 DEF StackInv, Storing, Interning, Protecting
<1>10. ConcatInv'
  BY <1>1 DEF ConcatInv
<1>11. PhaseInv'
  BY <1>1, <1>2 DEF PhaseInv, Storing, Compiles, Interning
<1>. QED BY <1>5, <1>6, <1>7, <1>8, <1>9, <1>10, <1>11 DEF IInv

-----------------------------------------------------------------------------
(***************************************************************************)
(* Execution.                                                              *)
(***************************************************************************)

LEMMA InterpretStep ==
  ASSUME IInv, Interpret
  PROVE  IInv'
<1>1. /\ pc = "interpret" /\ fault = "none" /\ pc' = "interpret_closure" /\ Push(hand)
      /\ UNCHANGED <<after, hand, operands, chars, early>>
      /\ UNCHANGED <<globals, open, compiling, running>>
  BY DEF Interpret, At, Push, localVars
<1>2. /\ Usable(hand, heap) /\ hand \in Obj /\ hand # None /\ hand # Plain
      /\ compiling = <<>> /\ running = None /\ stack = <<>>
  BY <1>1, ObjAssumption DEF IInv, HandInv, NoHand, Interning, PhaseInv, StackInv,
                             Protecting, TypeOK
<1>3. /\ stack' \in Seq(Obj \union {Plain}) /\ Len(stack') = 1 /\ stack'[1] = hand
      /\ 1 <= capacity' /\ capacity' \in Nat
      /\ heap' \in Allocated /\ fault' \in {"none", "push"}
      /\ fault' = "none" => hand \in DOMAIN heap'
      /\ Roots' \subseteq Roots \union {hand}
  <2>1. Len(stack) = 0
    BY <1>2
  <2>. QED BY <1>1, <1>2, <2>1, PushFacts
<1>4. /\ GoodHeap(heap') /\ \A r \in Roots : Usable(r, heap')
      /\ fault' = "none" => Usable(hand, heap')
  BY <1>1, <1>2, <1>3, CollectFacts
<1>5. TypeOK'
  BY <1>1, <1>3, <1>4 DEF IInv, TypeOK, Pcs, GoodHeap
<1>6. GoodHeap(heap)'
  BY <1>4
<1>7. RootsInv'
  BY <1>3, <1>4 DEF RootsInv
<1>8. HandInv'
  BY <1>1, <1>2, <1>4 DEF HandInv, NoHand, Interning
<1>9. StackInv'
  BY <1>1, <1>3 DEF StackInv, Storing, Interning, Protecting, Top
<1>10. ConcatInv'
  BY <1>1 DEF ConcatInv
<1>11. PhaseInv'
  BY <1>1, <1>2 DEF PhaseInv, Storing, Compiles, Interning
<1>. QED BY <1>5, <1>6, <1>7, <1>8, <1>9, <1>10, <1>11 DEF IInv

\* The top of the stack is replaced by a new object.
LEMMA ReplaceTop ==
  ASSUME IInv, Len(stack) >= 1, NEW c \in Obj, stack' = Append(Drop(1), c)
  PROVE  /\ stack' \in Seq(Obj \union {Plain}) /\ Len(stack') = Len(stack)
         /\ stack' # <<>>
         /\ Len(stack') <= capacity /\ Range(stack') \subseteq Range(stack) \union {c}
<1>1. 1 \in 0..Len(stack) /\ Len(stack) \in Nat /\ Len(stack) <= capacity /\ capacity \in Nat
  BY StackFacts
<1>2. PICK rest \in Seq(Obj \union {Plain}) :
        /\ rest = Drop(1) /\ Len(rest) = Len(stack) - 1 /\ Range(rest) \subseteq Range(stack)
  BY <1>1, StackFacts, DropIs
<1>3. /\ stack' \in Seq(Obj \union {Plain}) /\ Len(stack') = Len(rest) + 1
      /\ Range(stack') \subseteq Range(rest) \union {c}
  BY <1>2, AppendIs
<1>4. Len(stack') = Len(stack)
  BY <1>1, <1>2, <1>3
<1>5. stack' # <<>>
  BY <1>4
<1>. QED BY <1>1, <1>2, <1>3, <1>4, <1>5

LEMMA InterpretClosureStep ==
  ASSUME IInv, InterpretClosure
  PROVE  IInv'
<1>1. /\ pc = "interpret_closure" /\ fault = "none" /\ fault' = "none" /\ pc' = "ready"
      /\ hand' = None
      /\ UNCHANGED <<capacity, globals, open, compiling, after, operands, chars, early>>
  BY DEF InterpretClosure, At, Done
<1>2. PICK h \in Allocated, c \in Obj :
        /\ c \in Free(h) /\ heap' = With(h, c, Object("closure", {hand}))
        /\ stack' = Append(Drop(1), c) /\ running' = c
  BY DEF InterpretClosure, Free
<1>3. /\ Usable(hand, heap) /\ hand \in Obj /\ Len(stack) = 1 /\ Top = hand
      /\ compiling = <<>> /\ c # None
  BY <1>1, ObjAssumption DEF IInv, HandInv, NoHand, Interning, PhaseInv, StackInv,
                             Protecting, TypeOK
<1>4. hand \in Roots
  BY <1>3, StackFacts, RootsAre
<1>5. GoodHeap(h) /\ \A r \in Roots : Usable(r, h)
  BY <1>1, CollectFacts
<1>6. /\ GoodHeap(heap') /\ Usable(c, heap')
      /\ \A a : Usable(a, h) => Usable(a, heap')
  <2>1. PICK refs : refs = {hand}
    OBVIOUS
  <2>2. "closure" \in Kinds \ {"string"} /\ AllUsable(refs, h)
    BY <1>4, <1>5, <2>1 DEF Kinds, AllUsable
  <2>3. Makes(heap', h, c, "closure", refs)
    BY <1>2, <2>1, <2>2 DEF Makes
  <2>. QED BY <1>5, <2>3, NewObject
<1>7. /\ stack' \in Seq(Obj \union {Plain}) /\ stack' # <<>> /\ Len(stack') <= capacity
      /\ Range(stack') \subseteq Range(stack) \union {c}
  BY <1>2, <1>3, ReplaceTop
<1>8. \A r \in Roots' : Usable(r, heap')
  <2>1. Roots' \subseteq Roots \union {c}
    BY <1>1, <1>2, <1>7 DEF Roots
  <2>. QED BY <1>5, <1>6, <2>1
<1>9. TypeOK /\ capacity \in Nat
  BY DEF IInv, StackInv
<1>. QED BY <1>1, <1>2, <1>3, <1>6, <1>7, <1>8, <1>9, ReadyStep DEF TypeOK

\* Between two instructions.
LEMMA ExecutingFacts ==
  ASSUME IInv, Executing
  PROVE  /\ pc = "ready" /\ fault = "none" /\ running # None /\ compiling = <<>>
         /\ hand = None /\ running \in Obj /\ globals \subseteq Obj /\ open \subseteq Obj
         /\ early \in BOOLEAN /\ capacity \in Nat /\ GoodHeap(heap)
         /\ \A r \in Roots : Usable(r, heap)
         /\ Len(stack) \in Nat /\ Len(stack) >= 1
<1>1. /\ pc = "ready" /\ fault = "none" /\ running # None
  BY DEF Executing, Ready
<1>2. compiling = <<>> /\ hand = None /\ capacity \in Nat
  BY <1>1 DEF IInv, PhaseInv, HandInv, NoHand, StackInv
<1>3. running \in Obj /\ globals \subseteq Obj /\ open \subseteq Obj /\ early \in BOOLEAN
  BY <1>1 DEF IInv, TypeOK
<1>4. stack # <<>>
  BY <1>1 DEF IInv, StackInv
<1>. QED BY <1>1, <1>2, <1>3, <1>4, SafeFacts, StackFacts

\* The constants of the running function outlive any collection.
LEMMA ConstantsAreKept ==
  ASSUME IInv, Executing, NEW v \in Constants, NEW h \in Allocated
  PROVE  Usable(v, h) /\ v \in Obj
<1>1. /\ GoodHeap(h) /\ SubHeap(h, heap) /\ running \in DOMAIN h
  BY ExecutingFacts, CollectFacts, RootsAre
<1>2. PICK f \in heap[running].refs : v \in heap[f].refs
  BY DEF Constants
<1>3. f \in DOMAIN h
  BY <1>1, <1>2 DEF SubHeap, GoodHeap, Usable
<1>4. Usable(v, h)
  BY <1>1, <1>2, <1>3 DEF SubHeap, GoodHeap
<1>. QED BY <1>1, <1>4 DEF GoodHeap, Usable

\* A value of the stack outlives any collection.
LEMMA StackIsKept ==
  ASSUME IInv, Executing, NEW v \in Range(stack), v \in Obj, NEW h \in Allocated
  PROVE  Usable(v, h)
BY ExecutingFacts, CollectFacts, RootsAre

LEMMA LoadStep ==
  ASSUME IInv, Load
  PROVE  IInv'
<1>1. /\ Executing /\ pc' = pc
      /\ UNCHANGED <<after, hand, operands, chars, early>>
  BY DEF Load, localVars
<1>2. PICK v \in {Plain} \union (Constants \intersect Strings(heap)) \union globals : Push(v)
  BY DEF Load
<1>3. UNCHANGED <<globals, open, compiling, running>>
  BY <1>2 DEF Push
<1>4. v = Plain \/ (v \in Obj /\ Usable(v, heap))
  <2>1. CASE v \in Constants
    BY <1>1, <2>1, ConstantsAreKept DEF Allocated
  <2>2. CASE v \in globals
    BY <1>1, <2>2, ExecutingFacts, RootsAre
  <2>. QED BY <1>2, <2>1, <2>2
<1>5. /\ stack' \in Seq(Obj \union {Plain}) /\ Len(stack') <= capacity'
      /\ capacity' \in Nat /\ heap' \in Allocated /\ fault' \in {"none", "push"}
      /\ fault' = "none" => v = Plain \/ v \in DOMAIN heap'
      /\ Roots' \subseteq Roots \union ({v} \ {Plain})
  BY <1>1, <1>2, <1>4, ExecutingFacts, PushFacts
<1>6. /\ GoodHeap(heap') /\ \A r \in Roots : Usable(r, heap')
      /\ \A a : a \in DOMAIN heap' /\ Usable(a, heap) => Usable(a, heap')
  BY <1>1, <1>5, ExecutingFacts, CollectFacts
<1>7. fault' = "none" => \A r \in Roots' : Usable(r, heap')
  BY <1>4, <1>5, <1>6
<1>8. stack' # <<>>
  BY <1>2, <1>4, StackFacts, AppendIs DEF Push
<1>. QED BY <1>1, <1>3, <1>5, <1>6, <1>7, <1>8, ExecutingFacts, ReadyStep

\* pop where a value is left: no value is new, and room remains.
LEMMA PopIs ==
  ASSUME IInv, Len(stack) > 1, stack' = Drop(1)
  PROVE  /\ stack' \in Seq(Obj \union {Plain}) /\ stack' # <<>> /\ Len(stack') <= capacity
         /\ Range(stack') \subseteq Range(stack)
         /\ Top \in Range(stack) /\ Top \in Obj \union {Plain}
<1>1. /\ 1 \in 0..Len(stack) /\ stack \in Seq(Obj \union {Plain}) /\ Len(stack) \in Nat
      /\ Len(stack) <= capacity /\ capacity \in Nat
  BY StackFacts
<1>2. /\ stack' \in Seq(Obj \union {Plain}) /\ Len(stack') = Len(stack) - 1
      /\ Range(stack') \subseteq Range(stack)
  BY <1>1, DropIs
<1>3. Len(stack') <= capacity /\ Len(stack') # 0
  BY <1>1, <1>2
<1>4. stack' # <<>>
  BY <1>3
<1>. QED BY <1>2, <1>3, <1>4, StackFacts

LEMMA PopStep ==
  ASSUME IInv, Pop
  PROVE  IInv'
<1>1. /\ Executing /\ Len(stack) > 1 /\ stack' = Drop(1)
      /\ UNCHANGED <<heap, capacity, globals, open, compiling, running, pc, after, hand, operands,
                     chars, early, fault>>
  BY DEF Pop, localVars
<1>2. /\ stack' \in Seq(Obj \union {Plain}) /\ stack' # <<>> /\ Len(stack') <= capacity
      /\ Range(stack') \subseteq Range(stack)
  BY <1>1, PopIs
<1>3. \A r \in Roots' : Usable(r, heap')
  <2>1. Roots' \subseteq Roots
    BY <1>1, <1>2 DEF Roots
  <2>. QED BY <1>1, <2>1, ExecutingFacts
<1>. QED BY <1>1, <1>2, <1>3, ExecutingFacts, ReadyStep

LEMMA DefineGlobalStep ==
  ASSUME IInv, NEW name, DefineGlobal(name)
  PROVE  IInv'
<1>1. /\ Executing /\ Len(stack) > 1 /\ stack' = Drop(1) /\ name \in Constants
      /\ globals' = globals \union ({name, Top} \ {Plain})
      /\ UNCHANGED <<heap, capacity, open, compiling, running, pc, after, hand, operands,
                     chars, early, fault>>
  BY DEF DefineGlobal, localVars
<1>2. /\ stack' \in Seq(Obj \union {Plain}) /\ stack' # <<>> /\ Len(stack') <= capacity
      /\ Range(stack') \subseteq Range(stack) /\ Top \in Range(stack) /\ Top \in Obj \union {Plain}
  BY <1>1, PopIs
<1>3. name \in Obj /\ Usable(name, heap)
  BY <1>1, ConstantsAreKept DEF Allocated
<1>4. Top \in Obj => Usable(Top, heap)
  BY <1>1, <1>2, StackIsKept DEF Allocated
<1>5. \A r \in Roots' : Usable(r, heap')
  <2>1. Roots' \subseteq Roots \union ({name, Top} \ {Plain})
    BY <1>1, <1>2 DEF Roots
  <2>. QED BY <1>1, <1>2, <1>3, <1>4, <2>1, ExecutingFacts
<1>6. globals' \subseteq Obj
  BY <1>1, <1>2, <1>3, ExecutingFacts
<1>. QED BY <1>1, <1>2, <1>5, <1>6, ExecutingFacts, ReadyStep

\* OP_CLOSURE and OP_ACTOR: the new object is not a root until it is pushed.
LEMMA NewStep ==
  ASSUME IInv, Executing, NEW v \in Constants, NEW kind \in {"closure", "actor"},
         \E h \in Allocated : \E c \in Free(h) :
           heap' = With(h, c, Object(kind, {v})) /\ hand' = c,
         pc' \in {"push_closure", "push_actor"},
         UNCHANGED <<rootVars, after, operands, chars, early, fault>>
  PROVE  IInv'
<1>1. /\ fault = "none" /\ fault' = "none" /\ running # None /\ compiling = <<>>
      /\ capacity \in Nat
  BY ExecutingFacts
<1>2. PICK h \in Allocated, c \in Obj :
        c \in Free(h) /\ heap' = With(h, c, Object(kind, {v})) /\ hand' = c
  BY DEF Free
<1>3. GoodHeap(h) /\ \A r \in Roots : Usable(r, h)
  BY ExecutingFacts, CollectFacts
<1>4. /\ GoodHeap(heap') /\ Usable(c, heap') /\ c # None
      /\ \A a : Usable(a, h) => Usable(a, heap')
  <2>1. PICK refs : refs = {v}
    OBVIOUS
  <2>2. kind \in Kinds \ {"string"} /\ AllUsable(refs, h)
    BY <2>1, ConstantsAreKept DEF Kinds, AllUsable
  <2>3. Makes(heap', h, c, kind, refs)
    BY <1>2, <2>1, <2>2 DEF Makes
  <2>4. c # None
    BY ObjAssumption
  <2>. QED BY <1>3, <2>3, <2>4, NewObject
<1>5. UNCHANGED <<stack, capacity, globals, open, compiling, running>>
  BY DEF rootVars
<1>6. TypeOK'
  BY <1>1, <1>2, <1>4, <1>5 DEF IInv, TypeOK, Pcs, GoodHeap
<1>7. GoodHeap(heap)'
  BY <1>4
<1>8. RootsInv'
  <2>1. Roots' = Roots
    BY <1>5 DEF Roots
  <2>. QED BY <1>3, <1>4, <2>1 DEF RootsInv
<1>9. HandInv'
  BY <1>2, <1>4 DEF HandInv, NoHand, Interning
<1>10. StackInv'
  BY <1>1, <1>5 DEF StackInv, Storing, Interning, Protecting
<1>11. ConcatInv'
  BY DEF ConcatInv
<1>12. PhaseInv'
  BY <1>1, <1>5 DEF PhaseInv, Storing, Compiles, Interning
<1>. QED BY <1>6, <1>7, <1>8, <1>9, <1>10, <1>11, <1>12 DEF IInv

LEMMA NewClosureStep ==
  ASSUME IInv, NEW f, NewClosure(f)
  PROVE  IInv'
<1>1. /\ Executing /\ f \in Constants
      /\ \E h \in Allocated : \E c \in Free(h) :
           heap' = With(h, c, Object("closure", {f})) /\ hand' = c
      /\ pc' = "push_closure" /\ UNCHANGED <<rootVars, after, operands, chars, early, fault>>
  BY DEF NewClosure
<1>. QED BY <1>1, NewStep

LEMMA NewActorStep ==
  ASSUME IInv, NEW name, NewActor(name)
  PROVE  IInv'
<1>1. /\ Executing /\ name \in Constants
      /\ \E h \in Allocated : \E c \in Free(h) :
           heap' = With(h, c, Object("actor", {name})) /\ hand' = c
      /\ pc' = "push_actor" /\ UNCHANGED <<rootVars, after, operands, chars, early, fault>>
  BY DEF NewActor
<1>. QED BY <1>1, NewStep

LEMMA PushNewStep ==
  ASSUME IInv, PushNew
  PROVE  IInv'
<1>1. /\ pc \in {"push_actor", "push_closure"} /\ fault = "none" /\ Push(hand)
      /\ UNCHANGED <<globals, open, compiling, running>>
  BY DEF PushNew, At, Push
<1>2. /\ Usable(hand, heap) /\ hand \in Obj /\ hand # None /\ hand # Plain
      /\ running # None /\ compiling = <<>>
  BY <1>1, ObjAssumption DEF IInv, HandInv, NoHand, Interning, PhaseInv, TypeOK
<1>3. /\ stack' \in Seq(Obj \union {Plain}) /\ Len(stack') = Len(stack) + 1
      /\ stack'[Len(stack) + 1] = hand
      /\ Len(stack) + 1 <= capacity' /\ capacity' \in Nat
      /\ heap' \in Allocated /\ fault' \in {"none", "push"}
      /\ fault' = "none" => hand \in DOMAIN heap'
      /\ Roots' \subseteq Roots \union {hand}
  BY <1>1, <1>2, PushFacts
<1>4. /\ GoodHeap(heap') /\ \A r \in Roots : Usable(r, heap')
      /\ fault' = "none" => Usable(hand, heap')
  BY <1>1, <1>2, <1>3, CollectFacts
<1>5. fault' = "none" => \A r \in Roots' : Usable(r, heap')
  BY <1>3, <1>4
<1>6. Len(stack) \in Nat /\ Len(stack') <= capacity' /\ stack' # <<>>
  <2>1. Len(stack) \in Nat /\ Len(stack') <= capacity' /\ Len(stack') # 0
    BY <1>3, StackFacts
  <2>. QED BY <2>1
<1>7. CASE Done
  <2>1. pc' = "ready" /\ hand' = None /\ UNCHANGED <<after, operands, chars, early>>
    BY <1>7 DEF Done
  <2>2. TypeOK
    BY DEF IInv
  <2>. QED BY <1>1, <1>2, <1>3, <1>4, <1>5, <1>6, <2>1, <2>2, ReadyStep DEF TypeOK
<1>8. CASE pc' = "capture" /\ UNCHANGED localVars
  <2>1. pc' = "capture" /\ UNCHANGED <<after, hand, operands, chars, early>>
    BY <1>8 DEF localVars
  <2>2. TypeOK'
    BY <1>1, <1>3, <1>4, <1>6, <2>1 DEF IInv, TypeOK, Pcs, GoodHeap
  <2>3. GoodHeap(heap)'
    BY <1>4
  <2>4. RootsInv'
    BY <1>5 DEF RootsInv
  <2>5. HandInv'
    BY <1>2, <1>4, <2>1 DEF HandInv, NoHand, Interning
  <2>6. StackInv'
    <3>1. Len(stack') >= 1 /\ Top' = hand'
      BY <1>3, <1>6, <2>1 DEF Top
    <3>. QED BY <1>1, <1>2, <1>3, <2>1, <3>1 DEF StackInv, Storing, Interning, Protecting
  <2>7. ConcatInv'
    BY <2>1 DEF ConcatInv
  <2>8. PhaseInv'
    BY <1>1, <1>2, <2>1 DEF PhaseInv, Storing, Compiles, Interning
  <2>. QED BY <2>2, <2>3, <2>4, <2>5, <2>6, <2>7, <2>8 DEF IInv
<1>. QED BY <1>7, <1>8 DEF PushNew

LEMMA CaptureStep ==
  ASSUME IInv, Capture
  PROVE  IInv'
<1>1. /\ pc = "capture" /\ fault = "none" /\ fault' = "none" /\ pc' = "ready" /\ hand' = None
      /\ UNCHANGED <<stack, capacity, globals, compiling, running, after, operands, chars, early>>
  BY DEF Capture, At, Done
<1>2. PICK h \in Allocated, u \in Obj :
        /\ u \in Free(h) /\ heap' = Link(With(h, u, Object("upvalue", {})), hand, {u})
        /\ open' = open \union {u}
  BY DEF Capture, Free
<1>3. /\ Usable(hand, heap) /\ hand \in Obj /\ Len(stack) >= 1 /\ Top = hand
      /\ running # None /\ compiling = <<>> /\ capacity \in Nat
  BY <1>1, ObjAssumption DEF IInv, HandInv, NoHand, Interning, PhaseInv, StackInv,
                             Protecting, TypeOK
<1>4. hand \in Roots
  BY <1>3, StackFacts, RootsAre
<1>5. GoodHeap(h) /\ \A r \in Roots : Usable(r, h)
  BY <1>1, CollectFacts
<1>. DEFINE made == With(h, u, Object("upvalue", {}))
<1>6. /\ GoodHeap(made) /\ Usable(u, made)
      /\ \A a : Usable(a, h) => Usable(a, made)
  <2>1. PICK refs \in SUBSET Obj : refs = {}
    OBVIOUS
  <2>2. "upvalue" \in Kinds \ {"string"} /\ AllUsable(refs, h)
    BY <2>1 DEF Kinds, AllUsable
  <2>3. Makes(made, h, u, "upvalue", refs)
    BY <1>2, <2>1, <2>2 DEF Makes
  <2>. HIDE DEF made
  <2>. QED BY <1>5, <2>3, NewObject
<1>7. GoodHeap(heap') /\ \A a : Usable(a, made) => Usable(a, heap')
  <2>1. heap' = Link(made, hand, {u}) /\ hand \in DOMAIN made
    BY <1>2, <1>4, <1>5, <1>6 DEF Usable
  <2>. HIDE DEF made
  <2>. QED BY <1>6, <2>1, LinkGood
<1>8. \A r \in Roots' : Usable(r, heap')
  <2>1. Roots' \subseteq Roots \union {u}
    BY <1>1, <1>2 DEF Roots
  <2>. QED BY <1>5, <1>6, <1>7, <2>1
<1>9. TypeOK /\ open' \subseteq Obj /\ stack # <<>>
  <2>1. stack # <<>>
    BY <1>3
  <2>. QED BY <1>2, <2>1 DEF IInv, TypeOK
<1>. QED BY <1>1, <1>3, <1>7, <1>8, <1>9, ReadyStep DEF TypeOK

LEMMA DefineMessageStep ==
  ASSUME IInv, NEW name, DefineMessage(name)
  PROVE  IInv'
<1>1. /\ Executing /\ Len(stack) > 1 /\ stack' = Drop(1) /\ name \in Constants
      /\ Is(Top, "closure") /\ Is(Below, "actor")
      /\ UNCHANGED <<capacity, globals, open, compiling, running, pc, after, hand, operands,
                     chars, early, fault>>
  BY DEF DefineMessage, localVars
<1>2. PICK h \in Allocated : heap' = Link(h, Below, {name, Top})
  BY DEF DefineMessage
<1>3. /\ stack' \in Seq(Obj \union {Plain}) /\ stack' # <<>> /\ Len(stack') <= capacity
      /\ Range(stack') \subseteq Range(stack) /\ Top \in Range(stack) /\ Below \in Range(stack)
  BY <1>1, PopIs, StackFacts
<1>4. GoodHeap(h) /\ \A r \in Roots : Usable(r, h)
  BY <1>1, ExecutingFacts, CollectFacts
<1>5. Usable(name, h) /\ Usable(Top, h) /\ Usable(Below, h)
  <2>1. Top \in Obj /\ Below \in Obj
    BY <1>1 DEF Is, IInv, TypeOK
  <2>. QED BY <1>1, <1>3, <2>1, ConstantsAreKept, StackIsKept
<1>6. GoodHeap(heap') /\ \A a : Usable(a, h) => Usable(a, heap')
  <2>1. \A p \in {name, Top} \ {Plain} : Usable(p, h)
    BY <1>5
  <2>2. Below \in DOMAIN h
    BY <1>5 DEF Usable
  <2>. QED BY <1>2, <1>4, <2>1, <2>2, LinkGood
<1>7. \A r \in Roots' : Usable(r, heap')
  <2>1. Roots' \subseteq Roots
    BY <1>1, <1>3 DEF Roots
  <2>. QED BY <1>4, <1>6, <2>1
<1>. QED BY <1>1, <1>3, <1>6, <1>7, ExecutingFacts, ReadyStep

LEMMA CallActorStep ==
  ASSUME IInv, CallActor
  PROVE  IInv'
<1>1. /\ Executing /\ Is(Top, "actor")
      /\ UNCHANGED <<capacity, globals, open, compiling, running, pc, after, hand, operands,
                     chars, early, fault>>
  BY DEF CallActor, localVars
<1>2. PICK h \in Allocated, i \in Obj :
        /\ i \in Free(h) /\ heap' = With(h, i, Object("instance", {Top}))
        /\ stack' = Append(Drop(1), i)
  BY DEF CallActor, Free
<1>3. GoodHeap(h) /\ \A r \in Roots : Usable(r, h)
  BY <1>1, ExecutingFacts, CollectFacts
<1>4. Usable(Top, h)
  <2>1. Top \in Obj
    BY <1>1 DEF Is, IInv, TypeOK
  <2>. QED BY <1>1, <2>1, ExecutingFacts, StackFacts, StackIsKept
<1>5. /\ GoodHeap(heap') /\ Usable(i, heap')
      /\ \A a : Usable(a, h) => Usable(a, heap')
  <2>1. PICK refs : refs = {Top}
    OBVIOUS
  <2>2. "instance" \in Kinds \ {"string"} /\ AllUsable(refs, h)
    BY <1>4, <2>1 DEF Kinds, AllUsable
  <2>3. Makes(heap', h, i, "instance", refs)
    BY <1>2, <2>1, <2>2 DEF Makes
  <2>. QED BY <1>3, <2>3, NewObject
<1>6. /\ stack' \in Seq(Obj \union {Plain}) /\ stack' # <<>> /\ Len(stack') <= capacity
      /\ Range(stack') \subseteq Range(stack) \union {i}
  BY <1>1, <1>2, ExecutingFacts, ReplaceTop
<1>7. \A r \in Roots' : Usable(r, heap')
  <2>1. Roots' \subseteq Roots \union {i}
    BY <1>1, <1>6 DEF Roots
  <2>. QED BY <1>3, <1>5, <2>1
<1>. QED BY <1>1, <1>5, <1>6, <1>7, ExecutingFacts, ReadyStep

LEMMA SetPropertyStep ==
  ASSUME IInv, NEW name, SetProperty(name)
  PROVE  IInv'
<1>1. /\ Executing /\ Len(stack) > 1 /\ name \in Constants /\ Is(Below, "instance")
      /\ stack' = Append(Drop(2), Top)
      /\ UNCHANGED <<capacity, globals, open, compiling, running, pc, after, hand, operands,
                     chars, early, fault>>
  BY DEF SetProperty, localVars
<1>2. PICK h \in Allocated : heap' = Link(h, Below, {name, Top})
  BY DEF SetProperty
<1>3. /\ Top \in Range(stack) /\ Below \in Range(stack) /\ Top \in Obj \union {Plain}
      /\ Below \in Obj
  BY <1>1, StackFacts DEF Is, IInv, TypeOK
<1>4. /\ stack' \in Seq(Obj \union {Plain}) /\ stack' # <<>> /\ Len(stack') <= capacity
      /\ Range(stack') \subseteq Range(stack)
  <2>1. /\ 2 \in 0..Len(stack) /\ stack \in Seq(Obj \union {Plain}) /\ Len(stack) \in Nat
        /\ Len(stack) <= capacity /\ capacity \in Nat
    BY <1>1, StackFacts
  <2>2. PICK rest \in Seq(Obj \union {Plain}) :
          rest = Drop(2) /\ Len(rest) = Len(stack) - 2 /\ Range(rest) \subseteq Range(stack)
    BY <2>1, DropIs
  <2>3. /\ stack' \in Seq(Obj \union {Plain}) /\ Len(stack') = Len(rest) + 1
        /\ Range(stack') \subseteq Range(rest) \union {Top}
    BY <1>1, <1>3, <2>2, AppendIs
  <2>4. Len(stack') <= capacity /\ Len(stack') # 0
    BY <2>1, <2>2, <2>3
  <2>5. stack' # <<>>
    BY <2>4
  <2>. QED BY <1>3, <2>2, <2>3, <2>4, <2>5
<1>5. GoodHeap(h) /\ \A r \in Roots : Usable(r, h)
  BY <1>1, ExecutingFacts, CollectFacts
<1>6. Usable(name, h) /\ Usable(Below, h) /\ (Top # Plain => Usable(Top, h))
  BY <1>1, <1>3, ConstantsAreKept, StackIsKept
<1>7. GoodHeap(heap') /\ \A a : Usable(a, h) => Usable(a, heap')
  <2>1. \A p \in {name, Top} \ {Plain} : Usable(p, h)
    BY <1>6
  <2>2. Below \in DOMAIN h
    BY <1>6 DEF Usable
  <2>. QED BY <1>2, <1>5, <2>1, <2>2, LinkGood
<1>8. \A r \in Roots' : Usable(r, heap')
  <2>1. Roots' \subseteq Roots
    BY <1>1, <1>4 DEF Roots
  <2>. QED BY <1>5, <1>7, <2>1
<1>. QED BY <1>1, <1>4, <1>7, <1>8, ExecutingFacts, ReadyStep

\* OP_RETURN and runtime_error: nothing runs any more, and the stack is empty.
LEMMA EndStep ==
  ASSUME IInv, Executing, stack' = <<>>, open' = {}, running' = None, capacity' \in Nat,
         UNCHANGED <<heap, globals, compiling, pc, after, hand, operands, chars, early, fault>>
  PROVE  IInv'
<1>1. \A r \in Roots' : Usable(r, heap')
  <2>1. Range(stack') = {}
    BY DEF Range
  <2>2. Roots' \subseteq Roots
    BY <2>1 DEF Roots
  <2>. QED BY <2>2, ExecutingFacts
<1>2. stack' \in Seq(Obj \union {Plain}) /\ Len(stack') = 0
  OBVIOUS
<1>. QED BY <1>1, <1>2, ExecutingFacts, ReadyStep

LEMMA ReturnStep ==
  ASSUME IInv, Return
  PROVE  IInv'
BY EndStep, ExecutingFacts DEF Return, localVars

LEMMA RuntimeErrorStep ==
  ASSUME IInv, RuntimeError
  PROVE  IInv'
BY EndStep DEF RuntimeError, localVars

-----------------------------------------------------------------------------
(***************************************************************************)
(* The theorems.                                                           *)
(***************************************************************************)

LEMMA InitIInv == Init => IInv
<1>. SUFFICES ASSUME Init PROVE IInv
  OBVIOUS
<1>1. DOMAIN heap = {} /\ Roots = {}
  BY DEF Init, Roots, Range
<1>2. TypeOK
  <2>1. /\ DOMAIN heap \subseteq Obj /\ \A o \in DOMAIN heap : heap[o] \in ObjectType
        /\ globals \subseteq Obj /\ open \subseteq Obj
    BY <1>1 DEF Init
  <2>2. stack \in Seq(Obj \union {Plain}) /\ Len(stack) <= capacity
    <3>1. stack \in Seq(Obj \union {Plain}) /\ Len(stack) = 0
      BY DEF Init
    <3>. QED BY <3>1, BoundAssumption DEF Init
  <2>3. compiling \in Seq(Obj) /\ operands \in Seq(Obj)
    BY DEF Init
  <2>4. running \in Obj \union {None} /\ hand \in Obj \union {None} /\ early \in BOOLEAN
    BY Zenon DEF Init
  <2>5. chars \in Text
    BY BoundAssumption DEF Init, Text
  <2>6. pc \in Pcs /\ after \in Pcs /\ fault \in {"none", "push", "concat"}
    BY DEF Init, Pcs
  <2>. QED BY <2>1, <2>2, <2>3, <2>4, <2>5, <2>6, Zenon DEF TypeOK
<1>3. GoodHeap(heap)
  BY <1>1 DEF GoodHeap, Interned, Strings
<1>4. RootsInv
  BY <1>1 DEF RootsInv
<1>5. HandInv
  BY DEF Init, HandInv, NoHand, Interning
<1>6. StackInv
  BY BoundAssumption DEF Init, StackInv, Storing, Interning, Protecting
<1>7. ConcatInv
  BY DEF Init, ConcatInv
<1>8. PhaseInv
  BY DEF Init, PhaseInv, Storing, Compiles, Interning
<1>. QED BY <1>2, <1>3, <1>4, <1>5, <1>6, <1>7, <1>8 DEF IInv

LEMMA NextIInv == IInv /\ [Next]_vars => IInv'
<1>. SUFFICES ASSUME IInv, [Next]_vars PROVE IInv'
  OBVIOUS
<1>1. CASE InternPush \/ InternSet
  BY <1>1, InternPushStep, InternSetStep
<1>2. CASE Concatenate \/ ConcatBuffer \/ ConcatNew \/ ConcatStore
  BY <1>2, ConcatenateStep, ConcatBufferStep, ConcatNewStep, ConcatStoreStep
<1>3. CASE StartFunction \/ Named \/ AddConstant \/ WriteConstant \/ EndFunction
  BY <1>3, StartFunctionStep, NamedStep, AddConstantStep, WriteConstantStep, EndFunctionStep
<1>4. CASE Interpret \/ InterpretClosure
  BY <1>4, InterpretStep, InterpretClosureStep
<1>5. CASE Load \/ Pop \/ PushNew \/ Capture \/ CallActor \/ Return \/ RuntimeError
  BY <1>5, LoadStep, PopStep, PushNewStep, CaptureStep, CallActorStep, ReturnStep,
     RuntimeErrorStep
<1>6. ASSUME NEW t \in Text, Name(t) PROVE IInv'
  <2>1. /\ fault = "none" /\ pc \in {"ready", "name"} /\ compiling # <<>>
        /\ CopyString(t, "named")
    BY <1>6 DEF Name, At, IInv, PhaseInv, Compiles
  <2>. QED BY <2>1, CopyStringStep
<1>7. ASSUME NEW t \in Text, Literal(t) PROVE IInv'
  <2>1. /\ fault = "none" /\ pc \in {"ready", "name"} /\ compiling # <<>>
        /\ CopyString(t, "constant")
    BY <1>7 DEF Literal, Ready
  <2>. QED BY <2>1, CopyStringStep
<1>8. ASSUME NEW o \in Obj,
             \/ DefineGlobal(o) \/ NewClosure(o) \/ NewActor(o) \/ DefineMessage(o)
             \/ SetProperty(o)
      PROVE  IInv'
  BY <1>8, DefineGlobalStep, NewClosureStep, NewActorStep, DefineMessageStep, SetPropertyStep
<1>9. CASE UNCHANGED vars
  <2>1. UNCHANGED <<heap, stack, capacity, globals, open, compiling, running, pc, after, hand,
                    operands, chars, early, fault>>
    BY <1>9 DEF vars, rootVars, localVars
  <2>2. TypeOK' /\ GoodHeap(heap)'
    BY <2>1 DEF IInv, TypeOK
  <2>3. RootsInv' /\ HandInv'
    BY <2>1 DEF IInv, RootsInv, HandInv, Roots
  <2>4. StackInv' /\ ConcatInv' /\ PhaseInv'
    BY <2>1 DEF IInv, StackInv, ConcatInv, PhaseInv, Storing, Compiles, Top
  <2>. QED BY <2>2, <2>3, <2>4 DEF IInv
<1>. QED BY <1>1, <1>2, <1>3, <1>4, <1>5, <1>6, <1>7, <1>8, <1>9 DEF Next

\* Whatever is compiled and run, and wherever collections happen, IInv holds.
THEOREM InductiveInvariant == Spec => []IInv
BY InitIInv, NextIInv, PTL DEF Spec

\* Every variable has its type; the stack is within its capacity.
THEOREM TypeCorrect == Spec => []TypeOK
<1>1. IInv => TypeOK
  BY DEF IInv
<1>. QED BY <1>1, InductiveInvariant, PTL

LEMMA SafeImplies == IInv => NothingDangles
<1>. SUFFICES ASSUME IInv, fault = "none"
              PROVE  /\ Roots \union ({hand} \ {None}) \subseteq DOMAIN heap
                     /\ \A o \in DOMAIN heap : heap[o].refs \subseteq DOMAIN heap
  BY DEF NothingDangles
<1>1. GoodHeap(heap) /\ Roots \subseteq DOMAIN heap
  BY SafeFacts
<1>2. hand # None => hand \in DOMAIN heap
  BY DEF IInv, HandInv, Interning, Usable, Strings
<1>. QED BY <1>1, <1>2 DEF GoodHeap, Usable

\* While neither push nor concatenate has used a freed object, nothing that a root
\* reaches or a C function has in hand is ever freed, however many objects there
\* are and wherever the collections happen.
THEOREM NothingInUseIsFreed == Spec => []NothingDangles
BY SafeImplies, InductiveInvariant, PTL

\* The usable objects are closed under references, so all that roots reach is usable.
LEMMA InternedImplies == IInv => EqualStringsAreOne
<1>. SUFFICES ASSUME IInv PROVE EqualStringsAreOne
  OBVIOUS
<1>1. \A a, b \in Interned(heap) : heap[a].text = heap[b].text => a = b
  BY DEF IInv, GoodHeap
<1>2. ASSUME fault = "none", pc # "intern_set",
             NEW s \in Strings(heap) \intersect Reachable(Roots, Refs)
      PROVE  s \in Interned(heap)
  <2>. DEFINE good == {o \in DOMAIN heap : Usable(o, heap)}
  <2>1. DOMAIN Refs = DOMAIN heap /\ \A o \in DOMAIN heap : Refs[o] = heap[o].refs
    BY DEF Refs
  <2>2. GoodHeap(heap) /\ Roots \subseteq DOMAIN heap /\ \A r \in Roots : Usable(r, heap)
    BY <1>2, SafeFacts
  <2>3. Roots \subseteq good /\ good \in SUBSET DOMAIN Refs
    BY <2>1, <2>2
  <2>4. Closed(good, Refs)
    BY <2>1, <2>2 DEF Closed, GoodHeap, Usable
  <2>. HIDE DEF good
  <2>5. s \in good
    BY <2>3, <2>4 DEF Reachable
  <2>. QED BY <2>5 DEF good, Usable, Interned, Strings
<1>. QED BY <1>1, <1>2 DEF EqualStringsAreOne

\* Strings that a program can compare are equal if and only if they are one object.
THEOREM StringsAreOneObject == Spec => []EqualStringsAreOne
BY InternedImplies, InductiveInvariant, PTL

\* What was pushed only as a protection is popped again.
THEOREM ProtectionIsPopped == Spec => []ProtectionEnds
<1>1. IInv => ProtectionEnds
  BY DEF IInv, StackInv, Protecting, ProtectionEnds
<1>. QED BY <1>1, InductiveInvariant, PTL

=============================================================================
