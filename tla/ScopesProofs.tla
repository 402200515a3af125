---------------------------- MODULE ScopesProofs ----------------------------
(***************************************************************************)
(* Proofs about module Scopes, for any names and bounds: the types and the *)
(* positions of locals, whatever the range of indices, and what upvalues   *)
(* and names stand for as long as no index is cut (NoTruncation).          *)
(*                                                                         *)
(* IInv is about each compiler by itself (Fits: its locals are in the      *)
(* order of their depths, and its height is what they need) and the bounds *)
(* on the chain.  NamesInv is about the chain: the upvalues have variables *)
(* (Resolved), and the last access is to the right one (Accesses).         *)
(***************************************************************************)
EXTENDS Scopes, ProofLemmas, FunctionTheorems

-----------------------------------------------------------------------------
(***************************************************************************)
(* The inductive invariant.                                                *)
(***************************************************************************)

CompilerType ==
  [type : {"script", "function", "message"}, depth : 0..(MaxBlocks + 1),
   locals : Seq(LocalType), upvalues : Seq(UpvalueType), height : Int,
   stage : {"statement", "initializer", "parameters", "actor"}]

AccessType ==
  [op : {"none", "local", "upvalue", "global"}, arg : 0..(IndexRange - 1),
   name : Name \union {This, NoName}, set : BOOLEAN]

\* Slot 0 is the only local of depth 0 and has no name of the program; no local is
\* deeper than the open scope, and an inner one is later than an outer one.
Ordered(c) ==
  /\ Len(c.locals) >= 1 /\ c.locals[1].depth = 0 /\ c.locals[1].name \notin Name
  /\ \A i \in 1..Len(c.locals) :
       /\ c.locals[i].depth <= c.depth
       /\ i > 1 => c.locals[i].depth # 0
  /\ \A i, j \in 1..Len(c.locals) :
       i <= j /\ c.locals[j].depth # Uninitialized => c.locals[i].depth <= c.locals[j].depth

\* Only the variable whose initializer is being compiled is not initialized.
Initialized(c) ==
  \A i \in 1..Len(c.locals) :
    c.locals[i].depth = Uninitialized =>
      c.stage = "initializer" /\ c.depth > 0 /\ i = Len(c.locals)

\* The height, where a function of the type inner is being compiled inside c.
Level(c, inner) ==
  c.height = Len(c.locals)
             + (IF c.stage = "actor" THEN 1 ELSE 0)
             - (IF (inner = "function" \/ c.stage = "initializer") /\ c.depth > 0
                  THEN 1 ELSE 0)

Fits(c, inner) ==
  /\ Ordered(c) /\ Initialized(c) /\ Level(c, inner)
  /\ c.type # "script" => c.depth >= 1
  /\ inner # "none" => c.stage # "initializer"
  /\ (inner = "function" \/ c.stage = "initializer") /\ c.depth > 0 => Len(c.locals) >= 2

Inner(cs, n) == IF n < Len(cs) THEN cs[n + 1].type ELSE "none"

\* The script is the outermost compiler.
Nested(cs) ==
  /\ cs \in Seq(CompilerType) /\ Len(cs) \in 1..MaxNesting
  /\ \A n \in 1..Len(cs) : n = 1 <=> cs[n].type = "script"
  /\ \A n \in 1..Len(cs) : Fits(cs[n], Inner(cs, n))

\* The locals that the bound counts.
Slots(cs) == UNION {{n} \X (2..Len(cs[n].locals)) : n \in DOMAIN cs}
Within(cs) == IsFiniteSet(Slots(cs)) /\ Cardinality(Slots(cs)) <= MaxLocals

\* The compilers with an actor in progress.
ActorsIn(cs) == {n \in 1..Len(cs) : cs[n].stage = "actor"}

IInv ==
  /\ Nested(compilers) /\ Within(compilers)
  /\ actors = Cardinality(ActorsIn(compilers))
  /\ error \in BOOLEAN /\ emitted \in AccessType

-----------------------------------------------------------------------------
(***************************************************************************)
(* What upvalues and names stand for.                                      *)
(***************************************************************************)

\* No index is cut: locals and upvalues are fewer than the numbers of IndexRange.
NoTruncation == MaxLocals + MaxNesting <= IndexRange

\* v lists the variables of the upvalues of compiler n, where around lists those of
\* the compiler around it.
Stands(v, around, upvalues, n) ==
  /\ v \in Seq(Nat \X Nat) /\ Len(v) = Len(upvalues)
  /\ \A k \in 1..Len(v) :
       /\ upvalues[k].isLocal => v[k] = <<n - 1, upvalues[k].index + 1>>
       /\ ~upvalues[k].isLocal => /\ n > 1 /\ upvalues[k].index + 1 \in 1..Len(around)
                                  /\ v[k] = around[upvalues[k].index + 1]
  /\ \A k, j \in 1..Len(v) : v[k] = v[j] => k = j

\* The variables of v are locals of the compilers around n, and captured.
InReach(v, cs, n) ==
  \A k \in 1..Len(v) :
    /\ v[k][1] \in 1..(n - 1) /\ v[k][2] \in 1..Len(cs[v[k][1]].locals)
    /\ cs[v[k][1]].locals[v[k][2]].captured

\* V lists the variables of all the upvalues.
Resolved(V, cs) ==
  /\ V \in Seq(Seq(Nat \X Nat)) /\ Len(V) = Len(cs)
  /\ \A n \in 1..Len(cs) :
       Stands(V[n], V[n - 1], cs[n].upvalues, n) /\ InReach(V[n], cs, n)

Lacks(c, name) == \A i \in 1..Len(c.locals) : c.locals[i].name # name

\* Local i of compiler n is the innermost variable of this name.
Means(cs, name, n, i) ==
  /\ n \in 1..Len(cs) /\ i \in 1..Len(cs[n].locals) /\ cs[n].locals[i].name = name
  /\ \A j \in 1..Len(cs[n].locals) : j > i => cs[n].locals[j].name # name
  /\ \A m \in 1..Len(cs) : m > n => Lacks(cs[m], name)

\* The access is to the variable that its name means.
Accesses(V, cs, access) ==
  /\ access.op = "local" => Means(cs, access.name, Len(cs), access.arg + 1)
  /\ access.op = "upvalue" =>
       /\ access.arg + 1 \in 1..Len(V[Len(cs)])
       /\ Means(cs, access.name, V[Len(cs)][access.arg + 1][1], V[Len(cs)][access.arg + 1][2])
  /\ access.op = "global" => \A m \in 1..Len(cs) : Lacks(cs[m], access.name)

NamesInv == \E V : Resolved(V, compilers) /\ Accesses(V, compilers, emitted)

-----------------------------------------------------------------------------
(***************************************************************************)
(* Sequences of compilers.                                                 *)
(***************************************************************************)

LEMMA CompilersAre ==
  ASSUME NEW cs, Nested(cs)
  PROVE  /\ cs \in Seq(CompilerType) /\ DOMAIN cs = 1..Len(cs) /\ Len(cs) \in Nat
         /\ Len(cs) >= 1 /\ Len(cs) <= MaxNesting
         /\ \A n \in 1..Len(cs) :
              /\ cs[n] \in CompilerType /\ Fits(cs[n], Inner(cs, n))
              /\ n = 1 <=> cs[n].type = "script"
BY DEF Nested

LEMMA FieldsAre ==
  ASSUME NEW c \in CompilerType
  PROVE  /\ c.type \in {"script", "function", "message"}
         /\ c.depth \in 0..(MaxBlocks + 1) /\ c.depth \in Nat
         /\ c.locals \in Seq(LocalType) /\ Len(c.locals) \in Nat
         /\ c.upvalues \in Seq(UpvalueType) /\ Len(c.upvalues) \in Nat
         /\ c.height \in Int
         /\ c.stage \in {"statement", "initializer", "parameters", "actor"}
         /\ \A i \in 1..Len(c.locals) : c.locals[i] \in LocalType /\ c.locals[i].depth \in Int
<1>1. MaxBlocks \in Nat
  BY BoundAssumption
<1>2. /\ c.type \in {"script", "function", "message"}
      /\ c.depth \in 0..(MaxBlocks + 1)
      /\ c.locals \in Seq(LocalType) /\ c.upvalues \in Seq(UpvalueType)
      /\ c.height \in Int
      /\ c.stage \in {"statement", "initializer", "parameters", "actor"}
  BY DEF CompilerType
<1>3. \A i \in 1..Len(c.locals) : c.locals[i] \in LocalType
  BY <1>2
<1>4. \A l \in LocalType : l.depth \in Int
  BY <1>1 DEF LocalType, Uninitialized
<1>. QED BY <1>1, <1>2, <1>3, <1>4

\* new is cs with c in the place of the last compiler.
Updates(new, cs, c) ==
  /\ new \in Seq(CompilerType) /\ Len(new) = Len(cs) /\ new[Len(cs)] = c
  /\ \A n \in 1..(Len(cs) - 1) : new[n] = cs[n]

LEMMA UpdateIs ==
  ASSUME Nested(compilers), NEW c \in CompilerType
  PROVE  Updates(Update(c), compilers, c)
BY CompilersAre DEF Updates, Update

LEMMA SlotIs ==
  ASSUME NEW cs, NEW n, NEW i
  PROVE  <<n, i>> \in Slots(cs) <=> n \in DOMAIN cs /\ i \in 2..Len(cs[n].locals)
BY DEF Slots

LEMMA SlotsArePairs ==
  ASSUME NEW cs, NEW p \in Slots(cs)
  PROVE  \E n \in DOMAIN cs : \E i \in 2..Len(cs[n].locals) : p = <<n, i>>
BY DEF Slots

\* There are fewer slots, or one more and room for it.
LEMMA StaysWithin ==
  ASSUME NEW cs, Within(cs), NEW new,
         \/ Slots(new) \subseteq Slots(cs)
         \/ /\ Cardinality(Slots(cs)) < MaxLocals
            /\ \E p : Slots(new) \subseteq Slots(cs) \union {p}
  PROVE  Within(new)
<1>1. IsFiniteSet(Slots(cs)) /\ Cardinality(Slots(cs)) \in Nat /\ MaxLocals \in Nat
  BY FS_CardinalityType, BoundAssumption DEF Within
<1>2. CASE Slots(new) \subseteq Slots(cs)
  <2>1. /\ IsFiniteSet(Slots(new)) /\ Cardinality(Slots(new)) <= Cardinality(Slots(cs))
    BY <1>1, <1>2, FS_Subset
  <2>2. Cardinality(Slots(new)) \in Nat
    BY <2>1, FS_CardinalityType
  <2>. QED BY <1>1, <2>1, <2>2 DEF Within
<1>3. ASSUME Cardinality(Slots(cs)) < MaxLocals,
             NEW p, Slots(new) \subseteq Slots(cs) \union {p}
      PROVE  Within(new)
  <2>. DEFINE more == Slots(cs) \union {p}
  <2>1. /\ IsFiniteSet(more)
        /\ Cardinality(more) = IF p \in Slots(cs) THEN Cardinality(Slots(cs))
                                ELSE Cardinality(Slots(cs)) + 1
    BY <1>1, FS_AddElement, Zenon
  <2>2. Slots(new) \in SUBSET more
    BY <1>3
  <2>. HIDE DEF more
  <2>3. Cardinality(more) <= MaxLocals /\ Cardinality(more) \in Nat
    BY <1>1, <1>3, <2>1
  <2>4. /\ IsFiniteSet(Slots(new))
        /\ Cardinality(Slots(new)) <= Cardinality(more)
    BY <2>1, <2>2, FS_Subset
  <2>5. Cardinality(Slots(new)) \in Nat
    BY <2>4, FS_CardinalityType
  <2>. QED BY <1>1, <2>3, <2>4, <2>5 DEF Within
<1>. QED BY <1>2, <1>3

\* The locals of one compiler are within the bound.
LEMMA LocalsBound ==
  ASSUME NEW cs, Nested(cs), Within(cs), NEW n \in 1..Len(cs)
  PROVE  Len(cs[n].locals) \in 1..(MaxLocals + 1)
<1>. DEFINE len == Len(cs[n].locals)
            at == [i \in 2..len |-> <<n, i>>]
<1>1. len \in Nat /\ len >= 1 /\ n \in DOMAIN cs /\ MaxLocals \in Nat
  BY CompilersAre, FieldsAre, BoundAssumption DEF Fits, Ordered
<1>2. at \in [2..len -> Slots(cs)]
  BY <1>1, SlotIs
<1>3. \A i, j \in 2..len : at[i] = at[j] => i = j
  OBVIOUS
<1>4. IsFiniteSet(2..len) /\ Cardinality(2..len) = len - 1
  <2>. HIDE DEF len, at
  <2>1. 2 \in Int /\ len \in Int
    BY <1>1
  <2>2. /\ IsFiniteSet(2..len)
        /\ Cardinality(2..len) = IF 2 > len THEN 0 ELSE len - 2 + 1
    BY <2>1, FS_Interval, Zenon
  <2>. QED BY <1>1, <2>2
<1>. HIDE DEF at
<1>5. at \in Injection(2..len, Slots(cs))
  BY <1>2, <1>3, Fun_IsInj
<1>6. Cardinality(2..len) <= Cardinality(Slots(cs))
  BY <1>5, FS_Injection DEF Within
<1>7. Cardinality(Slots(cs)) \in Nat /\ Cardinality(Slots(cs)) <= MaxLocals
  BY FS_CardinalityType DEF Within
<1>8. len - 1 <= Cardinality(Slots(cs))
  BY <1>4, <1>6
<1>. HIDE DEF len
<1>9. len \in 1..(MaxLocals + 1)
  BY <1>1, <1>7, <1>8
<1>. QED BY <1>9 DEF len

\* A local more or some fewer in the last compiler.
Room(c, cs) ==
  \/ Len(c.locals) <= Len(cs[Len(cs)].locals)
  \/ Cardinality(Slots(cs)) < MaxLocals /\ Len(c.locals) = Len(cs[Len(cs)].locals) + 1

\* Slots where the last of cs is replaced by c and followed by compilers without locals.
LEMMA SlotsOfReplaced ==
  ASSUME NEW cs, Nested(cs), Within(cs), NEW c \in CompilerType, Room(c, cs),
         NEW new \in Seq(CompilerType),
         \A n \in 1..Len(new) :
           \/ n < Len(cs) /\ new[n] = cs[n]
           \/ n = Len(cs) /\ new[n] = c
           \/ n > Len(cs) /\ Len(new[n].locals) = 1
  PROVE  Within(new)
<1>. DEFINE last == Len(cs)
            len == Len(cs[last].locals)
            size == Len(c.locals)
<1>1. last \in Nat /\ last >= 1 /\ DOMAIN cs = 1..last /\ DOMAIN new = 1..Len(new)
  BY CompilersAre
<1>2. len \in Nat /\ size \in Nat
  <2>1. \A n \in 1..last : cs[n] \in CompilerType
    BY CompilersAre
  <2>. HIDE DEF last
  <2>2. cs[last] \in CompilerType
    BY <1>1, <2>1
  <2>. QED BY <2>2, FieldsAre
<1>3. \/ size <= len
      \/ Cardinality(Slots(cs)) < MaxLocals /\ size = len + 1
  BY DEF Room
<1>. HIDE DEF size, last
<1>4. ASSUME NEW p \in Slots(new), p \notin Slots(cs)
      PROVE  size = len + 1 /\ p = <<last, len + 1>>
  <2>1. PICK n \in DOMAIN new : \E i \in 2..Len(new[n].locals) : p = <<n, i>>
    BY SlotsArePairs
  <2>2. PICK i \in 2..Len(new[n].locals) : p = <<n, i>>
    BY <2>1
  <2>3. n = last /\ new[n] = c
    <3>1. ASSUME n < last, new[n] = cs[n] PROVE FALSE
      <4>1. n \in 1..last
        BY <1>1, <3>1
      <4>2. i \in 2..Len(cs[n].locals)
        BY <2>2, <3>1
      <4>. QED BY <1>1, <1>4, <2>2, <4>1, <4>2, SlotIs
    <3>2. ASSUME n > last, Len(new[n].locals) = 1 PROVE FALSE
      BY <2>2, <3>2
    <3>3. n \in 1..Len(new)
      BY <1>1
    <3>. QED BY <3>1, <3>2, <3>3 DEF last
  <2>4. i \in 2..size
    BY <2>2, <2>3 DEF size
  <2>5. last \in DOMAIN cs
    BY <1>1
  <2>6. ~(i \in 2..len)
    BY <1>4, <2>2, <2>3, <2>5, SlotIs
  <2>. HIDE DEF len
  <2>7. i = len + 1 /\ size = len + 1
    BY <1>2, <1>3, <2>4, <2>6
  <2>. QED BY <2>2, <2>3, <2>7
<1>. HIDE DEF len
<1>5. CASE size = len + 1
  <2>1. Cardinality(Slots(cs)) < MaxLocals
    BY <1>2, <1>3, <1>5
  <2>2. Slots(new) \subseteq Slots(cs) \union {<<last, len + 1>>}
    BY <1>4
  <2>. QED BY <2>1, <2>2, StaysWithin
<1>6. CASE size # len + 1
  <2>1. Slots(new) \subseteq Slots(cs)
    BY <1>4, <1>6
  <2>. QED BY <2>1, StaysWithin
<1>. QED BY <1>5, <1>6

\* The last compiler is replaced.
LEMMA UpdateKeeps ==
  ASSUME NEW cs, Nested(cs), Within(cs), NEW c \in CompilerType, Fits(c, "none"),
         c.type = cs[Len(cs)].type, Room(c, cs), NEW new, Updates(new, cs, c)
  PROVE  Nested(new) /\ Within(new)
<1>1. /\ new \in Seq(CompilerType) /\ Len(new) = Len(cs) /\ new[Len(cs)] = c
      /\ \A n \in 1..(Len(cs) - 1) : new[n] = cs[n]
  BY DEF Updates
<1>2. Len(cs) \in Nat /\ Len(cs) >= 1 /\ Len(cs) <= MaxNesting
  BY CompilersAre
<1>3. \A n \in 1..Len(cs) : new[n].type = cs[n].type
  BY <1>1, <1>2
<1>4. ASSUME NEW n \in 1..Len(cs) PROVE Fits(new[n], Inner(new, n))
  <2>1. CASE n = Len(cs)
    BY <1>1, <2>1 DEF Inner
  <2>2. CASE n # Len(cs)
    <3>1. n \in 1..(Len(cs) - 1) /\ n + 1 \in 1..Len(cs) /\ n < Len(cs)
      BY <1>2, <2>2
    <3>2. Inner(new, n) = Inner(cs, n) /\ new[n] = cs[n]
      BY <1>1, <1>3, <3>1 DEF Inner
    <3>. QED BY <3>2, CompilersAre
  <2>. QED BY <2>1, <2>2
<1>5. Nested(new)
  <2>1. MaxNesting \in Nat
    BY BoundAssumption
  <2>2. Len(new) \in 1..MaxNesting
    BY <1>1, <1>2, <2>1
  <2>. QED BY <1>1, <1>3, <1>4, <2>2, CompilersAre DEF Nested
<1>6. Within(new)
  <2>1. \A n \in 1..Len(new) : \/ n < Len(cs) /\ new[n] = cs[n]
                               \/ n = Len(cs) /\ new[n] = c
    BY <1>1, <1>2
  <2>. QED BY <1>1, <2>1, SlotsOfReplaced
<1>. QED BY <1>5, <1>6

-----------------------------------------------------------------------------
(***************************************************************************)
(* One compiler.                                                           *)
(***************************************************************************)

\* d is c but for its locals, its height and its stage.
Same(d, c) ==
  d \in CompilerType /\ d.type = c.type /\ d.depth = c.depth /\ d.upvalues = c.upvalues

\* d has one more local than c, of this name and depth.
Declares(d, c, name, depth) ==
  /\ Same(d, c) /\ Len(d.locals) = Len(c.locals) + 1
  /\ d.locals[Len(c.locals) + 1].name = name /\ d.locals[Len(c.locals) + 1].depth = depth
  /\ \A i \in 1..Len(c.locals) : d.locals[i] = c.locals[i]

LEMMA DeclareIs ==
  ASSUME NEW c \in CompilerType, NEW name \in Name, NEW constant \in BOOLEAN
  PROVE  \A d : d = Declare(c, name, constant) =>
           /\ d \in CompilerType /\ d.height = c.height /\ d.stage = c.stage
           /\ c.depth = 0 => d = c
           /\ c.depth # 0 => Declares(d, c, name, Uninitialized)
<1>. DEFINE local == [name |-> name, depth |-> Uninitialized, captured |-> FALSE,
                      constant |-> constant]
<1>1. c.locals \in Seq(LocalType) /\ Len(c.locals) \in Nat /\ MaxBlocks \in Nat
  BY FieldsAre, BoundAssumption
<1>2. local \in LocalType
  <2>1. /\ local.name \in Name \union {This, NoName} /\ local.constant \in BOOLEAN
        /\ local.captured \in BOOLEAN /\ local.depth \in Uninitialized..(MaxBlocks + 1)
    BY <1>1 DEF Uninitialized
  <2>. QED BY <2>1, Zenon DEF LocalType
<1>. HIDE DEF local
<1>3. CASE c.depth = 0
  BY <1>3 DEF Declare
<1>4. CASE c.depth # 0
  <2>. DEFINE new == Append(c.locals, local)
              d == [c EXCEPT !.locals = new]
  <2>1. /\ new \in Seq(LocalType) /\ Len(new) = Len(c.locals) + 1
        /\ new[Len(c.locals) + 1] = local
        /\ \A i \in 1..Len(c.locals) : new[i] = c.locals[i]
    BY <1>1, <1>2
  <2>. HIDE DEF new
  <2>2. d \in CompilerType /\ d.locals = new /\ d.height = c.height /\ d.stage = c.stage
    BY <2>1 DEF CompilerType
  <2>3. d.type = c.type /\ d.depth = c.depth /\ d.upvalues = c.upvalues
    BY DEF CompilerType
  <2>4. d = Declare(c, name, constant)
    BY <1>4 DEF Declare, new, local
  <2>5. local.name = name /\ local.depth = Uninitialized
    BY DEF local
  <2>. HIDE DEF d
  <2>6. Declares(d, c, name, Uninitialized)
    BY <2>1, <2>2, <2>3, <2>5 DEF Declares, Same
  <2>. QED BY <1>4, <2>2, <2>4, <2>6
<1>. QED BY <1>3, <1>4

\* d is c with its last local at the depth of the open scope.
Marks(d, c) ==
  /\ Same(d, c) /\ Len(d.locals) = Len(c.locals)
  /\ d.locals[Len(c.locals)].name = c.locals[Len(c.locals)].name
  /\ d.locals[Len(c.locals)].captured = c.locals[Len(c.locals)].captured
  /\ d.locals[Len(c.locals)].depth = c.depth
  /\ \A i \in 1..(Len(c.locals) - 1) : d.locals[i] = c.locals[i]

LEMMA MarkIs ==
  ASSUME NEW c \in CompilerType, c.depth # 0, Len(c.locals) >= 1
  PROVE  \A d : d = MarkInitialized(c) =>
           Marks(d, c) /\ d.height = c.height /\ d.stage = c.stage
<1>. DEFINE last == Len(c.locals)
            local == [c.locals[last] EXCEPT !.depth = c.depth]
            new == [c.locals EXCEPT ![last] = local]
            d == [c EXCEPT !.locals = new]
<1>1. c.locals \in Seq(LocalType) /\ last \in Nat /\ last \in 1..last /\ MaxBlocks \in Nat
  BY FieldsAre, BoundAssumption
<1>2. c.locals[last] \in LocalType /\ c.depth \in Uninitialized..(MaxBlocks + 1)
  BY <1>1, FieldsAre DEF Uninitialized
<1>3. /\ local \in LocalType /\ local.depth = c.depth /\ local.name = c.locals[last].name
      /\ local.captured = c.locals[last].captured
  <2>1. \A l \in LocalType : \A e \in Uninitialized..(MaxBlocks + 1) :
          /\ [l EXCEPT !.depth = e] \in LocalType
          /\ [l EXCEPT !.depth = e].depth = e /\ [l EXCEPT !.depth = e].name = l.name
    BY DEF LocalType
  <2>2. \A l \in LocalType : \A e : [l EXCEPT !.depth = e].captured = l.captured
    BY Zenon DEF LocalType
  <2>. QED BY <1>2, <2>1, <2>2
<1>. HIDE DEF local
<1>4. /\ new \in Seq(LocalType) /\ Len(new) = last /\ new[last] = local
      /\ \A i \in 1..(last - 1) : new[i] = c.locals[i]
  BY <1>1, <1>3
<1>5. d = MarkInitialized(c)
  BY DEF MarkInitialized, local
<1>. HIDE DEF new
<1>6. /\ d \in CompilerType /\ d.locals = new /\ d.height = c.height /\ d.stage = c.stage
      /\ d.type = c.type /\ d.depth = c.depth /\ d.upvalues = c.upvalues
  BY <1>4 DEF CompilerType
<1>. HIDE DEF d
<1>7. Marks(d, c)
  BY <1>3, <1>4, <1>6 DEF Marks, Same
<1>. QED BY <1>5, <1>6, <1>7

LEMMA DefineIs ==
  ASSUME NEW c \in CompilerType, Len(c.locals) >= 1
  PROVE  \A d : d = Define(c) =>
           /\ d \in CompilerType /\ d.stage = c.stage
           /\ c.depth = 0 => d = c
           /\ c.depth # 0 => Marks(d, c) /\ d.height = c.height + 1
<1>1. CASE c.depth = 0
  BY <1>1 DEF Define
<1>2. CASE c.depth # 0
  <2>1. PICK m : m = MarkInitialized(c)
    OBVIOUS
  <2>2. Marks(m, c) /\ m.height = c.height /\ m.stage = c.stage
    BY <1>2, <2>1, MarkIs
  <2>3. m \in CompilerType /\ c.height \in Int
    BY <2>2, FieldsAre DEF Marks, Same
  <2>. DEFINE h == m.height + 1
              d == [m EXCEPT !.height = h]
  <2>0. h \in Int
    BY <2>2, <2>3
  <2>5. d = Define(c)
    BY <1>2, <2>1 DEF Define
  <2>. HIDE DEF h
  <2>4. /\ d \in CompilerType /\ d.locals = m.locals /\ d.height = h
        /\ d.stage = m.stage
        /\ d.type = m.type /\ d.depth = m.depth /\ d.upvalues = m.upvalues
    BY <2>0, <2>3 DEF CompilerType
  <2>. HIDE DEF d
  <2>6. Marks(d, c)
    BY <2>2, <2>4 DEF Marks, Same
  <2>. QED BY <1>2, <2>2, <2>4, <2>5, <2>6 DEF h
<1>. QED BY <1>1, <1>2

LEMMA NewCompilerIs ==
  ASSUME NEW type \in {"script", "function", "message"}
  PROVE  /\ NewCompiler(type) \in CompilerType /\ Fits(NewCompiler(type), "none")
         /\ NewCompiler(type).type = type /\ Len(NewCompiler(type).locals) = 1
         /\ NewCompiler(type).stage # "actor" /\ NewCompiler(type).upvalues = <<>>
         /\ type = "message" \/ NewCompiler(type).locals[1].name = NoName
<1>. DEFINE name == IF type = "message" THEN This ELSE NoName
            local == [name |-> name, depth |-> 0, captured |-> FALSE, constant |-> TRUE]
            c == NewCompiler(type)
<1>1. MaxBlocks \in Nat /\ name \notin Name /\ name \in Name \union {This, NoName}
  BY BoundAssumption, NameAssumption
<1>2. local \in LocalType /\ local.depth = 0 /\ local.name = name
  <2>1. /\ local.name \in Name \union {This, NoName} /\ local.constant \in BOOLEAN
        /\ local.captured \in BOOLEAN /\ local.depth \in Uninitialized..(MaxBlocks + 1)
    BY <1>1 DEF Uninitialized
  <2>. QED BY <2>1, Zenon DEF LocalType
<1>3. /\ c.locals = <<local>> /\ c.type = type /\ c.upvalues = <<>> /\ c.height = 1
      /\ c.depth = (IF type = "script" THEN 0 ELSE 1)
      /\ c.stage = (IF type = "script" THEN "statement" ELSE "parameters")
  BY DEF NewCompiler
<1>4. c = [type |-> c.type, depth |-> c.depth, locals |-> c.locals,
           upvalues |-> c.upvalues, height |-> c.height, stage |-> c.stage]
  BY DEF NewCompiler
<1>. HIDE DEF local, c
<1>5. <<local>> \in Seq(LocalType) /\ Len(<<local>>) = 1 /\ <<local>>[1] = local
  BY <1>2
<1>6. c \in CompilerType
  <2>1. /\ c.type \in {"script", "function", "message"} /\ c.height \in Int
        /\ c.depth \in 0..(MaxBlocks + 1)
        /\ c.stage \in {"statement", "initializer", "parameters", "actor"}
    BY <1>1, <1>3
  <2>2. c.locals \in Seq(LocalType) /\ c.upvalues \in Seq(UpvalueType)
    BY <1>3, <1>5
  <2>. QED BY <1>4, <2>1, <2>2, Zenon DEF CompilerType
<1>7. Ordered(c)
  BY <1>1, <1>2, <1>3, <1>5 DEF Ordered, Uninitialized
<1>8. Initialized(c) /\ Level(c, "none")
  BY <1>2, <1>3, <1>5 DEF Initialized, Level, Uninitialized
<1>9. Fits(c, "none")
  BY <1>3, <1>7, <1>8 DEF Fits
<1>. QED BY <1>1, <1>2, <1>3, <1>5, <1>6, <1>9 DEF c

\* No local of c is being declared.
Settled(c) == \A i \in 1..Len(c.locals) : c.locals[i].depth # Uninitialized

LEMMA SettledIs ==
  ASSUME NEW c \in CompilerType, Initialized(c), c.stage # "initializer" \/ c.depth = 0
  PROVE  Settled(c)
BY FieldsAre DEF Initialized, Settled

\* A new local is deeper than the others, once it is initialized.
LEMMA DeclareKeeps ==
  ASSUME NEW c \in CompilerType, Ordered(c), Settled(c), NEW name \in Name, NEW d,
         Declares(d, c, name, Uninitialized)
  PROVE  /\ Ordered(d) /\ Len(d.locals) = Len(c.locals) + 1 /\ Len(d.locals) >= 2
         /\ \A i \in 1..(Len(d.locals) - 1) : d.locals[i].depth # Uninitialized
<1>. DEFINE n == Len(c.locals)
<1>1. /\ n \in Nat /\ n >= 1 /\ c.depth \in Nat /\ d.depth = c.depth
      /\ \A i \in 1..n : c.locals[i].depth \in Int
  BY FieldsAre DEF Ordered, Declares, Same
<1>2. /\ Len(d.locals) = n + 1 /\ d.locals[n + 1].depth = Uninitialized
      /\ \A i \in 1..n : d.locals[i] = c.locals[i]
  BY DEF Declares
<1>3. /\ c.locals[1].depth = 0 /\ c.locals[1].name \notin Name
      /\ \A i \in 1..n : c.locals[i].depth <= c.depth /\ (i > 1 => c.locals[i].depth # 0)
      /\ \A i, j \in 1..n :
           i <= j /\ c.locals[j].depth # Uninitialized => c.locals[i].depth <= c.locals[j].depth
      /\ \A i \in 1..n : c.locals[i].depth # Uninitialized
  BY DEF Ordered, Settled
<1>. HIDE DEF n
<1>4. d.locals[1] = c.locals[1]
  BY <1>1, <1>2
<1>5. ASSUME NEW i \in 1..(n + 1)
      PROVE  d.locals[i].depth <= d.depth /\ (i > 1 => d.locals[i].depth # 0)
  <2>1. CASE i = n + 1
    BY <1>1, <1>2, <2>1 DEF Uninitialized
  <2>2. CASE i # n + 1
    <3>1. i \in 1..n
      BY <1>1, <2>2
    <3>. QED BY <1>1, <1>2, <1>3, <3>1
  <2>. QED BY <2>1, <2>2
<1>6. ASSUME NEW i \in 1..(n + 1), NEW j \in 1..(n + 1), i <= j,
             d.locals[j].depth # Uninitialized
      PROVE  d.locals[i].depth <= d.locals[j].depth
  <2>1. i \in 1..n /\ j \in 1..n
    BY <1>1, <1>2, <1>6
  <2>. QED BY <1>2, <1>3, <1>6, <2>1
<1>7. \A i \in 1..n : d.locals[i].depth # Uninitialized
  BY <1>2, <1>3
<1>8. Ordered(d)
  BY <1>1, <1>2, <1>3, <1>4, <1>5, <1>6 DEF Ordered
<1>9. n + 1 >= 2 /\ 1..n = 1..((n + 1) - 1)
  BY <1>1
<1>. QED BY <1>2, <1>7, <1>8, <1>9 DEF n

LEMMA MarkKeeps ==
  ASSUME NEW c \in CompilerType, Ordered(c), c.depth # 0, Len(c.locals) >= 2,
         \A i \in 1..(Len(c.locals) - 1) : c.locals[i].depth # Uninitialized,
         NEW d, Marks(d, c)
  PROVE  Ordered(d) /\ Settled(d)
<1>. DEFINE n == Len(c.locals)
<1>1. /\ n \in Nat /\ n >= 2 /\ c.depth \in Nat /\ c.depth > 0 /\ d.depth = c.depth
      /\ \A i \in 1..n : c.locals[i].depth \in Int
  BY FieldsAre DEF Marks, Same
<1>2. /\ Len(d.locals) = n /\ d.locals[n].depth = c.depth
      /\ \A i \in 1..(n - 1) : d.locals[i] = c.locals[i]
  BY DEF Marks
<1>3. /\ c.locals[1].depth = 0 /\ c.locals[1].name \notin Name
      /\ \A i \in 1..n : c.locals[i].depth <= c.depth /\ (i > 1 => c.locals[i].depth # 0)
      /\ \A i, j \in 1..n :
           i <= j /\ c.locals[j].depth # Uninitialized => c.locals[i].depth <= c.locals[j].depth
      /\ \A i \in 1..(n - 1) : c.locals[i].depth # Uninitialized
  BY DEF Ordered
<1>. HIDE DEF n
<1>4. d.locals[1] = c.locals[1]
  BY <1>1, <1>2
<1>5. ASSUME NEW i \in 1..n
      PROVE  /\ d.locals[i].depth <= d.depth /\ (i > 1 => d.locals[i].depth # 0)
             /\ d.locals[i].depth # Uninitialized
  <2>1. CASE i = n
    BY <1>1, <1>2, <2>1 DEF Uninitialized
  <2>2. CASE i # n
    <3>1. i \in 1..(n - 1) /\ i \in 1..n
      BY <1>1, <2>2
    <3>. QED BY <1>1, <1>2, <1>3, <3>1
  <2>. QED BY <2>1, <2>2
<1>6. ASSUME NEW i \in 1..n, NEW j \in 1..n, i <= j
      PROVE  d.locals[i].depth <= d.locals[j].depth
  <2>1. CASE j = n
    BY <1>1, <1>2, <1>5, <2>1
  <2>2. CASE j # n
    <3>1. i \in 1..(n - 1) /\ j \in 1..(n - 1) /\ i \in 1..n
      BY <1>1, <1>6, <2>2
    <3>. QED BY <1>2, <1>3, <1>6, <3>1
  <2>. QED BY <2>1, <2>2
<1>7. Ordered(d)
  BY <1>1, <1>2, <1>3, <1>4, <1>5, <1>6 DEF Ordered
<1>8. Settled(d)
  BY <1>2, <1>5 DEF Settled
<1>. QED BY <1>7, <1>8

\* d is c with one more variable, which is in use, if it is a local one.
HasNew(d, c, name) ==
  /\ Same(d, c) /\ d.stage = c.stage /\ Ordered(d) /\ Settled(d)
  /\ c.depth = 0 => d.locals = c.locals
  /\ c.depth # 0 => /\ Len(d.locals) = Len(c.locals) + 1
                    /\ d.locals[Len(c.locals) + 1].name = name
                    /\ \A i \in 1..Len(c.locals) : d.locals[i] = c.locals[i]

LEMMA NewVariable ==
  ASSUME NEW c \in CompilerType, Ordered(c), Settled(c), NEW name \in Name,
         NEW constant \in BOOLEAN
  PROVE  /\ \A d : d = MarkInitialized(Declare(c, name, constant)) =>
              HasNew(d, c, name) /\ d.height = c.height
         /\ \A d : d = Define(Declare(c, name, constant)) =>
              /\ HasNew(d, c, name)
              /\ d.height = c.height + (IF c.depth = 0 THEN 0 ELSE 1)
<1>1. PICK m : m = Declare(c, name, constant)
  OBVIOUS
<1>2. /\ m \in CompilerType /\ m.height = c.height /\ m.stage = c.stage
      /\ c.depth = 0 => m = c
      /\ c.depth # 0 => Declares(m, c, name, Uninitialized)
  BY <1>1, DeclareIs
<1>3. c.height \in Int /\ c.depth \in Nat /\ Len(c.locals) \in Nat
  BY FieldsAre
<1>4. CASE c.depth = 0
  <2>1. Same(c, c)
    BY DEF Same
  <2>2. HasNew(c, c, name)
    BY <1>4, <2>1 DEF HasNew
  <2>3. MarkInitialized(m) = c /\ Define(m) = c
    BY <1>2, <1>4 DEF MarkInitialized, Define
  <2>. QED BY <1>1, <1>3, <1>4, <2>2, <2>3
<1>5. CASE c.depth # 0
  <2>1. /\ Ordered(m) /\ Len(m.locals) = Len(c.locals) + 1 /\ Len(m.locals) >= 2
        /\ \A i \in 1..(Len(m.locals) - 1) : m.locals[i].depth # Uninitialized
    BY <1>2, <1>5, DeclareKeeps
  <2>2. m.depth = c.depth /\ Same(m, c)
    BY <1>2, <1>5 DEF Declares, Same
  <2>3. ASSUME NEW d, Marks(d, m), d.stage = m.stage PROVE HasNew(d, c, name)
    <3>1. Ordered(d) /\ Settled(d)
      BY <1>2, <1>5, <2>1, <2>2, <2>3, MarkKeeps
    <3>2. Same(d, c)
      BY <2>2, <2>3 DEF Marks, Same
    <3>3. Len(d.locals) = Len(c.locals) + 1 /\ Len(m.locals) - 1 = Len(c.locals)
      BY <1>3, <2>1, <2>3 DEF Marks
    <3>4. /\ d.locals[Len(c.locals) + 1].name = name
          /\ \A i \in 1..Len(c.locals) : d.locals[i] = c.locals[i]
      BY <1>2, <1>5, <2>1, <2>3, <3>3 DEF Marks, Declares
    <3>. QED BY <1>2, <1>5, <2>3, <3>1, <3>2, <3>3, <3>4 DEF HasNew
  <2>4. Len(m.locals) >= 1
    BY <1>3, <2>1
  <2>5. \A d : d = MarkInitialized(m) => Marks(d, m) /\ d.height = c.height /\ d.stage = m.stage
    BY <1>2, <1>5, <2>2, <2>4, MarkIs
  <2>6. \A d : d = Define(m) => Marks(d, m) /\ d.height = c.height + 1 /\ d.stage = m.stage
    BY <1>2, <1>5, <2>2, <2>4, DefineIs
  <2>. QED BY <1>1, <1>5, <2>3, <2>5, <2>6
<1>. QED BY <1>4, <1>5

\* The locals that end_scope keeps are those that are not deeper.
LEMMA KeptIs ==
  ASSUME NEW c \in CompilerType, Ordered(c), Settled(c), NEW depth \in Nat
  PROVE  \A kept :
           kept = (CHOOSE n \in 0..Len(c.locals) :
                     /\ \A i \in (n + 1)..Len(c.locals) : c.locals[i].depth > depth
                     /\ n > 0 => c.locals[n].depth <= depth) =>
             /\ kept \in 1..Len(c.locals)
             /\ \A i \in 1..kept : c.locals[i].depth <= depth
<1>. DEFINE len == Len(c.locals)
            Shallow == {i \in 1..len : c.locals[i].depth <= depth}
<1>1. len \in Nat /\ len >= 1 /\ \A i \in 1..len : c.locals[i].depth \in Int
  BY FieldsAre DEF Ordered
<1>2. /\ c.locals[1].depth = 0
      /\ \A i, j \in 1..len : i <= j => c.locals[i].depth <= c.locals[j].depth
  BY DEF Ordered, Settled
<1>. HIDE DEF len
<1>3. Shallow \in SUBSET (1..len) /\ 1 \in Shallow
  BY <1>1, <1>2
<1>4. PICK n \in Shallow : \A j \in Shallow : n >= j
  <2>. HIDE DEF Shallow
  <2>. QED BY <1>1, <1>3, GreatestElement
<1>5. ASSUME NEW i \in (n + 1)..len PROVE c.locals[i].depth > depth
  <2>1. i \in 1..len /\ i > n
    BY <1>1
  <2>2. i \notin Shallow
    BY <1>4, <2>1
  <2>. QED BY <1>1, <2>1, <2>2
<1>6. n \in 0..len /\ (n > 0 => c.locals[n].depth <= depth)
  BY <1>1
<1>7. ASSUME NEW kept \in 0..len,
             \A i \in (kept + 1)..len : c.locals[i].depth > depth,
             kept > 0 => c.locals[kept].depth <= depth
      PROVE  kept \in 1..len /\ \A i \in 1..kept : c.locals[i].depth <= depth
  <2>1. kept # 0
    <3>1. SUFFICES ASSUME kept = 0 PROVE FALSE
      OBVIOUS
    <3>2. 1 \in (kept + 1)..len
      BY <1>1, <3>1
    <3>3. c.locals[1].depth > depth
      BY <1>7, <3>2
    <3>. QED BY <1>2, <3>3
  <2>2. kept \in 1..len
    BY <2>1
  <2>3. ASSUME NEW i \in 1..kept PROVE c.locals[i].depth <= depth
    <3>1. i \in 1..len /\ i <= kept
      BY <1>1, <2>2
    <3>2. /\ c.locals[i].depth <= c.locals[kept].depth /\ c.locals[kept].depth <= depth
          /\ c.locals[i].depth \in Int /\ c.locals[kept].depth \in Int
      BY <1>1, <1>2, <1>7, <2>2, <3>1
    <3>. QED BY <3>2
  <2>. QED BY <2>2, <2>3
<1>8. TAKE kept
<1>9. HAVE kept = CHOOSE m \in 0..Len(c.locals) :
                    /\ \A i \in (m + 1)..Len(c.locals) : c.locals[i].depth > depth
                    /\ m > 0 => c.locals[m].depth <= depth
<1>10. /\ kept \in 0..len
       /\ \A i \in (kept + 1)..len : c.locals[i].depth > depth
       /\ kept > 0 => c.locals[kept].depth <= depth
  BY <1>5, <1>6, <1>9 DEF len
<1>. QED BY <1>7, <1>10 DEF len

-----------------------------------------------------------------------------
(***************************************************************************)
(* The actions on the innermost compiler.                                  *)
(***************************************************************************)

LEMMA CurrentIs ==
  ASSUME IInv
  PROVE  /\ Len(compilers) \in Nat /\ Len(compilers) >= 1
         /\ Current = compilers[Len(compilers)] /\ Current \in CompilerType
         /\ Ordered(Current) /\ Initialized(Current) /\ Level(Current, "none")
         /\ Current.type # "script" => Current.depth >= 1
         /\ Current.stage = "initializer" /\ Current.depth > 0 => Len(Current.locals) >= 2
<1>1. /\ Len(compilers) \in Nat /\ Len(compilers) >= 1
      /\ \A n \in 1..Len(compilers) :
           compilers[n] \in CompilerType /\ Fits(compilers[n], Inner(compilers, n))
  BY CompilersAre DEF IInv
<1>2. Current = compilers[Len(compilers)]
  BY DEF Current, Last
<1>3. Current \in CompilerType /\ Fits(Current, Inner(compilers, Len(compilers)))
  BY <1>1, <1>2
<1>4. Inner(compilers, Len(compilers)) = "none"
  BY <1>1 DEF Inner
<1>. QED BY <1>1, <1>2, <1>3, <1>4 DEF Fits

LEMMA ActorsFinite ==
  ASSUME NEW cs, Nested(cs)
  PROVE  IsFiniteSet(ActorsIn(cs)) /\ Cardinality(ActorsIn(cs)) \in Nat
<1>1. Len(cs) \in Nat
  BY CompilersAre
<1>2. IsFiniteSet(1..Len(cs))
  BY <1>1, FS_Interval
<1>3. ActorsIn(cs) \in SUBSET (1..Len(cs))
  BY DEF ActorsIn
<1>. QED BY <1>2, <1>3, FS_Subset, FS_CardinalityType

LEMMA NoAccessIs == NoAccess \in AccessType
<1>1. 0 \in 0..(IndexRange - 1)
  BY BoundAssumption
<1>. QED BY <1>1 DEF NoAccess, AccessType

\* An actor is begun or ended, or neither.
CountsActors(c) ==
  \/ (c.stage = "actor" <=> Current.stage = "actor") /\ actors' = actors
  \/ c.stage = "actor" /\ Current.stage # "actor" /\ actors' = actors + 1
  \/ c.stage # "actor" /\ Current.stage = "actor" /\ actors' = actors - 1

LEMMA ActorsCounted ==
  ASSUME IInv, NEW c, CountsActors(c), Updates(compilers', compilers, c)
  PROVE  actors' = Cardinality(ActorsIn(compilers'))
<1>. DEFINE last == Len(compilers)
            old == ActorsIn(compilers)
            new == ActorsIn(compilers')
<1>1. last \in Nat /\ last >= 1 /\ Current = compilers[last]
  BY CurrentIs
<1>2. /\ Len(compilers') = last /\ compilers'[last] = c
      /\ \A n \in 1..(last - 1) : compilers'[n] = compilers[n]
  BY DEF Updates
<1>3. IsFiniteSet(old) /\ actors = Cardinality(old)
  BY ActorsFinite DEF IInv
<1>. HIDE DEF last
<1>4. \A n \in 1..last : n # last => (n \in new <=> n \in old)
  BY <1>1, <1>2 DEF ActorsIn, last
<1>5. last \in new <=> c.stage = "actor"
  BY <1>1, <1>2 DEF ActorsIn
<1>6. last \in old <=> Current.stage = "actor"
  BY <1>1 DEF ActorsIn, last
<1>7. old \subseteq 1..last /\ new \subseteq 1..last
  BY <1>2 DEF ActorsIn, last
<1>. HIDE DEF old, new
<1>8. CASE (c.stage = "actor" <=> Current.stage = "actor") /\ actors' = actors
  <2>1. new = old
    <3>1. \A n \in 1..last : n \in new <=> n \in old
      BY <1>4, <1>5, <1>6, <1>8
    <3>. QED BY <1>7, <3>1
  <2>. QED BY <1>3, <1>8, <2>1 DEF new
<1>9. CASE c.stage = "actor" /\ Current.stage # "actor" /\ actors' = actors + 1
  <2>1. new = old \union {last} /\ last \notin old
    BY <1>4, <1>5, <1>6, <1>7, <1>9
  <2>2. Cardinality(old \union {last}) = Cardinality(old) + 1
    BY <1>3, <2>1, FS_AddElement
  <2>. QED BY <1>3, <1>9, <2>1, <2>2 DEF new
<1>10. CASE c.stage # "actor" /\ Current.stage = "actor" /\ actors' = actors - 1
  <2>1. new = old \ {last} /\ last \in old
    BY <1>4, <1>5, <1>6, <1>7, <1>10
  <2>2. Cardinality(old \ {last}) = Cardinality(old) - 1
    BY <1>3, <2>1, FS_RemoveElement
  <2>. QED BY <1>3, <1>10, <2>1, <2>2 DEF new
<1>. QED BY <1>8, <1>9, <1>10 DEF CountsActors

\* In new, at most the last compiler of cs has changed, not in its upvalues, or has
\* ended, or there is one more.
Resumes(new, cs) ==
  /\ new \in Seq(CompilerType) /\ Len(new) >= Len(cs) - 1 /\ Len(new) <= Len(cs) + 1
  /\ \A n \in 1..Len(new) :
       /\ n < Len(cs) /\ n < Len(new) => new[n] = cs[n]
       /\ new[n].upvalues = IF n <= Len(cs) THEN cs[n].upvalues ELSE <<>>

\* The innermost compiler goes on as c.
LEMMA GoesOn ==
  ASSUME IInv, NEW c \in CompilerType, Fits(c, "none"), c.type = Current.type,
         c.upvalues = Current.upvalues, Room(c, compilers),
         compilers' = Update(c), CountsActors(c), error' \in BOOLEAN, emitted' \in AccessType
  PROVE  IInv' /\ Resumes(compilers', compilers)
<1>1. Nested(compilers) /\ Within(compilers) /\ c.type = compilers[Len(compilers)].type
  BY CurrentIs DEF IInv
<1>2. Updates(compilers', compilers, c)
  <2>1. Updates(Update(c), compilers, c)
    BY <1>1, UpdateIs
  <2>. QED BY <2>1, Zenon
<1>3. Nested(compilers') /\ Within(compilers')
  BY <1>1, <1>2, UpdateKeeps
<1>4. actors' = Cardinality(ActorsIn(compilers'))
  BY <1>2, ActorsCounted
<1>5. IInv'
  BY <1>3, <1>4 DEF IInv
<1>6. Resumes(compilers', compilers)
  <2>1. Len(compilers) \in Nat /\ Len(compilers) >= 1 /\ Current = compilers[Len(compilers)]
    BY CurrentIs
  <2>2. \A n \in 1..Len(compilers) : n = Len(compilers) \/ n \in 1..(Len(compilers) - 1)
    BY <2>1
  <2>. QED BY <1>2, <2>1, <2>2 DEF Updates, Resumes
<1>. QED BY <1>5, <1>6

LEMMA ErrorStep ==
  ASSUME IInv, Error
  PROVE  IInv' /\ Resumes(compilers', compilers)
<1>1. compilers' = compilers /\ actors' = actors /\ emitted' \in AccessType /\ error' \in BOOLEAN
  BY NoAccessIs DEF Error
<1>2. compilers \in Seq(CompilerType) /\ Len(compilers) \in Nat
  BY CompilersAre DEF IInv
<1>3. Resumes(compilers', compilers)
  BY <1>1, <1>2 DEF Resumes
<1>. QED BY <1>1, <1>3 DEF IInv

LEMMA CompiledIs ==
  ASSUME IInv, Compiled
  PROVE  emitted' \in AccessType /\ error' \in BOOLEAN
BY NoAccessIs DEF IInv, Compiled

\* Where a statement or a declaration comes next.
LEMMA AtStatementIs ==
  ASSUME IInv, AtStatement
  PROVE  /\ Settled(Current) /\ Current.stage = "statement"
         /\ Current.height = Len(Current.locals)
<1>1. Current.stage = "statement" /\ Current \in CompilerType
  BY CurrentIs DEF AtStatement
<1>2. Len(Current.locals) \in Nat /\ Current.height \in Int
  BY <1>1, FieldsAre
<1>. QED BY <1>1, <1>2, CurrentIs, SettledIs DEF Level

\* With c for the innermost compiler: one local more, if the bound allows, or none.
LEMMA RoomIs ==
  ASSUME IInv, NEW c \in CompilerType,
         \/ Len(c.locals) <= Len(Current.locals)
         \/ HasRoom /\ Len(c.locals) = Len(Current.locals) + 1
  PROVE  Room(c, compilers)
<1>1. LocalsInScope = Slots(compilers)
  BY DEF LocalsInScope, Slots
<1>. QED BY <1>1, CurrentIs DEF HasRoom, Room

\* The height while an initializer is compiled, with an actor, and otherwise.
LEMMA LevelIs ==
  ASSUME NEW c, NEW n \in Nat, c.height = n, c.depth \in Nat
  PROVE  /\ Len(c.locals) = n + 1 /\ c.stage = "initializer" /\ c.depth # 0 => Level(c, "none")
         /\ Len(c.locals) = n - 1 /\ c.stage = "actor" => Level(c, "none")
         /\ /\ Len(c.locals) = n /\ c.stage # "actor"
            /\ c.stage = "initializer" => c.depth = 0
            => Level(c, "none")
<1>1. ASSUME Len(c.locals) = n + 1, c.stage = "initializer", c.depth # 0
      PROVE  Level(c, "none")
  BY <1>1 DEF Level
<1>2. ASSUME Len(c.locals) = n - 1, c.stage = "actor"
      PROVE  Level(c, "none")
  BY <1>2 DEF Level
<1>3. ASSUME Len(c.locals) = n, c.stage # "actor", c.stage = "initializer" => c.depth = 0
      PROVE  Level(c, "none")
  BY <1>3 DEF Level
<1>. QED BY <1>1, <1>2, <1>3

LEMMA BeginVarStep ==
  ASSUME IInv, NEW name \in Name, NEW constant \in BOOLEAN, BeginVar(name, constant)
  PROVE  IInv' /\ Resumes(compilers', compilers)
<1>1. AtStatement /\ HasRoom
  BY DEF BeginVar
<1>2. CASE Error
  BY <1>2, ErrorStep
<1>3. ASSUME compilers' = Update([Declare(Current, name, constant) EXCEPT !.stage = "initializer"]),
             Compiled, UNCHANGED actors
      PROVE  IInv' /\ Resumes(compilers', compilers)
  <2>1. /\ Current \in CompilerType /\ Ordered(Current) /\ Settled(Current)
        /\ Current.height = Len(Current.locals) /\ Current.stage = "statement"
        /\ Current.type # "script" => Current.depth >= 1
        /\ Len(Current.locals) \in Nat /\ Current.depth \in Nat
    BY <1>1, CurrentIs, AtStatementIs, FieldsAre
  <2>2. PICK d : d = Declare(Current, name, constant)
    OBVIOUS
  <2>3. /\ d \in CompilerType /\ d.height = Current.height
        /\ Current.depth = 0 => d = Current
        /\ Current.depth # 0 => Declares(d, Current, name, Uninitialized)
    BY <2>1, <2>2, DeclareIs
  <2>4. PICK c : c = [d EXCEPT !.stage = "initializer"]
    OBVIOUS
  <2>5. /\ c \in CompilerType /\ c.type = d.type /\ c.depth = d.depth /\ c.locals = d.locals
        /\ c.height = d.height /\ c.stage = "initializer" /\ c.upvalues = d.upvalues
    BY <2>3, <2>4 DEF CompilerType
  <2>6. c.type = Current.type /\ c.depth = Current.depth /\ c.upvalues = Current.upvalues
    BY <2>3, <2>5 DEF Declares, Same
  <2>7. /\ Ordered(d)
        /\ IF Current.depth = 0 THEN Len(d.locals) = Len(Current.locals)
           ELSE Len(d.locals) = Len(Current.locals) + 1 /\ Len(d.locals) >= 2
        /\ \A i \in 1..Len(d.locals) :
             d.locals[i].depth = Uninitialized => d.depth # 0 /\ i = Len(d.locals)
    <3>1. CASE Current.depth = 0
      BY <2>1, <2>3, <3>1 DEF Settled
    <3>2. CASE Current.depth # 0
      <4>1. /\ Ordered(d) /\ Len(d.locals) = Len(Current.locals) + 1 /\ Len(d.locals) >= 2
            /\ \A i \in 1..(Len(d.locals) - 1) : d.locals[i].depth # Uninitialized
        BY <2>1, <2>3, <3>2, DeclareKeeps
      <4>2. d.depth # 0
        BY <2>5, <2>6, <3>2
      <4>3. Len(d.locals) \in Nat
        BY <2>1, <4>1
      <4>4. ASSUME NEW i \in 1..Len(d.locals), d.locals[i].depth = Uninitialized
            PROVE  i = Len(d.locals)
        <5>1. ~(i \in 1..(Len(d.locals) - 1))
          BY <4>1, <4>4
        <5>. QED BY <4>3, <5>1
      <4>. QED BY <3>2, <4>1, <4>2, <4>4
    <3>. QED BY <3>1, <3>2
  <2>8. Ordered(c) /\ Initialized(c)
    <3>1. c.depth = d.depth /\ c.depth \in Nat
      BY <2>1, <2>5, <2>6
    <3>. QED BY <2>5, <2>7, <3>1 DEF Ordered, Initialized
  <2>9. Level(c, "none")
    <3>1. /\ c.height = Len(Current.locals) /\ c.depth \in Nat /\ c.stage = "initializer"
          /\ IF c.depth = 0 THEN Len(c.locals) = Len(Current.locals)
             ELSE Len(c.locals) = Len(Current.locals) + 1
      BY <2>1, <2>3, <2>5, <2>6, <2>7
    <3>. QED BY <2>1, <3>1, LevelIs
  <2>10. Fits(c, "none")
    BY <2>1, <2>5, <2>6, <2>7, <2>8, <2>9 DEF Fits
  <2>11. Room(c, compilers)
    BY <1>1, <2>1, <2>5, <2>7, RoomIs
  <2>12. CountsActors(c)
    BY <1>3, <2>1, <2>5 DEF CountsActors
  <2>13. compilers' = Update(c)
    BY <1>3, <2>2, <2>4
  <2>. QED BY <1>3, <2>5, <2>6, <2>10, <2>11, <2>12, <2>13, CompiledIs, GoesOn
<1>. QED BY <1>2, <1>3 DEF BeginVar

LEMMA HeightIs ==
  ASSUME NEW c \in CompilerType, Level(c, "none")
  PROVE  /\ c.stage = "initializer" /\ c.depth # 0 => c.height + 1 = Len(c.locals)
         /\ c.stage = "actor" => c.height = Len(c.locals) + 1
         /\ c.stage # "actor" /\ (c.stage = "initializer" => c.depth = 0) =>
              c.height = Len(c.locals)
<1>. DEFINE n == Len(c.locals)
            actor == IF c.stage = "actor" THEN 1 ELSE 0
            pending == IF c.stage = "initializer" /\ c.depth > 0 THEN 1 ELSE 0
<1>1. c.depth \in Nat /\ n \in Nat /\ c.height \in Int
  BY FieldsAre
<1>2. ("none" = "function" \/ c.stage = "initializer") <=> c.stage = "initializer"
  OBVIOUS
<1>3. c.height = n + actor - pending
  BY <1>2, Zenon DEF Level
<1>4. c.stage = "initializer" /\ c.depth # 0 => actor = 0 /\ pending = 1
  BY <1>1
<1>5. c.stage = "actor" => actor = 1 /\ pending = 0
  OBVIOUS
<1>6. c.stage # "actor" /\ (c.stage = "initializer" => c.depth = 0) =>
        actor = 0 /\ pending = 0
  BY <1>1
<1>. HIDE DEF n, actor, pending
<1>7. /\ actor = 0 /\ pending = 1 => c.height + 1 = n
      /\ actor = 1 /\ pending = 0 => c.height = n + 1
      /\ actor = 0 /\ pending = 0 => c.height = n
  BY <1>1, <1>3
<1>. QED BY <1>4, <1>5, <1>6, <1>7 DEF n

LEMMA EndVarStep ==
  ASSUME IInv, EndVar
  PROVE  IInv' /\ Resumes(compilers', compilers)
<1>1. /\ Current.stage = "initializer" /\ Compiled /\ actors' = actors
      /\ compilers' = Update([Define(Current) EXCEPT !.stage = "statement"])
  BY DEF EndVar
<1>2. /\ Current \in CompilerType /\ Ordered(Current) /\ Initialized(Current)
      /\ Level(Current, "none") /\ (Current.type # "script" => Current.depth >= 1)
      /\ Current.depth > 0 => Len(Current.locals) >= 2
      /\ Len(Current.locals) \in Nat /\ Current.depth \in Nat /\ Current.height \in Int
      /\ Len(Current.locals) >= 1
  BY <1>1, CurrentIs, FieldsAre DEF Ordered
<1>3. PICK d : d = Define(Current)
  OBVIOUS
<1>4. /\ d \in CompilerType
      /\ Current.depth = 0 => d = Current
      /\ Current.depth # 0 => Marks(d, Current) /\ d.height = Current.height + 1
  BY <1>2, <1>3, DefineIs
<1>5. /\ Ordered(d) /\ Settled(d) /\ d.height = Len(d.locals)
      /\ Len(d.locals) = Len(Current.locals) /\ Same(d, Current)
  <2>1. CASE Current.depth = 0
    <3>1. Settled(Current)
      BY <1>2, <2>1, SettledIs
    <3>2. Current.height = Len(Current.locals)
      BY <1>1, <1>2, <2>1, HeightIs
    <3>. QED BY <1>2, <1>4, <2>1, <3>1, <3>2 DEF Same
  <2>2. CASE Current.depth # 0
    <3>1. \A i \in 1..(Len(Current.locals) - 1) : Current.locals[i].depth # Uninitialized
      BY <1>2 DEF Initialized
    <3>2. Current.height + 1 = Len(Current.locals)
      BY <1>1, <1>2, <2>2, HeightIs
    <3>3. Ordered(d) /\ Settled(d)
      BY <1>2, <1>4, <2>2, <3>1, MarkKeeps
    <3>. QED BY <1>4, <2>2, <3>2, <3>3 DEF Marks
  <2>. QED BY <2>1, <2>2
<1>6. PICK c : c = [d EXCEPT !.stage = "statement"]
  OBVIOUS
<1>7. /\ c \in CompilerType /\ c.type = d.type /\ c.depth = d.depth /\ c.locals = d.locals
      /\ c.height = d.height /\ c.stage = "statement" /\ c.upvalues = d.upvalues
  BY <1>4, <1>6 DEF CompilerType
<1>8. c.type = Current.type /\ c.depth = Current.depth /\ c.upvalues = Current.upvalues
  BY <1>5, <1>7 DEF Same
<1>9. Ordered(c) /\ Initialized(c)
  BY <1>5, <1>7 DEF Ordered, Initialized, Settled
<1>10. Level(c, "none")
  BY <1>2, <1>5, <1>7, <1>8, LevelIs
<1>11. Fits(c, "none")
  BY <1>2, <1>7, <1>8, <1>9, <1>10 DEF Fits
<1>12. Room(c, compilers)
  BY <1>2, <1>5, <1>7, RoomIs
<1>13. CountsActors(c) /\ compilers' = Update(c)
  BY <1>1, <1>3, <1>6, <1>7 DEF CountsActors
<1>. QED BY <1>1, <1>7, <1>8, <1>11, <1>12, <1>13, CompiledIs, GoesOn

\* The innermost compiler has no more blocks than all of them have.
LEMMA DepthBound ==
  ASSUME IInv, Cardinality(OpenBlocks) < MaxBlocks
  PROVE  Current.depth <= MaxBlocks
<1>. DEFINE last == Len(compilers)
            outer == OutermostBlock(Current)
            depth == Current.depth
            all == (1..last) \X (1..(MaxBlocks + 1))
            at == [i \in outer..depth |-> <<last, i>>]
<1>1. /\ last \in Nat /\ last >= 1 /\ Current = compilers[last] /\ DOMAIN compilers = 1..last
      /\ depth \in Nat /\ MaxBlocks \in Nat /\ outer \in {1, 2}
  BY CurrentIs, CompilersAre, FieldsAre, BoundAssumption DEF IInv, OutermostBlock
<1>2. \A n \in 1..last : compilers[n].depth \in 0..(MaxBlocks + 1)
  BY CompilersAre, FieldsAre DEF IInv
<1>3. OpenBlocks \subseteq all
  <2>1. SUFFICES ASSUME NEW p \in OpenBlocks PROVE p \in all
    OBVIOUS
  <2>2. PICK n \in DOMAIN compilers :
          p \in {n} \X (OutermostBlock(compilers[n])..compilers[n].depth)
    BY DEF OpenBlocks
  <2>3. PICK i \in OutermostBlock(compilers[n])..compilers[n].depth : p = <<n, i>>
    BY <2>2
  <2>4. OutermostBlock(compilers[n]) \in {1, 2} /\ compilers[n].depth \in 0..(MaxBlocks + 1)
    BY <1>1, <1>2 DEF OutermostBlock
  <2>5. i \in 1..(MaxBlocks + 1)
    BY <1>1, <2>4
  <2>. QED BY <1>1, <2>3, <2>5
<1>4. IsFiniteSet(OpenBlocks)
  <2>1. IsFiniteSet(1..last) /\ IsFiniteSet(1..(MaxBlocks + 1))
    BY <1>1, FS_Interval
  <2>2. IsFiniteSet(all)
    BY <2>1, FS_Product
  <2>. HIDE DEF all
  <2>. QED BY <1>3, <2>2, FS_Subset
<1>5. at \in [outer..depth -> OpenBlocks]
  <2>1. SUFFICES ASSUME NEW i \in outer..depth PROVE <<last, i>> \in OpenBlocks
    OBVIOUS
  <2>2. last \in DOMAIN compilers /\ i \in OutermostBlock(compilers[last])..compilers[last].depth
    BY <1>1
  <2>. QED BY <2>2 DEF OpenBlocks
<1>6. \A i, j \in outer..depth : at[i] = at[j] => i = j
  OBVIOUS
<1>. HIDE DEF at
<1>7. at \in Injection(outer..depth, OpenBlocks)
  BY <1>5, <1>6, Fun_IsInj
<1>8. Cardinality(outer..depth) <= Cardinality(OpenBlocks)
  BY <1>4, <1>7, FS_Injection
<1>9. Cardinality(OpenBlocks) \in Nat
  BY <1>4, FS_CardinalityType
<1>. HIDE DEF outer, depth
<1>10. Cardinality(outer..depth) = IF outer > depth THEN 0 ELSE depth - outer + 1
  <2>1. outer \in Int /\ depth \in Int
    BY <1>1
  <2>. QED BY <2>1, FS_Interval, Zenon
<1>11. depth <= MaxBlocks
  BY <1>1, <1>8, <1>9, <1>10
<1>. QED BY <1>11 DEF depth

LEMMA BeginScopeStep ==
  ASSUME IInv, BeginScope
  PROVE  IInv' /\ Resumes(compilers', compilers)
<1>1. /\ AtStatement /\ Compiled /\ actors' = actors
      /\ compilers' = Update([Current EXCEPT !.depth = @ + 1])
      /\ Cardinality(OpenBlocks) < MaxBlocks
  BY DEF BeginScope
<1>2. /\ Current \in CompilerType /\ Ordered(Current) /\ Settled(Current)
      /\ Current.height = Len(Current.locals) /\ Current.stage = "statement"
      /\ Len(Current.locals) \in Nat /\ Current.depth \in Nat
  BY <1>1, CurrentIs, AtStatementIs, FieldsAre
<1>3. PICK deeper : deeper = Current.depth + 1
  OBVIOUS
<1>4. deeper \in 0..(MaxBlocks + 1) /\ deeper \in Nat /\ deeper >= 1 /\ deeper >= Current.depth
  BY <1>1, <1>2, <1>3, DepthBound, BoundAssumption
<1>5. PICK c : c = [Current EXCEPT !.depth = deeper]
  OBVIOUS
<1>6. /\ c \in CompilerType /\ c.type = Current.type /\ c.depth = deeper
      /\ c.locals = Current.locals /\ c.height = Current.height /\ c.stage = Current.stage
      /\ c.upvalues = Current.upvalues
  BY <1>2, <1>4, <1>5 DEF CompilerType
<1>7. Ordered(c)
  <2>1. \A i \in 1..Len(Current.locals) : Current.locals[i].depth <= deeper
    <3>1. \A i \in 1..Len(Current.locals) :
            Current.locals[i].depth \in Int /\ Current.locals[i].depth <= Current.depth
      BY <1>2, FieldsAre DEF Ordered
    <3>. QED BY <1>2, <1>4, <3>1
  <2>. QED BY <1>2, <1>6, <2>1 DEF Ordered
<1>8. Initialized(c) /\ Level(c, "none")
  BY <1>2, <1>4, <1>6, LevelIs DEF Initialized, Settled
<1>9. Fits(c, "none")
  BY <1>2, <1>4, <1>6, <1>7, <1>8 DEF Fits
<1>10. Room(c, compilers)
  BY <1>2, <1>6, RoomIs
<1>11. CountsActors(c) /\ compilers' = Update(c)
  BY <1>1, <1>3, <1>5, <1>6 DEF CountsActors
<1>. QED BY <1>1, <1>6, <1>9, <1>10, <1>11, CompiledIs, GoesOn

LEMMA EndScopeStep ==
  ASSUME IInv, EndScope
  PROVE  IInv' /\ Resumes(compilers', compilers)
<1>1. /\ AtStatement /\ Compiled /\ actors' = actors
      /\ Current.depth > IF Current.type = "script" THEN 0 ELSE 1
  BY DEF EndScope
<1>2. /\ Current \in CompilerType /\ Ordered(Current) /\ Settled(Current)
      /\ Current.height = Len(Current.locals) /\ Current.stage = "statement"
      /\ Len(Current.locals) \in Nat /\ Current.depth \in 0..(MaxBlocks + 1)
      /\ Current.locals \in Seq(LocalType) /\ MaxBlocks \in Nat
  BY <1>1, CurrentIs, AtStatementIs, FieldsAre, BoundAssumption
<1>3. PICK depth : depth = Current.depth - 1
  OBVIOUS
<1>4. /\ depth \in 0..(MaxBlocks + 1) /\ depth \in Nat
      /\ Current.type # "script" => depth >= 1
  BY <1>1, <1>2, <1>3
<1>5. PICK kept : kept = CHOOSE n \in 0..Len(Current.locals) :
                   /\ \A i \in (n + 1)..Len(Current.locals) : Current.locals[i].depth > depth
                   /\ n > 0 => Current.locals[n].depth <= depth
  OBVIOUS
<1>6. kept \in 1..Len(Current.locals) /\ \A i \in 1..kept : Current.locals[i].depth <= depth
  BY <1>2, <1>4, <1>5, KeptIs
<1>7. compilers' = Update([Current EXCEPT
           !.depth = depth,
           !.locals = SubSeq(@, 1, kept),
           !.height = @ - (Len(Current.locals) - kept)])
  BY <1>3, <1>5 DEF EndScope
<1>8. PICK ls \in Seq(LocalType) : ls = SubSeq(Current.locals, 1, kept)
  <2>1. kept \in 0..Len(Current.locals)
    BY <1>2, <1>6
  <2>2. SubSeq(Current.locals, 1, kept) \in Seq(LocalType)
    BY <1>2, <2>1, PrefixIs
  <2>. QED BY <2>2, Zenon
<1>9. Len(ls) = kept /\ \A i \in 1..kept : ls[i] = Current.locals[i]
  BY <1>2, <1>6, <1>8, PrefixIs
<1>10. PICK h \in Int : h = Current.height - (Len(Current.locals) - kept)
  BY <1>2, <1>6
<1>11. h = kept
  BY <1>2, <1>6, <1>10
<1>12. PICK c : c = [Current EXCEPT !.depth = depth, !.locals = ls, !.height = h]
  OBVIOUS
<1>13. /\ c \in CompilerType /\ c.type = Current.type /\ c.depth = depth
       /\ c.locals = ls /\ c.height = kept /\ c.stage = "statement"
       /\ c.upvalues = Current.upvalues
  BY <1>2, <1>4, <1>11, <1>12 DEF CompilerType
<1>14. \A i \in 1..kept : i \in 1..Len(Current.locals) /\ ls[i] = Current.locals[i]
  BY <1>2, <1>6, <1>9
<1>15. Ordered(c)
  <2>1. kept >= 1 /\ 1 \in 1..kept
    BY <1>6
  <2>. QED BY <1>2, <1>6, <1>9, <1>13, <1>14, <2>1 DEF Ordered
<1>16. Initialized(c) /\ Level(c, "none")
  <2>1. kept \in Nat /\ Len(c.locals) = kept /\ c.depth \in Nat
    BY <1>4, <1>6, <1>9, <1>13
  <2>2. Level(c, "none")
    BY <1>13, <2>1, LevelIs
  <2>3. Initialized(c)
    BY <1>2, <1>13, <1>14, <2>1 DEF Initialized, Settled
  <2>. QED BY <2>2, <2>3
<1>17. Fits(c, "none")
  BY <1>4, <1>13, <1>15, <1>16 DEF Fits
<1>18. Room(c, compilers)
  BY <1>2, <1>6, <1>9, <1>13, RoomIs
<1>19. CountsActors(c) /\ compilers' = Update(c)
  BY <1>1, <1>2, <1>7, <1>8, <1>10, <1>12, <1>13 DEF CountsActors
<1>. QED BY <1>1, <1>13, <1>17, <1>18, <1>19, CompiledIs, GoesOn

\* resolve_local finds the last local of that name.
LEMMA ResolveIs ==
  ASSUME NEW c \in CompilerType, NEW name
  PROVE  /\ ResolveLocal(c, name) \in 0..Len(c.locals)
         /\ ResolveLocal(c, name) # 0 => c.locals[ResolveLocal(c, name)].name = name
         /\ \A i \in 1..Len(c.locals) : i > ResolveLocal(c, name) => c.locals[i].name # name
<1>. DEFINE len == Len(c.locals)
            found == {i \in 1..Len(c.locals) : c.locals[i].name = name}
<1>1. len \in Nat
  BY FieldsAre
<1>2. ResolveLocal(c, name) = IF found # {} THEN Max(found) ELSE 0
  BY DEF ResolveLocal, SelectLastInSeq
<1>3. CASE found = {}
  BY <1>1, <1>2, <1>3
<1>4. CASE found # {}
  <2>1. found \in SUBSET (1..len)
    OBVIOUS
  <2>2. PICK i \in found : \A j \in found : i >= j
    <3>. HIDE DEF found, len
    <3>. QED BY <1>1, <1>4, <2>1, GreatestElement
  <2>3. Max(found) \in found /\ \A j \in found : Max(found) >= j
    <3>. HIDE DEF found
    <3>. QED BY <2>2 DEF Max
  <2>4. PICK r \in found : r = Max(found)
    BY <2>3
  <2>5. ASSUME NEW j \in 1..len, j > r PROVE c.locals[j].name # name
    <3>1. j \notin found
      <4>1. SUFFICES ASSUME j \in found PROVE FALSE
        OBVIOUS
      <4>. QED BY <1>1, <2>3, <2>4, <2>5, <4>1
    <3>. QED BY <2>5, <3>1
  <2>6. ResolveLocal(c, name) = r
    BY <1>2, <1>4, <2>4
  <2>7. r \in 0..len /\ c.locals[r].name = name
    BY <1>1
  <2>. QED BY <2>5, <2>6, <2>7
<1>. QED BY <1>3, <1>4

LEMMA IndexIs ==
  ASSUME NEW i \in Int
  PROVE  /\ Index(i) \in 0..(IndexRange - 1)
         /\ i \in 1..IndexRange => Index(i) = i - 1
<1>1. PICK n \in Nat \ {0} : n = IndexRange
  BY BoundAssumption
<1>2. (i - 1) % n \in 0..(n - 1)
  BY <1>1
<1>3. i \in 1..n => (i - 1) % n = i - 1
  BY <1>1
<1>. QED BY <1>1, <1>2, <1>3 DEF Index

\* A variable whose value is on top is declared and defined.
Defined(d, c, name) ==
  /\ HasNew(d, c, name) /\ d \in CompilerType /\ d.type = c.type
  /\ d.depth = c.depth /\ d.stage = c.stage /\ d.upvalues = c.upvalues
  /\ Ordered(d) /\ Settled(d)
  /\ Len(d.locals) \in Nat /\ d.height = Len(d.locals)
  /\ Len(d.locals) = Len(c.locals) \/ Len(d.locals) = Len(c.locals) + 1

LEMMA DefinedIs ==
  ASSUME NEW c \in CompilerType, Ordered(c), Settled(c), c.height = Len(c.locals),
         NEW name \in Name, NEW constant \in BOOLEAN
  PROVE  \A d : d = Define(Declare(c, name, constant)) => Defined(d, c, name)
<1>1. SUFFICES ASSUME NEW d, d = Define(Declare(c, name, constant))
               PROVE  /\ HasNew(d, c, name) /\ Len(d.locals) \in Nat /\ d.height = Len(d.locals)
                      /\ Len(d.locals) = Len(c.locals) \/ Len(d.locals) = Len(c.locals) + 1
  BY DEF Defined, HasNew, Same
<1>2. HasNew(d, c, name) /\ d.height = c.height + (IF c.depth = 0 THEN 0 ELSE 1)
  <2>1. \A e : e = Define(Declare(c, name, constant)) =>
          HasNew(e, c, name) /\ e.height = c.height + (IF c.depth = 0 THEN 0 ELSE 1)
    BY NewVariable
  <2>. QED BY <1>1, <2>1, Zenon
<1>3. PICK n \in Nat : n = Len(c.locals)
  BY FieldsAre
<1>4. PICK m \in Nat : m = Len(d.locals) /\ d.height = m /\ (m = n \/ m = n + 1)
  <2>1. CASE c.depth = 0
    <3>1. d.height = n + 0 /\ Len(d.locals) = n
      BY <1>2, <1>3, <2>1 DEF HasNew
    <3>2. n + 0 = n
      OBVIOUS
    <3>. QED BY <3>1, <3>2, Zenon
  <2>2. CASE c.depth # 0
    <3>1. d.height = n + 1 /\ Len(d.locals) = n + 1
      BY <1>2, <1>3, <2>2 DEF HasNew
    <3>2. n + 1 \in Nat
      OBVIOUS
    <3>. QED BY <3>1, <3>2, Zenon
  <2>. QED BY <2>1, <2>2
<1>. QED BY <1>2, <1>3, <1>4, Zenon

LEMMA ParameterStep ==
  ASSUME IInv, NEW name \in Name, Parameter(name)
  PROVE  IInv' /\ Resumes(compilers', compilers)
<1>1. Current.stage = "parameters" /\ HasRoom
  BY DEF Parameter
<1>2. CASE Error
  BY <1>2, ErrorStep
<1>3. ASSUME compilers' = Update(Define(Declare(Current, name, TRUE))),
             Compiled, UNCHANGED actors
      PROVE  IInv' /\ Resumes(compilers', compilers)
  <2>1. /\ Current \in CompilerType /\ Ordered(Current) /\ Settled(Current)
        /\ Current.height = Len(Current.locals)
        /\ Current.type # "script" => Current.depth >= 1
        /\ Len(Current.locals) \in Nat /\ Current.depth \in Nat
    BY <1>1, CurrentIs, SettledIs, HeightIs, FieldsAre
  <2>2. PICK c : c = Define(Declare(Current, name, TRUE))
    OBVIOUS
  <2>3. /\ c \in CompilerType /\ c.type = Current.type /\ c.depth = Current.depth
        /\ c.stage = "parameters" /\ c.upvalues = Current.upvalues
        /\ Ordered(c) /\ Settled(c)
        /\ c.height = Len(c.locals) /\ Len(c.locals) \in Nat
        /\ \/ Len(c.locals) = Len(Current.locals)
           \/ Len(c.locals) = Len(Current.locals) + 1
    <3>1. Defined(c, Current, name)
      BY <2>1, <2>2, DefinedIs
    <3>. QED BY <1>1, <3>1 DEF Defined
  <2>4. Level(c, "none")
    BY <2>1, <2>3, LevelIs
  <2>5. Fits(c, "none")
    BY <2>1, <2>3, <2>4 DEF Fits, Initialized, Settled
  <2>6. Room(c, compilers)
    BY <1>1, <2>1, <2>3, RoomIs
  <2>7. CountsActors(c) /\ compilers' = Update(c)
    BY <1>1, <1>3, <2>2, <2>3 DEF CountsActors
  <2>. QED BY <1>3, <2>3, <2>5, <2>6, <2>7, CompiledIs, GoesOn
<1>. QED BY <1>2, <1>3 DEF Parameter

LEMMA BeginBodyStep ==
  ASSUME IInv, BeginBody
  PROVE  IInv' /\ Resumes(compilers', compilers)
<1>1. /\ Current.stage = "parameters" /\ Compiled /\ actors' = actors
      /\ compilers' = Update([Current EXCEPT !.stage = "statement"])
  BY DEF BeginBody
<1>2. /\ Current \in CompilerType /\ Ordered(Current) /\ Settled(Current)
      /\ Current.height = Len(Current.locals)
      /\ Current.type # "script" => Current.depth >= 1
      /\ Len(Current.locals) \in Nat /\ Current.depth \in Nat
  BY <1>1, CurrentIs, SettledIs, HeightIs, FieldsAre
<1>3. PICK c : c = [Current EXCEPT !.stage = "statement"]
  OBVIOUS
<1>4. /\ c \in CompilerType /\ c.type = Current.type /\ c.depth = Current.depth
      /\ c.locals = Current.locals /\ c.height = Current.height /\ c.stage = "statement"
      /\ c.upvalues = Current.upvalues
  BY <1>2, <1>3 DEF CompilerType
<1>5. Ordered(c) /\ Initialized(c)
  BY <1>2, <1>4 DEF Ordered, Initialized, Settled
<1>6. Level(c, "none")
  BY <1>2, <1>4, LevelIs
<1>7. Fits(c, "none")
  BY <1>2, <1>4, <1>5, <1>6 DEF Fits
<1>8. Room(c, compilers)
  BY <1>2, <1>4, RoomIs
<1>9. CountsActors(c) /\ compilers' = Update(c)
  BY <1>1, <1>3, <1>4 DEF CountsActors
<1>. QED BY <1>1, <1>4, <1>7, <1>8, <1>9, CompiledIs, GoesOn

\* What is emitted is of its type.
LEMMA EmitIs ==
  ASSUME NEW op \in {"none", "local", "upvalue", "global"}, NEW arg \in 0..(IndexRange - 1),
         NEW name \in Name \union {This, NoName}, NEW set \in BOOLEAN,
         Emit(op, arg, name, set)
  PROVE  emitted' \in AccessType
BY Zenon DEF Emit, AccessType

LEMMA BeginActorStep ==
  ASSUME IInv, NEW name \in Name, BeginActor(name)
  PROVE  IInv' /\ Resumes(compilers', compilers)
<1>1. AtStatement /\ HasRoom
  BY DEF BeginActor
<1>2. CASE Error
  BY <1>2, ErrorStep
<1>3. ASSUME ~Error PROVE IInv' /\ Resumes(compilers', compilers)
  <2>1. /\ Current \in CompilerType /\ Ordered(Current) /\ Settled(Current)
        /\ Current.height = Len(Current.locals) /\ Current.stage = "statement"
        /\ Current.type # "script" => Current.depth >= 1
        /\ Len(Current.locals) \in Nat /\ Current.depth \in Nat
    BY <1>1, CurrentIs, AtStatementIs, FieldsAre
  <2>2. PICK d : d = Define(Declare(Current, name, TRUE))
    OBVIOUS
  <2>3. /\ compilers' = Update([d EXCEPT !.height = @ + 1, !.stage = "actor"])
        /\ \/ Emit("global", 0, name, FALSE)
           \/ Emit("local", Index(ResolveLocal(d, name)), name, FALSE)
        /\ actors' = actors + 1 /\ error' = error
    BY <1>3, <2>2 DEF BeginActor
  <2>4. /\ d \in CompilerType /\ d.type = Current.type /\ d.depth = Current.depth
        /\ d.upvalues = Current.upvalues /\ Ordered(d) /\ Settled(d)
        /\ d.height = Len(d.locals) /\ Len(d.locals) \in Nat
        /\ \/ Len(d.locals) = Len(Current.locals)
           \/ Len(d.locals) = Len(Current.locals) + 1
    <3>1. Defined(d, Current, name)
      BY <2>1, <2>2, DefinedIs
    <3>. QED BY <3>1 DEF Defined
  <2>5. PICK h \in Nat : h = d.height + 1
    BY <2>4
  <2>6. PICK c : c = [d EXCEPT !.height = h, !.stage = "actor"]
    OBVIOUS
  <2>7. /\ c \in CompilerType /\ c.type = d.type /\ c.depth = d.depth
        /\ c.locals = d.locals /\ c.height = h /\ c.stage = "actor"
        /\ c.upvalues = d.upvalues
    <3>1. h \in Int
      OBVIOUS
    <3>2. c \in CompilerType /\ c.locals = d.locals /\ c.height = h /\ c.stage = "actor"
      BY <2>4, <2>6, <3>1 DEF CompilerType
    <3>3. c.type = d.type /\ c.depth = d.depth /\ c.upvalues = d.upvalues
      BY <2>4, <2>6 DEF CompilerType
    <3>. QED BY <3>2, <3>3
  <2>8. Ordered(c) /\ Initialized(c)
    BY <2>4, <2>7 DEF Ordered, Initialized, Settled
  <2>9. Level(c, "none")
    <3>1. Len(c.locals) = h - 1 /\ c.depth \in Nat
      BY <2>1, <2>4, <2>5, <2>7
    <3>. QED BY <2>7, <3>1, LevelIs
  <2>10. Fits(c, "none")
    BY <2>1, <2>4, <2>7, <2>8, <2>9 DEF Fits
  <2>11. Room(c, compilers)
    BY <1>1, <2>1, <2>4, <2>7, RoomIs
  <2>12. CountsActors(c) /\ compilers' = Update(c)
    BY <2>1, <2>3, <2>5, <2>6, <2>7 DEF CountsActors
  <2>13. emitted' \in AccessType /\ error' \in BOOLEAN
    <3>1. ResolveLocal(d, name) \in Int
      BY <2>4, ResolveIs
    <3>2. Index(ResolveLocal(d, name)) \in 0..(IndexRange - 1) /\ 0 \in 0..(IndexRange - 1)
      BY <3>1, IndexIs, BoundAssumption
    <3>3. emitted' \in AccessType
      BY <2>3, <3>2, EmitIs
    <3>4. error' \in BOOLEAN
      BY <2>3 DEF IInv
    <3>. QED BY <3>3, <3>4
  <2>. QED BY <2>4, <2>7, <2>10, <2>11, <2>12, <2>13, GoesOn
<1>. QED BY <1>2, <1>3

LEMMA EndActorStep ==
  ASSUME IInv, EndActor
  PROVE  IInv' /\ Resumes(compilers', compilers)
<1>1. /\ Current.stage = "actor" /\ Compiled /\ actors' = actors - 1
      /\ compilers' = Update([Current EXCEPT !.height = @ - 1, !.stage = "statement"])
  BY DEF EndActor
<1>2. /\ Current \in CompilerType /\ Ordered(Current) /\ Settled(Current)
      /\ Current.height = Len(Current.locals) + 1
      /\ Current.type # "script" => Current.depth >= 1
      /\ Len(Current.locals) \in Nat /\ Current.depth \in Nat
  BY <1>1, CurrentIs, SettledIs, HeightIs, FieldsAre
<1>3. PICK h \in Int : h = Current.height - 1 /\ h = Len(Current.locals)
  BY <1>2
<1>4. PICK c : c = [Current EXCEPT !.height = h, !.stage = "statement"]
  OBVIOUS
<1>5. /\ c \in CompilerType /\ c.type = Current.type /\ c.depth = Current.depth
      /\ c.locals = Current.locals /\ c.height = h /\ c.stage = "statement"
      /\ c.upvalues = Current.upvalues
  <2>1. c \in CompilerType /\ c.locals = Current.locals /\ c.height = h /\ c.stage = "statement"
    BY <1>2, <1>4 DEF CompilerType
  <2>2. c.type = Current.type /\ c.depth = Current.depth /\ c.upvalues = Current.upvalues
    BY <1>2, <1>4 DEF CompilerType
  <2>. QED BY <2>1, <2>2
<1>6. Ordered(c) /\ Initialized(c)
  BY <1>2, <1>5 DEF Ordered, Initialized, Settled
<1>7. Level(c, "none")
  BY <1>2, <1>3, <1>5, LevelIs
<1>8. Fits(c, "none")
  BY <1>2, <1>5, <1>6, <1>7 DEF Fits
<1>9. Room(c, compilers)
  BY <1>2, <1>5, RoomIs
<1>10. CountsActors(c) /\ compilers' = Update(c)
  BY <1>1, <1>3, <1>4, <1>5 DEF CountsActors
<1>. QED BY <1>1, <1>5, <1>8, <1>9, <1>10, CompiledIs, GoesOn

-----------------------------------------------------------------------------
(***************************************************************************)
(* A compiler more or less.                                                *)
(***************************************************************************)

\* In new, the last compiler of cs goes on as c, and a function of the type is inside it.
Enters(new, cs, c, type) ==
  /\ new \in Seq(CompilerType) /\ Len(new) = Len(cs) + 1
  /\ new[Len(cs)] = c /\ new[Len(cs) + 1] = NewCompiler(type)
  /\ \A n \in 1..(Len(cs) - 1) : new[n] = cs[n]

LEMMA AppendIs ==
  ASSUME NEW cs \in Seq(CompilerType), NEW type \in {"script", "function", "message"}
  PROVE  \A new : new = Append(cs, NewCompiler(type)) =>
           /\ new \in Seq(CompilerType) /\ Len(new) = Len(cs) + 1
           /\ new[Len(cs) + 1] = NewCompiler(type)
           /\ \A n \in 1..Len(cs) : new[n] = cs[n]
<1>1. PICK c \in CompilerType : c = NewCompiler(type)
  BY NewCompilerIs
<1>2. \A new : new = Append(cs, c) =>
        /\ new \in Seq(CompilerType) /\ Len(new) = Len(cs) + 1
        /\ new[Len(cs) + 1] = c
        /\ \A n \in 1..Len(cs) : new[n] = cs[n]
  OBVIOUS
<1>. QED BY <1>1, <1>2, Zenon

\* A function begins.
LEMMA FunctionBegins ==
  ASSUME IInv, NEW c \in CompilerType, NEW type \in {"function", "message"},
         Fits(c, type), c.type = Current.type, c.stage = Current.stage,
         c.upvalues = Current.upvalues, Room(c, compilers), Len(compilers) < MaxNesting,
         Enters(compilers', compilers, c, type), actors' = actors,
         error' \in BOOLEAN, emitted' \in AccessType
  PROVE  IInv' /\ Resumes(compilers', compilers)
<1>. DEFINE last == Len(compilers)
            inner == NewCompiler(type)
<1>1. /\ last \in Nat /\ last >= 1 /\ Current = compilers[last] /\ MaxNesting \in Nat
      /\ Nested(compilers) /\ Within(compilers)
  BY CurrentIs, BoundAssumption DEF IInv
<1>2. /\ compilers' \in Seq(CompilerType) /\ Len(compilers') = last + 1
      /\ compilers'[last] = c /\ compilers'[last + 1] = inner
      /\ \A n \in 1..(last - 1) : compilers'[n] = compilers[n]
  BY DEF Enters
<1>3. /\ inner \in CompilerType /\ Fits(inner, "none") /\ inner.type = type
      /\ Len(inner.locals) = 1 /\ inner.stage # "actor" /\ type # "script"
  BY NewCompilerIs
<1>4. /\ \A n \in 1..last : Fits(compilers[n], Inner(compilers, n))
      /\ \A n \in 1..last : n = 1 <=> compilers[n].type = "script"
      /\ last < MaxNesting
  BY CompilersAre, <1>1
<1>. HIDE DEF last, inner
<1>5. \A n \in 1..last : /\ compilers'[n].type = compilers[n].type
                         /\ compilers'[n].stage = compilers[n].stage
  BY <1>1, <1>2
<1>6. ASSUME NEW n \in 1..(last + 1) PROVE Fits(compilers'[n], Inner(compilers', n))
  <2>1. CASE n = last + 1
    <3>1. Inner(compilers', n) = "none"
      BY <1>1, <1>2, <2>1 DEF Inner
    <3>. QED BY <1>2, <1>3, <2>1, <3>1
  <2>2. CASE n = last
    <3>1. Inner(compilers', n) = type
      BY <1>1, <1>2, <1>3, <2>2 DEF Inner
    <3>. QED BY <1>2, <2>2, <3>1
  <2>3. CASE n \in 1..(last - 1)
    <3>1. n + 1 \in 1..last /\ n < last /\ n < last + 1 /\ n \in 1..last
      BY <1>1, <2>3
    <3>2. Inner(compilers', n) = Inner(compilers, n)
      BY <1>2, <1>5, <3>1 DEF Inner, last
    <3>. QED BY <1>2, <1>4, <2>3, <3>1, <3>2
  <2>. QED BY <1>1, <2>1, <2>2, <2>3
<1>7. \A n \in 1..(last + 1) : n = 1 <=> compilers'[n].type = "script"
  <2>1. ASSUME NEW n \in 1..(last + 1) PROVE n = 1 <=> compilers'[n].type = "script"
    <3>1. CASE n = last + 1
      BY <1>1, <1>2, <1>3, <3>1
    <3>2. CASE n # last + 1
      <4>1. n \in 1..last
        BY <1>1, <3>2
      <4>. QED BY <1>4, <1>5, <4>1
    <3>. QED BY <3>1, <3>2
  <2>. QED BY <2>1
<1>8. Nested(compilers')
  <2>1. Len(compilers') \in 1..MaxNesting
    BY <1>1, <1>2, <1>4
  <2>. QED BY <1>2, <1>6, <1>7, <2>1 DEF Nested
<1>9. Within(compilers')
  <2>1. \A n \in 1..Len(compilers') :
          \/ n < Len(compilers) /\ compilers'[n] = compilers[n]
          \/ n = Len(compilers) /\ compilers'[n] = c
          \/ n > Len(compilers) /\ Len(compilers'[n].locals) = 1
    <3>1. \A n \in 1..(last + 1) : n = last + 1 \/ n = last \/ n \in 1..(last - 1)
      BY <1>1
    <3>. QED BY <1>1, <1>2, <1>3, <3>1 DEF last
  <2>. QED BY <1>1, <1>2, <2>1, SlotsOfReplaced
<1>10. ActorsIn(compilers') = ActorsIn(compilers)
  <2>1. \A n \in 1..(last + 1) : n = last + 1 \/ n \in 1..last
    BY <1>1
  <2>2. 1..last \subseteq 1..(last + 1)
    BY <1>1
  <2>3. compilers'[last + 1].stage # "actor"
    BY <1>2, <1>3
  <2>4. ActorsIn(compilers) = {n \in 1..last : compilers[n].stage = "actor"}
    BY DEF ActorsIn, last
  <2>5. ActorsIn(compilers') = {n \in 1..(last + 1) : compilers'[n].stage = "actor"}
    BY <1>2 DEF ActorsIn
  <2>. QED BY <1>5, <2>1, <2>2, <2>3, <2>4, <2>5
<1>11. IInv'
  BY <1>8, <1>9, <1>10 DEF IInv
<1>12. Resumes(compilers', compilers)
  <2>1. \A n \in 1..(last + 1) : n = last + 1 \/ n = last \/ n \in 1..(last - 1)
    BY <1>1
  <2>2. inner.upvalues = <<>>
    BY NewCompilerIs DEF inner
  <2>. QED BY <1>1, <1>2, <2>1, <2>2 DEF Resumes, last
<1>. QED BY <1>11, <1>12

LEMMA BeginFunctionStep ==
  ASSUME IInv, NEW name \in Name, BeginFunction(name)
  PROVE  IInv' /\ Resumes(compilers', compilers)
<1>1. AtStatement /\ HasRoom /\ Len(compilers) < MaxNesting
  BY DEF BeginFunction
<1>2. CASE Error
  BY <1>2, ErrorStep
<1>3. ASSUME compilers' = Append(Update(MarkInitialized(Declare(Current, name, TRUE))),
                                 NewCompiler("function")),
             Compiled, UNCHANGED actors
      PROVE  IInv' /\ Resumes(compilers', compilers)
  <2>1. /\ Current \in CompilerType /\ Ordered(Current) /\ Settled(Current)
        /\ Current.height = Len(Current.locals) /\ Current.stage = "statement"
        /\ Current.type # "script" => Current.depth >= 1
        /\ Len(Current.locals) \in Nat /\ Current.depth \in Nat
        /\ Len(Current.locals) >= 1 /\ Nested(compilers)
    BY <1>1, CurrentIs, AtStatementIs, FieldsAre DEF Ordered, IInv
  <2>2. PICK c : c = MarkInitialized(Declare(Current, name, TRUE))
    OBVIOUS
  <2>3. HasNew(c, Current, name) /\ c.height = Current.height
    BY <2>1, <2>2, NewVariable
  <2>4. /\ c \in CompilerType /\ c.type = Current.type /\ c.depth = Current.depth
        /\ c.stage = "statement" /\ c.upvalues = Current.upvalues
        /\ Ordered(c) /\ Settled(c)
        /\ c.depth = 0 => Len(c.locals) = Len(Current.locals)
        /\ c.depth # 0 => Len(c.locals) = Len(Current.locals) + 1
    BY <2>1, <2>3 DEF HasNew, Same
  <2>5. PICK n \in Nat : n = Len(Current.locals) /\ n >= 1
    BY <2>1
  <2>6. Level(c, "function") /\ (c.depth > 0 => Len(c.locals) >= 2)
    <3>1. c.height = n /\ c.depth \in Nat
      BY <2>1, <2>3, <2>4, <2>5
    <3>2. CASE c.depth = 0
      <4>1. Len(c.locals) = n
        BY <2>4, <2>5, <3>2
      <4>. QED BY <2>4, <3>1, <3>2, <4>1 DEF Level
    <3>3. CASE c.depth # 0
      <4>1. Len(c.locals) = n + 1
        BY <2>4, <2>5, <3>3
      <4>2. Level(c, "function")
        BY <2>4, <3>1, <3>3, <4>1 DEF Level
      <4>3. n + 1 >= 2
        BY <2>5
      <4>. QED BY <4>1, <4>2, <4>3
    <3>. QED BY <3>2, <3>3
  <2>7. Fits(c, "function")
    BY <2>1, <2>4, <2>6 DEF Fits, Initialized, Settled
  <2>8. Room(c, compilers)
    BY <1>1, <2>1, <2>4, RoomIs
  <2>9. Enters(compilers', compilers, c, "function")
    <3>1. PICK updated : updated = Update(c)
      OBVIOUS
    <3>2. Updates(updated, compilers, c)
      <4>1. Updates(Update(c), compilers, c)
        BY <2>1, <2>4, UpdateIs
      <4>. QED BY <3>1, <4>1, Zenon
    <3>3. compilers' = Append(updated, NewCompiler("function"))
      BY <1>3, <2>2, <3>1
    <3>4. /\ updated \in Seq(CompilerType) /\ Len(updated) = Len(compilers)
          /\ updated[Len(compilers)] = c
          /\ \A k \in 1..(Len(compilers) - 1) : updated[k] = compilers[k]
      BY <3>2 DEF Updates
    <3>5. /\ compilers' \in Seq(CompilerType) /\ Len(compilers') = Len(compilers) + 1
          /\ compilers'[Len(compilers) + 1] = NewCompiler("function")
          /\ \A k \in 1..Len(compilers) : compilers'[k] = updated[k]
      BY <3>3, <3>4, AppendIs
    <3>6. Len(compilers) \in Nat /\ Len(compilers) >= 1
      BY CurrentIs
    <3>. QED BY <3>4, <3>5, <3>6 DEF Enters
  <2>10. error' \in BOOLEAN /\ emitted' \in AccessType
    BY <1>3, CompiledIs
  <2>. QED BY <1>1, <1>3, <2>1, <2>4, <2>7, <2>8, <2>9, <2>10, FunctionBegins
<1>. QED BY <1>2, <1>3 DEF BeginFunction

LEMMA BeginMessageStep ==
  ASSUME IInv, BeginMessage
  PROVE  IInv' /\ Resumes(compilers', compilers)
<1>1. /\ Current.stage = "actor" /\ Len(compilers) < MaxNesting
      /\ compilers' = Append(compilers, NewCompiler("message"))
      /\ Compiled /\ actors' = actors
  BY DEF BeginMessage
<1>2. /\ Current \in CompilerType /\ Ordered(Current) /\ Initialized(Current)
      /\ Level(Current, "none") /\ Nested(compilers)
      /\ Current.type # "script" => Current.depth >= 1
      /\ Len(Current.locals) \in Nat
      /\ Len(compilers) \in Nat /\ Len(compilers) >= 1 /\ Current = compilers[Len(compilers)]
  BY CurrentIs, FieldsAre DEF IInv
<1>3. Level(Current, "message")
  BY <1>2 DEF Level
<1>4. Fits(Current, "message")
  BY <1>1, <1>2, <1>3 DEF Fits
<1>5. Room(Current, compilers)
  BY <1>2, RoomIs
<1>6. Enters(compilers', compilers, Current, "message")
  <2>1. compilers \in Seq(CompilerType)
    BY <1>2, CompilersAre
  <2>2. /\ compilers' \in Seq(CompilerType) /\ Len(compilers') = Len(compilers) + 1
        /\ compilers'[Len(compilers) + 1] = NewCompiler("message")
        /\ \A k \in 1..Len(compilers) : compilers'[k] = compilers[k]
    BY <1>1, <2>1, AppendIs
  <2>. QED BY <1>2, <2>2 DEF Enters
<1>7. error' \in BOOLEAN /\ emitted' \in AccessType
  BY <1>1, CompiledIs
<1>. QED BY <1>1, <1>2, <1>4, <1>5, <1>6, <1>7, FunctionBegins

\* In new, the last compiler of cs has ended, and the one before goes on as c.
Leaves(new, cs, c) ==
  /\ new \in Seq(CompilerType) /\ Len(new) = Len(cs) - 1 /\ new[Len(cs) - 1] = c
  /\ \A n \in 1..(Len(cs) - 2) : new[n] = cs[n]

LEMMA FrontIs ==
  ASSUME IInv
  PROVE  /\ Front(compilers) \in Seq(CompilerType)
         /\ Len(Front(compilers)) = Len(compilers) - 1
         /\ \A n \in 1..(Len(compilers) - 1) : Front(compilers)[n] = compilers[n]
<1>1. compilers \in Seq(CompilerType) /\ Len(compilers) \in Nat /\ Len(compilers) >= 1
  BY CompilersAre DEF IInv
<1>2. PICK n \in 0..Len(compilers) : n = Len(compilers) - 1
  <2>1. \A l \in Nat : l >= 1 => \E n \in 0..l : n = l - 1
    OBVIOUS
  <2>. QED BY <1>1, <2>1
<1>3. Front(compilers) = SubSeq(compilers, 1, n)
  BY <1>2 DEF Front
<1>4. /\ SubSeq(compilers, 1, n) \in Seq(CompilerType) /\ Len(SubSeq(compilers, 1, n)) = n
      /\ \A i \in 1..n : SubSeq(compilers, 1, n)[i] = compilers[i]
  BY <1>1, PrefixIs
<1>. QED BY <1>2, <1>3, <1>4, Zenon

\* A function ends.
LEMMA FunctionEnds ==
  ASSUME IInv, Len(compilers) > 1, Current.stage # "actor", NEW c \in CompilerType,
         Fits(c, "none"), c.type = compilers[Len(compilers) - 1].type,
         c.stage = compilers[Len(compilers) - 1].stage,
         c.upvalues = compilers[Len(compilers) - 1].upvalues,
         Len(c.locals) = Len(compilers[Len(compilers) - 1].locals),
         Leaves(compilers', compilers, c), actors' = actors,
         error' \in BOOLEAN, emitted' \in AccessType
  PROVE  IInv' /\ Resumes(compilers', compilers)
<1>1. PICK last \in Nat : last = Len(compilers) - 1
  BY CurrentIs
<1>2. /\ last >= 1 /\ Len(compilers) = last + 1 /\ Current = compilers[last + 1]
      /\ MaxNesting \in Nat /\ Nested(compilers) /\ Within(compilers)
  BY <1>1, CurrentIs, BoundAssumption DEF IInv
<1>3. /\ compilers' \in Seq(CompilerType) /\ Len(compilers') = last /\ compilers'[last] = c
      /\ \A n \in 1..(last - 1) : compilers'[n] = compilers[n]
  <2>1. Len(compilers) - 2 = last - 1
    BY <1>1, <1>2
  <2>. QED BY <1>1, <2>1 DEF Leaves
<1>4. /\ \A n \in 1..(last + 1) : Fits(compilers[n], Inner(compilers, n))
      /\ \A n \in 1..(last + 1) : n = 1 <=> compilers[n].type = "script"
      /\ last + 1 <= MaxNesting /\ DOMAIN compilers = 1..(last + 1)
  BY <1>2, CompilersAre
<1>5. \A n \in 1..last : /\ compilers'[n].type = compilers[n].type
                         /\ compilers'[n].stage = compilers[n].stage
                         /\ Len(compilers'[n].locals) = Len(compilers[n].locals)
  <2>1. \A n \in 1..last : n = last \/ n \in 1..(last - 1)
    OBVIOUS
  <2>. QED BY <1>1, <1>3, <2>1
<1>6. ASSUME NEW n \in 1..last PROVE Fits(compilers'[n], Inner(compilers', n))
  <2>1. CASE n = last
    <3>1. Inner(compilers', n) = "none"
      BY <1>3, <2>1 DEF Inner
    <3>. QED BY <1>3, <2>1, <3>1
  <2>2. CASE n \in 1..(last - 1)
    <3>1. n + 1 \in 1..last /\ n < last /\ n < last + 1 /\ n \in 1..(last + 1)
      BY <2>2
    <3>2. Inner(compilers', n) = Inner(compilers, n)
      BY <1>2, <1>3, <1>5, <3>1 DEF Inner
    <3>. QED BY <1>3, <1>4, <2>2, <3>1, <3>2
  <2>. QED BY <2>1, <2>2
<1>7. \A n \in 1..last : n = 1 <=> compilers'[n].type = "script"
  BY <1>4, <1>5
<1>8. Nested(compilers')
  <2>1. Len(compilers') \in 1..MaxNesting
    BY <1>2, <1>3, <1>4
  <2>. QED BY <1>3, <1>6, <1>7, <2>1 DEF Nested
<1>9. Within(compilers')
  <2>1. Slots(compilers') \subseteq Slots(compilers)
    <3>1. SUFFICES ASSUME NEW p \in Slots(compilers') PROVE p \in Slots(compilers)
      OBVIOUS
    <3>2. PICK n \in DOMAIN compilers' : \E i \in 2..Len(compilers'[n].locals) : p = <<n, i>>
      BY SlotsArePairs
    <3>3. PICK i \in 2..Len(compilers'[n].locals) : p = <<n, i>>
      BY <3>2
    <3>4. n \in 1..last
      BY <1>3
    <3>5. n \in DOMAIN compilers /\ i \in 2..Len(compilers[n].locals)
      BY <1>4, <1>5, <3>4
    <3>. QED BY <3>3, <3>5, SlotIs
  <2>. QED BY <1>2, <2>1, StaysWithin
<1>10. ActorsIn(compilers') = ActorsIn(compilers)
  <2>1. \A n \in 1..(last + 1) : n = last + 1 \/ n \in 1..last
    OBVIOUS
  <2>2. 1..last \subseteq 1..(last + 1)
    OBVIOUS
  <2>3. compilers[last + 1].stage # "actor"
    BY <1>2
  <2>4. ActorsIn(compilers) = {n \in 1..(last + 1) : compilers[n].stage = "actor"}
    BY <1>2 DEF ActorsIn
  <2>5. ActorsIn(compilers') = {n \in 1..last : compilers'[n].stage = "actor"}
    BY <1>3 DEF ActorsIn
  <2>. QED BY <1>5, <2>1, <2>2, <2>3, <2>4, <2>5
<1>11. IInv'
  BY <1>8, <1>9, <1>10 DEF IInv
<1>12. Resumes(compilers', compilers)
  <2>1. \A n \in 1..last : n = last \/ n \in 1..(last - 1)
    OBVIOUS
  <2>2. c.upvalues = compilers[last].upvalues
    BY <1>1
  <2>. QED BY <1>1, <1>2, <1>3, <2>1, <2>2 DEF Resumes
<1>. QED BY <1>11, <1>12

\* After the function inside c, with the variable of the function in place.
LEMMA EnclosingFits ==
  ASSUME NEW c \in CompilerType, NEW inner \in {"function", "message"}, Fits(c, inner)
  PROVE  \A d : d = (IF inner = "message" THEN c ELSE Define(c)) =>
           /\ d \in CompilerType /\ Fits(d, "none") /\ d.type = c.type /\ d.stage = c.stage
           /\ Len(d.locals) = Len(c.locals) /\ d.upvalues = c.upvalues
<1>1. /\ Ordered(c) /\ Initialized(c) /\ Level(c, inner) /\ c.stage # "initializer"
      /\ c.type # "script" => c.depth >= 1
      /\ inner = "function" /\ c.depth > 0 => Len(c.locals) >= 2
  BY DEF Fits
<1>2. c.depth \in Nat /\ Len(c.locals) >= 1 /\ c.height \in Int /\ Settled(c)
  BY <1>1, FieldsAre, SettledIs DEF Ordered
<1>3. PICK n \in Nat : n = Len(c.locals)
  BY FieldsAre
<1>4. CASE inner = "message" \/ c.depth = 0
  <2>1. Level(c, "none")
    <3>1. (inner = "function" \/ c.stage = "initializer") /\ c.depth > 0
          <=> ("none" = "function" \/ c.stage = "initializer") /\ c.depth > 0
      BY <1>1, <1>2, <1>4
    <3>. QED BY <1>1, <3>1, Zenon DEF Level
  <2>2. Fits(c, "none")
    BY <1>1, <2>1 DEF Fits
  <2>3. Define(c) = c \/ inner = "message"
    BY <1>4 DEF Define
  <2>. QED BY <2>2, <2>3
<1>5. CASE inner = "function" /\ c.depth # 0
  <2>1. TAKE d
  <2>2. HAVE d = IF inner = "message" THEN c ELSE Define(c)
  <2>3. d = Define(c)
    BY <1>5, <2>2
  <2>4. d \in CompilerType /\ d.stage = c.stage /\ Marks(d, c) /\ d.height = c.height + 1
    BY <1>2, <1>5, <2>3, DefineIs
  <2>5. \A i \in 1..(Len(c.locals) - 1) : c.locals[i].depth # Uninitialized
    BY <1>2, <1>3 DEF Settled
  <2>6. c.depth > 0 /\ Len(c.locals) >= 2
    BY <1>1, <1>2, <1>5
  <2>7. Ordered(d) /\ Settled(d)
    BY <1>1, <1>5, <2>4, <2>5, <2>6, MarkKeeps
  <2>8. d.type = c.type /\ d.depth = c.depth /\ Len(d.locals) = n /\ d.upvalues = c.upvalues
    BY <1>3, <2>4 DEF Marks, Same
  <2>9. Level(d, "none")
    <3>1. c.height + 1 = n + (IF c.stage = "actor" THEN 1 ELSE 0)
      <4>1. CASE c.stage = "actor"
        <5>1. c.height = n + 1 - 1
          BY <1>1, <1>3, <1>5, <2>6, <4>1 DEF Level
        <5>. QED BY <1>2, <4>1, <5>1
      <4>2. CASE c.stage # "actor"
        <5>1. c.height = n + 0 - 1
          BY <1>1, <1>3, <1>5, <2>6, <4>2 DEF Level
        <5>. QED BY <1>2, <4>2, <5>1
      <4>. QED BY <4>1, <4>2
    <3>2. CASE c.stage = "actor"
      <4>1. PICK h \in Nat : h = d.height /\ h = n + 1
        BY <2>4, <3>1, <3>2
      <4>2. d.depth \in Nat /\ Len(d.locals) = h - 1 /\ d.stage = "actor"
        BY <1>2, <2>4, <2>8, <3>2, <4>1
      <4>. QED BY <4>1, <4>2, LevelIs
    <3>3. CASE c.stage # "actor"
      <4>1. d.height = n
        BY <2>4, <3>1, <3>3
      <4>. QED BY <1>1, <1>2, <2>4, <2>8, <3>3, <4>1, LevelIs
    <3>. QED BY <3>2, <3>3
  <2>10. Fits(d, "none")
    BY <1>1, <2>4, <2>7, <2>8, <2>9 DEF Fits, Initialized, Settled
  <2>. QED BY <1>3, <2>4, <2>8, <2>10
<1>. QED BY <1>4, <1>5

LEMMA EndFunctionStep ==
  ASSUME IInv, EndFunction
  PROVE  IInv' /\ Resumes(compilers', compilers)
<1>1. AtStatement /\ Len(compilers) > 1 /\ Compiled /\ actors' = actors
  BY DEF EndFunction
<1>2. PICK last \in Nat : last = Len(compilers) - 1
  BY CurrentIs
<1>3. /\ last >= 1 /\ Len(compilers) = last + 1 /\ Current = compilers[last + 1]
      /\ Nested(compilers)
  BY <1>1, <1>2, CurrentIs DEF IInv
<1>4. PICK outer : outer = Front(compilers)
  OBVIOUS
<1>5. /\ outer \in Seq(CompilerType) /\ Len(outer) = last
      /\ \A n \in 1..last : outer[n] = compilers[n]
  BY <1>2, <1>4, FrontIs
<1>6. Last(outer) = compilers[last]
  BY <1>3, <1>5 DEF Last
<1>7. PICK inner \in {"function", "message"} : inner = Current.type
  <2>1. last + 1 \in 1..Len(compilers) /\ last + 1 # 1
    BY <1>3
  <2>2. Current \in CompilerType /\ Current.type # "script"
    BY <1>3, <2>1, CompilersAre
  <2>. QED BY <2>2, FieldsAre
<1>8. compilers[last] \in CompilerType /\ Fits(compilers[last], inner)
  <2>1. last \in 1..Len(compilers) /\ last < Len(compilers)
    BY <1>3
  <2>2. compilers[last] \in CompilerType /\ Fits(compilers[last], Inner(compilers, last))
    BY <1>3, <2>1, CompilersAre
  <2>3. Inner(compilers, last) = inner
    BY <1>3, <1>7, <2>1 DEF Inner
  <2>. QED BY <2>2, <2>3
<1>9. PICK c : c = IF inner = "message" THEN compilers[last] ELSE Define(compilers[last])
  OBVIOUS
<1>10. /\ c \in CompilerType /\ Fits(c, "none") /\ c.type = compilers[last].type
       /\ c.stage = compilers[last].stage /\ Len(c.locals) = Len(compilers[last].locals)
       /\ c.upvalues = compilers[last].upvalues
  BY <1>8, <1>9, EnclosingFits
<1>11. compilers' = [outer EXCEPT ![last] = c]
  BY <1>4, <1>5, <1>6, <1>7, <1>9, Zenon DEF EndFunction
<1>12. Leaves(compilers', compilers, c)
  <2>1. /\ compilers' \in Seq(CompilerType) /\ Len(compilers') = last /\ compilers'[last] = c
        /\ \A n \in 1..(last - 1) : compilers'[n] = compilers[n]
    BY <1>3, <1>5, <1>10, <1>11
  <2>2. Len(compilers) - 2 = last - 1
    BY <1>2, <1>3
  <2>. QED BY <1>2, <2>1, <2>2 DEF Leaves
<1>13. error' \in BOOLEAN /\ emitted' \in AccessType
  BY <1>1, CompiledIs
<1>14. Current.stage # "actor"
  BY <1>1, AtStatementIs
<1>. QED BY <1>1, <1>2, <1>10, <1>12, <1>13, <1>14, FunctionEnds

-----------------------------------------------------------------------------
(***************************************************************************)
(* Capturing a variable.                                                   *)
(***************************************************************************)

\* The innermost enclosing compiler that has the name.
LEMMA OwnerIs ==
  ASSUME IInv, NEW name
  PROVE  /\ Owner(name) \in 0..(Len(compilers) - 1)
         /\ Owner(name) # 0 => ResolveLocal(compilers[Owner(name)], name) # 0
         /\ \A m \in 1..(Len(compilers) - 1) :
              m > Owner(name) => ResolveLocal(compilers[m], name) = 0
<1>. DEFINE outer == Front(compilers)
            found == {m \in 1..Len(outer) : ResolveLocal(outer[m], name) > 0}
<1>1. PICK last \in Nat : last = Len(compilers) - 1
  BY CurrentIs
<1>2. Len(outer) = last /\ \A m \in 1..last : outer[m] = compilers[m]
  BY <1>1, FrontIs
<1>3. \A m \in 1..last : ResolveLocal(compilers[m], name) \in Nat
  <2>1. Len(compilers) = last + 1
    BY <1>1, CurrentIs
  <2>2. \A m \in 1..last : compilers[m] \in CompilerType
    BY <2>1, CompilersAre DEF IInv
  <2>. QED BY <2>2, ResolveIs, FieldsAre
<1>4. Owner(name) = IF found # {} THEN Max(found) ELSE 0
  BY DEF Owner, SelectLastInSeq
<1>5. \A m \in 1..last : m \in found <=> ResolveLocal(compilers[m], name) # 0
  BY <1>2, <1>3
<1>6. found \in SUBSET (1..last)
  BY <1>2
<1>. HIDE DEF found
<1>7. CASE found = {}
  BY <1>1, <1>4, <1>5, <1>7
<1>8. CASE found # {}
  <2>1. PICK i \in found : \A j \in found : i >= j
    BY <1>6, <1>8, GreatestElement
  <2>2. Max(found) \in found /\ \A j \in found : Max(found) >= j
    BY <2>1 DEF Max
  <2>3. PICK o \in found : o = Max(found)
    BY <2>2
  <2>4. ASSUME NEW m \in 1..last, m > o PROVE m \notin found
    <3>1. SUFFICES ASSUME m \in found PROVE FALSE
      OBVIOUS
    <3>2. o >= m /\ o \in 1..last
      BY <1>6, <2>2, <2>3, <3>1
    <3>. QED BY <2>4, <3>2
  <2>5. Owner(name) = o /\ o \in 1..last
    BY <1>4, <1>6, <1>8, <2>3
  <2>. QED BY <1>1, <1>5, <2>4, <2>5
<1>. QED BY <1>7, <1>8

\* add_upvalue finds the upvalue, or it is a new one.
LEMMA UpvalueAtIs ==
  ASSUME NEW c \in CompilerType, NEW upvalue
  PROVE  \A at : at = UpvalueAt(c, upvalue) =>
           /\ at \in 1..(Len(c.upvalues) + 1)
           /\ at <= Len(c.upvalues) => c.upvalues[at] = upvalue
           /\ at > Len(c.upvalues) => \A k \in 1..Len(c.upvalues) : c.upvalues[k] # upvalue
<1>. DEFINE same == {k \in 1..Len(c.upvalues) : c.upvalues[k] = upvalue}
<1>1. PICK len \in Nat : len = Len(c.upvalues)
  BY FieldsAre
<1>2. TAKE at
<1>3. HAVE at = UpvalueAt(c, upvalue)
<1>4. SelectInSeq(c.upvalues, LAMBDA u : u = upvalue) = IF same # {} THEN Min(same) ELSE 0
  BY DEF SelectInSeq
<1>5. CASE same = {}
  <2>1. at = len + 1
    BY <1>1, <1>3, <1>4, <1>5 DEF UpvalueAt
  <2>2. \A k \in 1..len : c.upvalues[k] # upvalue
    BY <1>1, <1>5
  <2>. QED BY <1>1, <2>1, <2>2
<1>6. CASE same # {}
  <2>1. same \in SUBSET Nat
    OBVIOUS
  <2>2. PICK i \in same : \A j \in same : i <= j
    <3>. HIDE DEF same
    <3>. QED BY <1>6, <2>1, LeastElement
  <2>3. Min(same) \in same
    <3>. HIDE DEF same
    <3>. QED BY <2>2 DEF Min
  <2>4. PICK k \in same : k = Min(same)
    BY <2>3
  <2>5. k \in 1..len /\ c.upvalues[k] = upvalue
    BY <1>1
  <2>6. at = k
    BY <1>3, <1>4, <1>6, <2>4, <2>5 DEF UpvalueAt
  <2>. QED BY <1>1, <2>5, <2>6
<1>. QED BY <1>5, <1>6

LinkType == [upvalue : UpvalueType, at : Nat]

\* The upvalue that gives the variable at position at of the compiler around.
Link(m, n, local, at) ==
  LET upvalue == IF m = n + 1 THEN [index |-> Index(local), isLocal |-> TRUE]
                 ELSE [index |-> Index(at), isLocal |-> FALSE]
  IN  [upvalue |-> upvalue, at |-> UpvalueAt(compilers[m], upvalue)]

LEMMA LinkIs ==
  ASSUME IInv, NEW m \in 1..Len(compilers), NEW n, NEW local \in Int, NEW at \in Int
  PROVE  Link(m, n, local, at) \in LinkType
<1>. DEFINE upvalue == IF m = n + 1 THEN [index |-> Index(local), isLocal |-> TRUE]
                       ELSE [index |-> Index(at), isLocal |-> FALSE]
<1>1. Index(local) \in 0..(IndexRange - 1) /\ Index(at) \in 0..(IndexRange - 1)
  BY IndexIs
<1>2. upvalue \in UpvalueType
  BY <1>1, Zenon DEF UpvalueType
<1>3. compilers[m] \in CompilerType
  BY CompilersAre DEF IInv
<1>. HIDE DEF upvalue
<1>4. PICK k : k = UpvalueAt(compilers[m], upvalue)
  OBVIOUS
<1>5. k \in Nat
  BY <1>3, <1>4, UpvalueAtIs, FieldsAre
<1>6. Link(m, n, local, at) = [upvalue |-> upvalue, at |-> k]
  BY <1>4 DEF Link, upvalue
<1>. QED BY <1>2, <1>5, <1>6 DEF LinkType

\* The chain from the owner to the innermost compiler, upvalue by upvalue.
LEMMA ChainIs ==
  ASSUME IInv, NEW name, Owner(name) # 0
  PROVE  \A n, local, chain :
           /\ n = Owner(name) /\ local = ResolveLocal(compilers[n], name)
           /\ chain = UpvalueChain(name)
           => /\ chain \in [(n + 1)..Len(compilers) -> LinkType]
              /\ \A m \in (n + 1)..Len(compilers) : chain[m] = Link(m, n, local, chain[m - 1].at)
<1>. TAKE n, local, chain
<1>1. HAVE /\ n = Owner(name) /\ local = ResolveLocal(compilers[n], name)
           /\ chain = UpvalueChain(name)
<1>2. PICK last \in Nat : last = Len(compilers)
  BY CurrentIs
<1>3. n \in Nat /\ n >= 1 /\ n < last
  <2>1. n \in 0..(last - 1) /\ n # 0
    BY <1>1, <1>2, OwnerIs
  <2>. QED BY <2>1
<1>4. local \in Int
  <2>1. compilers[n] \in CompilerType
    BY <1>2, <1>3, CompilersAre DEF IInv
  <2>. QED BY <1>1, <2>1, ResolveIs, FieldsAre
<1>5. PICK a \in Nat : a = n + 1
  BY <1>3
<1>. DEFINE first == Link(a, n, local, 0)
            next == [m \in a..last |-> [l \in LinkType |-> Link(m, n, local, l.at)]]
<1>6. \A m \in a..last : \A l \in LinkType : Link(m, n, local, l.at) \in LinkType
  <2>1. \A l \in LinkType : l.at \in Int
    BY DEF LinkType
  <2>. QED BY <1>2, <1>3, <1>4, <1>5, <2>1, LinkIs
<1>7. next \in [a..last -> [LinkType -> LinkType]]
  BY <1>6
<1>8. first \in LinkType
  BY <1>2, <1>3, <1>4, <1>5, LinkIs
<1>9. PICK f \in [a..last -> LinkType] :
        \A m \in a..last : f[m] = IF m = a THEN first ELSE next[m][f[m - 1]]
  <2>. HIDE DEF first, next
  <2>1. Steps(a, last, LinkType, first, next)
    BY <1>7, <1>8 DEF Steps
  <2>2. \E f : IsRecursion(f, a, last, LinkType, first, next)
    BY <2>1, RecursionExists
  <2>. QED BY <2>2 DEF IsRecursion
<1>10. \A at : Link(a, n, local, at) = first
  BY <1>5 DEF Link
<1>11. ASSUME NEW m \in a..last PROVE f[m] = Link(m, n, local, f[m - 1].at)
  <2>1. CASE m = a
    BY <1>9, <1>10, <2>1
  <2>2. CASE m # a
    <3>1. f[m - 1] \in LinkType
      BY <2>2
    <3>2. next[m][f[m - 1]] = Link(m, n, local, f[m - 1].at)
      BY <3>1
    <3>. QED BY <1>9, <2>2, <3>2
  <2>. QED BY <2>1, <2>2
<1>. HIDE DEF first, next
<1>12. f = [m \in a..last |-> Link(m, n, local, f[m - 1].at)]
  BY <1>11
<1>13. chain = CHOOSE g : g = [m \in a..last |-> Link(m, n, local, g[m - 1].at)]
  BY <1>1, <1>2, <1>5 DEF UpvalueChain, Link
<1>14. chain = [m \in a..last |-> Link(m, n, local, chain[m - 1].at)]
  BY <1>12, <1>13
<1>15. \A m \in a..last : chain[m] = f[m]
  <2>. DEFINE differ == {m \in a..last : chain[m] # f[m]}
  <2>1. SUFFICES ASSUME differ # {} PROVE FALSE
    OBVIOUS
  <2>2. differ \in SUBSET Nat
    OBVIOUS
  <2>3. PICK m \in differ : \A j \in differ : m <= j
    <3>. HIDE DEF differ
    <3>. QED BY <2>1, <2>2, LeastElement
  <2>4. m \in a..last /\ chain[m] # f[m]
    OBVIOUS
  <2>5. chain[m] = Link(m, n, local, chain[m - 1].at)
    BY <1>14, <2>4
  <2>6. f[m] = Link(m, n, local, f[m - 1].at)
    BY <1>11, <2>4
  <2>7. CASE m = a
    BY <1>10, <2>4, <2>5, <2>6, <2>7
  <2>8. CASE m # a
    <3>1. m - 1 \in a..last /\ ~(m <= m - 1)
      BY <2>4, <2>8
    <3>2. chain[m - 1] = f[m - 1]
      BY <2>3, <3>1
    <3>. QED BY <2>4, <2>5, <2>6, <3>2
  <2>. QED BY <2>7, <2>8
<1>16. chain \in [a..last -> LinkType]
  <2>1. chain = f
    BY <1>12, <1>14, <1>15
  <2>. QED BY <2>1
<1>17. \A m \in a..last : chain[m] = Link(m, n, local, chain[m - 1].at)
  BY <1>14
<1>. QED BY <1>2, <1>5, <1>16, <1>17

\* d has the locals of c, of which more may be captured, and maybe other upvalues.
Alike(d, c) ==
  /\ d \in CompilerType /\ d.type = c.type /\ d.depth = c.depth /\ d.height = c.height
  /\ d.stage = c.stage /\ Len(d.locals) = Len(c.locals)
  /\ \A i \in 1..Len(c.locals) :
       /\ d.locals[i].name = c.locals[i].name /\ d.locals[i].depth = c.locals[i].depth
       /\ c.locals[i].captured => d.locals[i].captured

AllAlike(new, cs) ==
  /\ new \in Seq(CompilerType) /\ Len(new) = Len(cs)
  /\ \A m \in 1..Len(cs) : Alike(new[m], cs[m])

LEMMA AlikeFits ==
  ASSUME NEW c \in CompilerType, NEW inner, Fits(c, inner), NEW d, Alike(d, c)
  PROVE  Fits(d, inner)
<1>1. Len(c.locals) \in Nat /\ Len(c.locals) >= 1
  BY FieldsAre DEF Fits, Ordered
<1>2. Ordered(d)
  BY <1>1 DEF Fits, Ordered, Alike
<1>3. Initialized(d)
  BY DEF Fits, Initialized, Alike
<1>4. Level(d, inner)
  BY Zenon DEF Fits, Level, Alike
<1>. QED BY <1>2, <1>3, <1>4 DEF Fits, Alike

LEMMA AlikeKeeps ==
  ASSUME NEW cs, Nested(cs), Within(cs), NEW new, AllAlike(new, cs)
  PROVE  Nested(new) /\ Within(new) /\ ActorsIn(new) = ActorsIn(cs)
<1>1. PICK last \in Nat : last = Len(cs)
  BY CompilersAre
<1>2. /\ new \in Seq(CompilerType) /\ Len(new) = last
      /\ \A m \in 1..last : Alike(new[m], cs[m])
  BY <1>1 DEF AllAlike
<1>3. /\ last >= 1 /\ last <= MaxNesting /\ DOMAIN cs = 1..last /\ DOMAIN new = 1..last
      /\ \A m \in 1..last :
           /\ cs[m] \in CompilerType /\ Fits(cs[m], Inner(cs, m))
           /\ m = 1 <=> cs[m].type = "script"
  BY <1>1, <1>2, CompilersAre
<1>4. \A m \in 1..last : /\ new[m].type = cs[m].type /\ new[m].stage = cs[m].stage
                         /\ Len(new[m].locals) = Len(cs[m].locals)
  BY <1>2 DEF Alike
<1>5. ASSUME NEW m \in 1..last PROVE Fits(new[m], Inner(new, m))
  <2>1. Inner(new, m) = Inner(cs, m)
    <3>1. CASE m < last
      <4>1. m + 1 \in 1..last
        BY <3>1
      <4>. QED BY <1>1, <1>2, <1>4, <3>1, <4>1 DEF Inner
    <3>2. CASE ~(m < last)
      BY <1>1, <1>2, <3>2 DEF Inner
    <3>. QED BY <3>1, <3>2
  <2>. QED BY <1>2, <1>3, <2>1, AlikeFits
<1>6. Nested(new)
  <2>1. \A m \in 1..last : m = 1 <=> new[m].type = "script"
    BY <1>3, <1>4
  <2>2. last \in 1..MaxNesting
    BY <1>3, BoundAssumption
  <2>. QED BY <1>2, <1>5, <2>1, <2>2 DEF Nested
<1>7. Within(new)
  <2>1. Slots(new) \subseteq Slots(cs)
    <3>1. SUFFICES ASSUME NEW p \in Slots(new) PROVE p \in Slots(cs)
      OBVIOUS
    <3>2. PICK m \in DOMAIN new : \E i \in 2..Len(new[m].locals) : p = <<m, i>>
      BY SlotsArePairs
    <3>3. PICK i \in 2..Len(new[m].locals) : p = <<m, i>>
      BY <3>2
    <3>4. m \in DOMAIN cs /\ i \in 2..Len(cs[m].locals)
      BY <1>3, <1>4
    <3>. QED BY <3>3, <3>4, SlotIs
  <2>. QED BY <2>1, StaysWithin
<1>8. ActorsIn(new) = ActorsIn(cs)
  <2>1. ActorsIn(new) = {m \in 1..last : new[m].stage = "actor"}
    BY <1>2 DEF ActorsIn
  <2>2. ActorsIn(cs) = {m \in 1..last : cs[m].stage = "actor"}
    BY <1>1 DEF ActorsIn
  <2>. QED BY <1>4, <2>1, <2>2
<1>. QED BY <1>6, <1>7, <1>8

\* In new, the variable local of the compiler n of cs has been captured along the chain.
Captured(new, cs, n, local, chain) ==
  /\ AllAlike(new, cs)
  /\ \A m \in 1..Len(cs) :
       new[m].upvalues =
         IF m <= n \/ chain[m].at <= Len(cs[m].upvalues) THEN cs[m].upvalues
         ELSE Append(cs[m].upvalues, chain[m].upvalue)
  /\ new[n].locals[local].captured

LEMMA CapturedLocal ==
  ASSUME NEW c \in CompilerType, NEW local \in 1..Len(c.locals)
  PROVE  \A d : d = [c EXCEPT !.locals[local].captured = TRUE] =>
           Alike(d, c) /\ d.upvalues = c.upvalues /\ d.locals[local].captured
<1>. DEFINE l == [c.locals[local] EXCEPT !.captured = TRUE]
            ls == [c.locals EXCEPT ![local] = l]
            d == [c EXCEPT !.locals = ls]
<1>1. c.locals \in Seq(LocalType) /\ c.locals[local] \in LocalType
  BY FieldsAre
<1>2. /\ l.name = c.locals[local].name /\ l.depth = c.locals[local].depth /\ l \in LocalType
      /\ l.captured
  <2>1. \A k \in LocalType : /\ [k EXCEPT !.captured = TRUE] \in LocalType
                             /\ [k EXCEPT !.captured = TRUE].captured
    BY Zenon DEF LocalType
  <2>2. \A k \in LocalType : /\ [k EXCEPT !.captured = TRUE].name = k.name
                             /\ [k EXCEPT !.captured = TRUE].depth = k.depth
    BY Zenon DEF LocalType
  <2>. QED BY <1>1, <2>1, <2>2
<1>. HIDE DEF l
<1>3. /\ ls \in Seq(LocalType) /\ Len(ls) = Len(c.locals) /\ ls[local] = l
      /\ \A i \in 1..Len(c.locals) : i # local => ls[i] = c.locals[i]
  BY <1>1, <1>2
<1>. HIDE DEF ls
<1>4. /\ d \in CompilerType /\ d.locals = ls /\ d.type = c.type /\ d.depth = c.depth
      /\ d.upvalues = c.upvalues /\ d.height = c.height /\ d.stage = c.stage
  BY <1>3 DEF CompilerType
<1>5. d = [c EXCEPT !.locals[local].captured = TRUE]
  BY DEF ls, l
<1>. HIDE DEF d
<1>6. \A i \in 1..Len(c.locals) :
        /\ d.locals[i].name = c.locals[i].name /\ d.locals[i].depth = c.locals[i].depth
        /\ c.locals[i].captured => d.locals[i].captured
  <2>1. \A i \in 1..Len(c.locals) : i = local \/ d.locals[i] = c.locals[i]
    BY <1>3, <1>4
  <2>2. d.locals[local] = l
    BY <1>3, <1>4
  <2>. QED BY <1>2, <2>1, <2>2, Zenon
<1>7. Alike(d, c) /\ d.locals[local].captured
  BY <1>2, <1>3, <1>4, <1>6, Zenon DEF Alike
<1>. QED BY <1>4, <1>5, <1>7, Zenon

LEMMA CapturedUpvalue ==
  ASSUME NEW c \in CompilerType, NEW u \in UpvalueType
  PROVE  \A d : d = [c EXCEPT !.upvalues = Append(@, u)] =>
           Alike(d, c) /\ d.upvalues = Append(c.upvalues, u)
<1>1. TAKE d
<1>2. HAVE d = [c EXCEPT !.upvalues = Append(@, u)]
<1>3. PICK us \in Seq(UpvalueType) : us = Append(c.upvalues, u)
  <2>1. c.upvalues \in Seq(UpvalueType)
    BY FieldsAre
  <2>2. Append(c.upvalues, u) \in Seq(UpvalueType)
    BY <2>1
  <2>. QED BY <2>2, Zenon
<1>4. d = [c EXCEPT !.upvalues = us]
  BY <1>2, <1>3
<1>5. /\ d \in CompilerType /\ d.locals = c.locals /\ d.type = c.type /\ d.depth = c.depth
      /\ d.upvalues = us /\ d.height = c.height /\ d.stage = c.stage
  BY <1>4 DEF CompilerType
<1>. QED BY <1>3, <1>5 DEF Alike

LEMMA AlikeItself ==
  ASSUME NEW c \in CompilerType
  PROVE  Alike(c, c)
BY DEF Alike

LEMMA CaptureIs ==
  ASSUME IInv, NEW name, Owner(name) # 0
  PROVE  \A n, local, chain, new :
           /\ n = Owner(name) /\ local = ResolveLocal(compilers[n], name)
           /\ chain = UpvalueChain(name) /\ new = Capture(name)
           => Captured(new, compilers, n, local, chain)
<1>. TAKE n, local, chain, new
<1>1. HAVE /\ n = Owner(name) /\ local = ResolveLocal(compilers[n], name)
           /\ chain = UpvalueChain(name) /\ new = Capture(name)
<1>2. PICK last \in Nat : last = Len(compilers) /\ last >= 1
  BY CurrentIs
<1>3. n \in Nat /\ n >= 1 /\ n < last
  <2>1. n \in 0..(last - 1) /\ n # 0
    BY <1>1, <1>2, OwnerIs
  <2>. QED BY <2>1
<1>4. DOMAIN compilers = 1..last /\ \A m \in 1..last : compilers[m] \in CompilerType
  BY <1>2, CompilersAre DEF IInv
<1>5. local \in 1..Len(compilers[n].locals)
  <2>1. compilers[n] \in CompilerType
    BY <1>3, <1>4
  <2>2. local \in 0..Len(compilers[n].locals) /\ Len(compilers[n].locals) \in Nat
    BY <1>1, <2>1, ResolveIs, FieldsAre
  <2>3. local # 0
    BY <1>1, OwnerIs
  <2>. QED BY <2>2, <2>3
<1>6. \A m \in (n + 1)..last : chain[m].upvalue \in UpvalueType
  <2>1. chain \in [(n + 1)..last -> LinkType]
    BY <1>1, <1>2, ChainIs
  <2>. QED BY <2>1 DEF LinkType
<1>7. new = [m \in 1..last |->
               IF m < n THEN compilers[m]
               ELSE IF m = n THEN [compilers[m] EXCEPT !.locals[local].captured = TRUE]
               ELSE IF chain[m].at <= Len(compilers[m].upvalues) THEN compilers[m]
               ELSE [compilers[m] EXCEPT !.upvalues = Append(@, chain[m].upvalue)]]
  BY <1>1, <1>4, Zenon DEF Capture
<1>8. ASSUME NEW m \in 1..last
      PROVE  /\ Alike(new[m], compilers[m])
             /\ new[m].upvalues =
                  IF m <= n \/ chain[m].at <= Len(compilers[m].upvalues)
                    THEN compilers[m].upvalues
                  ELSE Append(compilers[m].upvalues, chain[m].upvalue)
             /\ m = n => new[m].locals[local].captured
  <2>1. compilers[m] \in CompilerType
    BY <1>4
  <2>2. CASE m < n
    <3>1. new[m] = compilers[m] /\ m <= n /\ m # n
      BY <1>3, <1>7, <2>2
    <3>. QED BY <2>1, <3>1, AlikeItself
  <2>3. CASE m = n
    <3>1. new[m] = [compilers[m] EXCEPT !.locals[local].captured = TRUE]
      BY <1>3, <1>7, <2>3
    <3>2. /\ Alike(new[m], compilers[m]) /\ new[m].upvalues = compilers[m].upvalues
          /\ new[m].locals[local].captured
      BY <1>5, <2>1, <2>3, <3>1, CapturedLocal
    <3>3. m <= n
      BY <1>3, <2>3
    <3>. QED BY <3>2, <3>3, Zenon
  <2>4. CASE m > n /\ chain[m].at <= Len(compilers[m].upvalues)
    <3>1. new[m] = compilers[m] /\ m # n
      BY <1>3, <1>7, <2>4
    <3>. QED BY <2>1, <2>4, <3>1, AlikeItself
  <2>5. CASE m > n /\ ~(chain[m].at <= Len(compilers[m].upvalues))
    <3>1. /\ new[m] = [compilers[m] EXCEPT !.upvalues = Append(@, chain[m].upvalue)]
          /\ m # n /\ ~(m <= n)
      BY <1>3, <1>7, <2>5
    <3>2. chain[m].upvalue \in UpvalueType
      BY <1>3, <1>6, <2>5
    <3>3. /\ Alike(new[m], compilers[m])
          /\ new[m].upvalues = Append(compilers[m].upvalues, chain[m].upvalue)
      BY <2>1, <3>1, <3>2, CapturedUpvalue
    <3>. QED BY <2>5, <3>1, <3>3
  <2>. QED BY <1>3, <2>2, <2>3, <2>4, <2>5
<1>9. new \in Seq(CompilerType) /\ Len(new) = last
  <2>1. \A m \in 1..last : new[m] \in CompilerType
    BY <1>8 DEF Alike
  <2>2. new = [m \in 1..last |-> new[m]]
    BY <1>7
  <2>. QED BY <2>1, <2>2
<1>10. AllAlike(new, compilers)
  BY <1>2, <1>8, <1>9 DEF AllAlike
<1>11. new[n].locals[local].captured
  BY <1>3, <1>8
<1>. QED BY <1>2, <1>8, <1>10, <1>11 DEF Captured

-----------------------------------------------------------------------------
(***************************************************************************)
(* The positions of locals.                                                *)
(***************************************************************************)

LEMMA NamedVariableStep ==
  ASSUME IInv, NEW name \in Name \union {This}, NEW set \in BOOLEAN, NamedVariable(name, set)
  PROVE  IInv'
<1>. DEFINE local == ResolveLocal(Current, name)
            chain == UpvalueChain(name)
<1>1. name \in Name \union {This, NoName} /\ error \in BOOLEAN
  BY DEF IInv
<1>2. CASE Error
  BY <1>2, ErrorStep
<1>3. ASSUME Emit("local", Index(local), name, set), UNCHANGED <<compilers, actors, error>>
      PROVE  IInv'
  <2>1. local \in Int
    BY CurrentIs, ResolveIs, FieldsAre
  <2>2. Index(local) \in 0..(IndexRange - 1)
    BY <2>1, IndexIs
  <2>3. emitted' \in AccessType
    BY <1>1, <1>3, <2>2, EmitIs
  <2>. QED BY <1>3, <2>3 DEF IInv
<1>4. ASSUME Emit("global", 0, name, set), UNCHANGED <<compilers, actors, error>>
      PROVE  IInv'
  <2>1. 0 \in 0..(IndexRange - 1)
    BY BoundAssumption
  <2>2. emitted' \in AccessType
    BY <1>1, <1>4, <2>1, EmitIs
  <2>. QED BY <1>4, <2>2 DEF IInv
<1>5. ASSUME Owner(name) > 0, compilers' = Capture(name),
             Emit("upvalue", Index(chain[Len(compilers)].at), name, set),
             UNCHANGED <<actors, error>>
      PROVE  IInv'
  <2>1. PICK last \in Nat : last = Len(compilers) /\ last >= 1
    BY CurrentIs
  <2>2. PICK n \in Nat : n = Owner(name) /\ n # 0 /\ n < last
    BY <1>5, <2>1, OwnerIs
  <2>3. chain \in [(n + 1)..last -> LinkType]
    BY <2>1, <2>2, ChainIs
  <2>4. chain[last].at \in Int
    <3>1. last \in (n + 1)..last
      BY <2>2
    <3>. QED BY <2>3, <3>1 DEF LinkType
  <2>5. Index(chain[last].at) \in 0..(IndexRange - 1)
    BY <2>4, IndexIs
  <2>6. emitted' \in AccessType
    BY <1>1, <1>5, <2>1, <2>5, EmitIs
  <2>7. AllAlike(compilers', compilers)
    <3>1. Captured(compilers', compilers, n, ResolveLocal(compilers[n], name), chain)
      BY <1>5, <2>2, CaptureIs
    <3>. QED BY <3>1 DEF Captured
  <2>8. /\ Nested(compilers') /\ Within(compilers')
        /\ ActorsIn(compilers') = ActorsIn(compilers)
    BY <2>7, AlikeKeeps DEF IInv
  <2>. QED BY <1>5, <2>6, <2>8 DEF IInv
<1>. QED BY <1>2, <1>3, <1>4, <1>5 DEF NamedVariable

LEMMA UseStep ==
  ASSUME IInv, NEW name \in Name, NEW set \in BOOLEAN, Use(name, set)
  PROVE  IInv'
BY NamedVariableStep DEF Use

LEMMA UseThisStep ==
  ASSUME IInv, UseThis
  PROVE  IInv'
<1>1. CASE Error
  BY <1>1, ErrorStep
<1>2. CASE NamedVariable(This, FALSE)
  <2>1. This \in Name \union {This} /\ FALSE \in BOOLEAN
    OBVIOUS
  <2>. QED BY <1>2, <2>1, NamedVariableStep
<1>. QED BY <1>1, <1>2 DEF UseThis

LEMMA InitIInv ==
  ASSUME Init
  PROVE  IInv
<1>1. PICK c \in CompilerType : c = NewCompiler("script")
  BY NewCompilerIs
<1>2. /\ Fits(c, "none") /\ c.type = "script" /\ Len(c.locals) = 1 /\ c.stage # "actor"
  BY <1>1, NewCompilerIs
<1>3. compilers = <<c>>
  BY <1>1 DEF Init
<1>4. /\ compilers \in Seq(CompilerType) /\ Len(compilers) = 1 /\ DOMAIN compilers = 1..1
      /\ compilers[1] = c
  BY <1>3
<1>5. \A n \in 1..1 : n = 1
  OBVIOUS
<1>6. Nested(compilers)
  <2>1. Len(compilers) \in 1..MaxNesting
    BY <1>4, BoundAssumption
  <2>2. Inner(compilers, 1) = "none"
    BY <1>4 DEF Inner
  <2>. QED BY <1>2, <1>4, <1>5, <2>1, <2>2 DEF Nested
<1>7. Within(compilers)
  <2>1. Slots(compilers) = {}
    <3>1. ASSUME NEW p \in Slots(compilers) PROVE FALSE
      <4>1. PICK n \in DOMAIN compilers : \E i \in 2..Len(compilers[n].locals) : p = <<n, i>>
        BY SlotsArePairs
      <4>2. Len(compilers[n].locals) = 1
        BY <1>2, <1>4, <1>5
      <4>. QED BY <4>1, <4>2
    <3>. QED BY <3>1
  <2>2. IsFiniteSet({}) /\ Cardinality({}) = 0
    BY FS_EmptySet
  <2>. QED BY <2>1, <2>2, BoundAssumption DEF Within
<1>8. ActorsIn(compilers) = {}
  BY <1>2, <1>4, <1>5 DEF ActorsIn
<1>9. actors = 0 /\ error = FALSE /\ emitted = NoAccess
  BY DEF Init
<1>10. actors = Cardinality(ActorsIn(compilers))
  BY <1>8, <1>9, FS_EmptySet
<1>. QED BY <1>6, <1>7, <1>9, <1>10, NoAccessIs DEF IInv

LEMMA NextIInv ==
  ASSUME IInv, [Next]_vars
  PROVE  IInv'
<1>1. CASE UNCHANGED vars
  BY <1>1 DEF vars, IInv
<1>2. CASE EndVar
  BY <1>2, EndVarStep
<1>3. CASE BeginScope
  BY <1>3, BeginScopeStep
<1>4. CASE EndScope
  BY <1>4, EndScopeStep
<1>5. CASE BeginMessage
  BY <1>5, BeginMessageStep
<1>6. CASE BeginBody
  BY <1>6, BeginBodyStep
<1>7. CASE EndFunction
  BY <1>7, EndFunctionStep
<1>8. CASE UseThis
  BY <1>8, UseThisStep
<1>9. CASE EndActor
  BY <1>9, EndActorStep
<1>10. ASSUME NEW name \in Name, BeginFunction(name)
       PROVE  IInv'
  BY <1>10, BeginFunctionStep
<1>11. ASSUME NEW name \in Name, Parameter(name)
       PROVE  IInv'
  BY <1>11, ParameterStep
<1>12. ASSUME NEW name \in Name, BeginActor(name)
       PROVE  IInv'
  BY <1>12, BeginActorStep
<1>13. ASSUME NEW name \in Name, NEW flag \in BOOLEAN, BeginVar(name, flag)
       PROVE  IInv'
  BY <1>13, BeginVarStep
<1>14. ASSUME NEW name \in Name, NEW flag \in BOOLEAN, Use(name, flag)
       PROVE  IInv'
  BY <1>14, UseStep
<1>. QED
  BY <1>1, <1>2, <1>3, <1>4, <1>5, <1>6, <1>7, <1>8, <1>9, <1>10, <1>11, <1>12, <1>13, <1>14
  DEF Next

\* The invariant holds throughout.
THEOREM InductiveInvariant == Spec => []IInv
<1>1. Init => IInv
  BY InitIInv
<1>2. IInv /\ [Next]_vars => IInv'
  BY NextIInv
<1>. QED BY <1>1, <1>2, PTL DEF Spec

LEMMA IInvTypeOK ==
  ASSUME IInv
  PROVE  TypeOK
<1>1. PICK last \in Nat : last = Len(compilers)
  BY CurrentIs
<1>2. /\ DOMAIN compilers = 1..last /\ last >= 1 /\ last <= MaxNesting
      /\ \A n \in 1..last :
           compilers[n] \in CompilerType /\ Fits(compilers[n], Inner(compilers, n))
  BY <1>1, CompilersAre DEF IInv
<1>3. ASSUME NEW n \in 1..last
      PROVE  /\ compilers[n].type \in {"script", "function", "message"}
             /\ compilers[n].depth \in 0..(MaxBlocks + 1)
             /\ Range(compilers[n].locals) \subseteq LocalType
             /\ Len(compilers[n].locals) \in 1..(MaxLocals + 1)
             /\ Range(compilers[n].upvalues) \subseteq UpvalueType
             /\ compilers[n].height \in Nat
             /\ compilers[n].stage \in {"statement", "initializer", "parameters", "actor"}
  <2>1. PICK c \in CompilerType : c = compilers[n] /\ Fits(c, Inner(compilers, n))
    BY <1>2
  <2>2. Range(c.locals) \subseteq LocalType /\ Range(c.upvalues) \subseteq UpvalueType
    BY <2>1, FieldsAre DEF Range
  <2>3. Len(c.locals) \in 1..(MaxLocals + 1)
    BY <1>1, <2>1, LocalsBound DEF IInv
  <2>4. c.height \in Nat
    <3>. DEFINE len == Len(c.locals)
                actor == IF c.stage = "actor" THEN 1 ELSE 0
                pending == IF (Inner(compilers, n) = "function" \/ c.stage = "initializer")
                              /\ c.depth > 0 THEN 1 ELSE 0
    <3>1. c.height = len + actor - pending
      BY <2>1, Zenon DEF Fits, Level
    <3>2. actor \in 0..1 /\ pending \in 0..1
      OBVIOUS
    <3>3. len \in Nat /\ len >= 1
      BY <2>1, FieldsAre DEF Fits, Ordered
    <3>. HIDE DEF len, actor, pending
    <3>. QED BY <3>1, <3>2, <3>3
  <2>. QED BY <2>1, <2>2, <2>3, <2>4, FieldsAre
<1>4. actors \in Nat
  BY ActorsFinite DEF IInv
<1>5. /\ emitted.op \in {"none", "local", "upvalue", "global"}
      /\ emitted.arg \in 0..(IndexRange - 1)
  BY DEF IInv, AccessType
<1>6. Len(compilers) \in 1..MaxNesting
  BY <1>1, <1>2, BoundAssumption
<1>. QED BY <1>2, <1>3, <1>4, <1>5, <1>6 DEF TypeOK, IInv

\* Every variable has its type: in particular, the window of a call never holds less
\* than nothing, however declarations, blocks and functions are put together.
THEOREM TypeCorrect == Spec => []TypeOK
<1>1. IInv => TypeOK
  BY IInvTypeOK
<1>. QED BY <1>1, InductiveInvariant, PTL

\* The position of each local is that of its value in the window of the call.
THEOREM LocalsAreInPlace == Spec => []LocalsMatchStack
<1>1. ASSUME IInv PROVE LocalsMatchStack
  <2>1. SUFFICES ASSUME NEW n \in 1..Len(compilers)
                 PROVE  compilers[n].height =
                          Len(compilers[n].locals)
                          + (IF compilers[n].stage = "actor" THEN 1 ELSE 0)
                          - (IF \/ /\ n < Len(compilers)
                                   /\ compilers[n + 1].type = "function"
                                   /\ compilers[n].depth > 0
                                \/ compilers[n].stage = "initializer" /\ compilers[n].depth > 0
                               THEN 1 ELSE 0)
    BY <1>1, CompilersAre, Zenon DEF IInv, LocalsMatchStack
  <2>2. Level(compilers[n], Inner(compilers, n))
    BY <1>1, CompilersAre DEF IInv, Fits
  <2>3. (Inner(compilers, n) = "function" \/ compilers[n].stage = "initializer")
          /\ compilers[n].depth > 0
        <=> \/ /\ n < Len(compilers)
               /\ compilers[n + 1].type = "function"
               /\ compilers[n].depth > 0
            \/ compilers[n].stage = "initializer" /\ compilers[n].depth > 0
    BY DEF Inner
  <2>. QED BY <2>2, <2>3, Zenon DEF Level
<1>. QED BY <1>1, InductiveInvariant, PTL

-----------------------------------------------------------------------------
(***************************************************************************)
(* The variables of upvalues.                                              *)
(***************************************************************************)

LEMMA ResolvedAre ==
  ASSUME NEW V, NEW cs, Resolved(V, cs), NEW n \in 1..Len(cs)
  PROVE  /\ V[n] \in Seq(Nat \X Nat) /\ Len(V[n]) \in Nat /\ Len(V[n]) = Len(cs[n].upvalues)
         /\ Stands(V[n], V[n - 1], cs[n].upvalues, n) /\ InReach(V[n], cs, n)
BY DEF Resolved, Stands

\* There are no more upvalues than locals in the compilers around.
LEMMA UpvaluesBound ==
  ASSUME NEW cs, Nested(cs), Within(cs), NEW V, Resolved(V, cs), NEW n \in 1..Len(cs)
  PROVE  Len(V[n]) <= MaxLocals + (n - 1)
<1>. DEFINE firsts == (1..(n - 1)) \X {1}
            all == Slots(cs) \union firsts
            v == V[n]
<1>1. PICK len \in Nat : len = Len(v)
  BY ResolvedAre
<1>2. /\ v \in Seq(Nat \X Nat) /\ InReach(v, cs, n)
      /\ \A k, j \in 1..len : v[k] = v[j] => k = j
  BY <1>1, ResolvedAre DEF Stands
<1>3. n \in Nat /\ n >= 1 /\ DOMAIN cs = 1..Len(cs) /\ Len(cs) \in Nat /\ MaxLocals \in Nat
  BY CompilersAre, BoundAssumption
<1>4. ASSUME NEW k \in 1..len PROVE v[k] \in all
  <2>1. PICK o \in Nat, i \in Nat : v[k] = <<o, i>>
    <3>1. v[k] \in Nat \X Nat
      BY <1>1, <1>2
    <3>. QED BY <3>1
  <2>2. o \in 1..(n - 1) /\ i \in 1..Len(cs[o].locals)
    BY <1>1, <1>2, <2>1 DEF InReach
  <2>3. CASE i = 1
    BY <2>1, <2>2, <2>3
  <2>4. CASE i # 1
    <3>1. o \in DOMAIN cs
      BY <1>3, <2>2
    <3>2. i \in 2..Len(cs[o].locals)
      BY <2>2, <2>4
    <3>. QED BY <2>1, <3>1, <3>2, SlotIs
  <2>. QED BY <2>3, <2>4
<1>5. IsFiniteSet(firsts) /\ Cardinality(firsts) = n - 1
  <2>1. 1 \in Int /\ n - 1 \in Int
    BY <1>3
  <2>2. /\ IsFiniteSet(1..(n - 1))
        /\ Cardinality(1..(n - 1)) = IF 1 > n - 1 THEN 0 ELSE n - 1 - 1 + 1
    BY <2>1, FS_Interval, Zenon
  <2>3. Cardinality(1..(n - 1)) = n - 1
    BY <1>3, <2>2
  <2>4. IsFiniteSet({1}) /\ Cardinality({1}) = 1
    BY FS_Singleton
  <2>5. /\ IsFiniteSet(firsts)
        /\ Cardinality(firsts) = Cardinality(1..(n - 1)) * Cardinality({1})
    BY <2>2, <2>4, FS_Product
  <2>. QED BY <1>3, <2>3, <2>4, <2>5
<1>. HIDE DEF firsts
<1>6. /\ IsFiniteSet(Slots(cs)) /\ Cardinality(Slots(cs)) \in Nat
      /\ Cardinality(Slots(cs)) <= MaxLocals
  BY FS_CardinalityType DEF Within
<1>7. IsFiniteSet(all) /\ Cardinality(all) \in Nat /\ Cardinality(all) <= MaxLocals + (n - 1)
  <2>1. /\ IsFiniteSet(all)
        /\ Cardinality(all) =
             Cardinality(Slots(cs)) + Cardinality(firsts) - Cardinality(Slots(cs) \cap firsts)
    BY <1>5, <1>6, FS_Union
  <2>2. IsFiniteSet(Slots(cs) \cap firsts)
    BY <1>6, FS_Intersection
  <2>3. Cardinality(Slots(cs) \cap firsts) \in Nat /\ Cardinality(all) \in Nat
    BY <2>1, <2>2, FS_CardinalityType
  <2>. QED BY <1>3, <1>5, <1>6, <2>1, <2>3
<1>. HIDE DEF all
<1>8. PICK at : at = [k \in 1..len |-> v[k]]
  OBVIOUS
<1>9. at \in [1..len -> all] /\ \A k, j \in 1..len : at[k] = at[j] => k = j
  BY <1>2, <1>4, <1>8
<1>10. at \in Injection(1..len, all)
  BY <1>9, Fun_IsInj
<1>11. Cardinality(1..len) <= Cardinality(all)
  BY <1>7, <1>10, FS_Injection
<1>12. Cardinality(1..len) = len
  <2>1. 1 \in Int /\ len \in Int
    OBVIOUS
  <2>2. Cardinality(1..len) = IF 1 > len THEN 0 ELSE len - 1 + 1
    BY <2>1, FS_Interval, Zenon
  <2>. QED BY <2>2
<1>. HIDE DEF v
<1>13. len <= MaxLocals + (n - 1)
  BY <1>3, <1>7, <1>11, <1>12
<1>. QED BY <1>1, <1>13 DEF v

\* Positions of upvalues, and one more, are numbers of IndexRange.
LEMMA PositionsFit ==
  ASSUME NoTruncation, NEW cs, Nested(cs), Within(cs), NEW V, Resolved(V, cs),
         NEW n \in 1..Len(cs)
  PROVE  /\ \A at \in 1..(Len(V[n]) + 1) : Index(at) = at - 1
         /\ \A i \in 1..Len(cs[n].locals) : Index(i) = i - 1
<1>1. PICK len \in Nat : len = Len(V[n]) /\ len <= MaxLocals + (n - 1)
  BY UpvaluesBound, ResolvedAre
<1>2. PICK size \in Nat : size = Len(cs[n].locals) /\ size <= MaxLocals + 1
  BY LocalsBound, BoundAssumption
<1>3. /\ n \in Nat /\ n >= 1 /\ n <= MaxNesting /\ MaxLocals \in Nat /\ MaxNesting \in Nat
      /\ IndexRange \in Nat /\ MaxLocals + MaxNesting <= IndexRange
  BY CompilersAre, BoundAssumption DEF NoTruncation
<1>4. ASSUME NEW at \in 1..(len + 1) PROVE Index(at) = at - 1
  <2>1. at \in Int /\ at \in 1..IndexRange
    BY <1>1, <1>3
  <2>. QED BY <2>1, IndexIs
<1>5. ASSUME NEW i \in 1..size PROVE Index(i) = i - 1
  <2>1. i \in Int /\ i \in 1..IndexRange
    BY <1>2, <1>3
  <2>. QED BY <2>1, IndexIs
<1>. QED BY <1>1, <1>2, <1>4, <1>5

\* Declarations and blocks leave upvalues to their variables.
LEMMA ResolvedKept ==
  ASSUME NEW cs, Nested(cs), NEW V, Resolved(V, cs), NEW new, Resumes(new, cs)
  PROVE  \E W : Resolved(W, new)
<1>1. PICK last \in Nat : last = Len(cs)
  BY CompilersAre
<1>2. PICK size \in Nat : size = Len(new)
  BY DEF Resumes
<1>3. /\ size <= last + 1
      /\ \A n \in 1..size :
           /\ n < last /\ n < size => new[n] = cs[n]
           /\ new[n].upvalues = IF n <= last THEN cs[n].upvalues ELSE <<>>
  BY <1>1, <1>2 DEF Resumes
<1>4. V \in Seq(Seq(Nat \X Nat)) /\ Len(V) = last
  BY <1>1 DEF Resolved
<1>. DEFINE W == [n \in 1..size |-> IF n <= last THEN V[n] ELSE <<>>]
<1>5. W \in Seq(Seq(Nat \X Nat)) /\ Len(W) = size
  <2>1. <<>> \in Seq(Nat \X Nat)
    OBVIOUS
  <2>2. \A n \in 1..size : n <= last => V[n] \in Seq(Nat \X Nat)
    BY <1>4
  <2>3. \A n \in 1..size : W[n] \in Seq(Nat \X Nat)
    BY <2>1, <2>2
  <2>. QED BY <2>3
<1>6. ASSUME NEW n \in 1..size
      PROVE  Stands(W[n], W[n - 1], new[n].upvalues, n) /\ InReach(W[n], new, n)
  <2>1. CASE n <= last
    <3>1. Stands(V[n], V[n - 1], cs[n].upvalues, n) /\ InReach(V[n], cs, n)
      BY <1>1, <2>1, ResolvedAre
    <3>2. W[n] = V[n] /\ new[n].upvalues = cs[n].upvalues /\ (n > 1 => W[n - 1] = V[n - 1])
      BY <1>3, <2>1
    <3>3. \A o \in 1..(n - 1) : new[o] = cs[o]
      BY <1>3, <2>1
    <3>. HIDE DEF W
    <3>4. Stands(W[n], W[n - 1], new[n].upvalues, n)
      BY <3>1, <3>2 DEF Stands
    <3>5. InReach(W[n], new, n)
      BY <3>1, <3>2, <3>3 DEF InReach
    <3>. QED BY <3>4, <3>5
  <2>2. CASE n > last
    <3>1. W[n] = <<>> /\ new[n].upvalues = <<>>
      BY <1>3, <2>2
    <3>. HIDE DEF W
    <3>. QED BY <3>1 DEF Stands, InReach
  <2>. QED BY <2>1, <2>2
<1>. HIDE DEF W
<1>7. Resolved(W, new)
  BY <1>2, <1>5, <1>6 DEF Resolved
<1>. QED BY <1>7

\* The chain of upvalues from a local of compiler n to the innermost compiler.
Chained(chain, n, local) ==
  /\ n \in 1..(Len(compilers) - 1) /\ local \in 1..Len(compilers[n].locals)
  /\ chain \in [(n + 1)..Len(compilers) -> LinkType]
  /\ \A m \in (n + 1)..Len(compilers) : chain[m] = Link(m, n, local, chain[m - 1].at)

LEMMA ChainedIs ==
  ASSUME IInv, NEW name, Owner(name) # 0
  PROVE  \A n, local, chain :
           /\ n = Owner(name) /\ local = ResolveLocal(compilers[n], name)
           /\ chain = UpvalueChain(name)
           => Chained(chain, n, local)
<1>. TAKE n, local, chain
<1>1. HAVE /\ n = Owner(name) /\ local = ResolveLocal(compilers[n], name)
           /\ chain = UpvalueChain(name)
<1>2. PICK last \in Nat : last = Len(compilers) /\ last >= 1
  BY CurrentIs
<1>3. n \in 1..(last - 1) /\ n \in 1..last
  <2>1. n \in 0..(last - 1) /\ n # 0
    BY <1>1, <1>2, OwnerIs
  <2>. QED BY <2>1
<1>4. local \in 1..Len(compilers[n].locals)
  <2>1. compilers[n] \in CompilerType
    BY <1>2, <1>3, CompilersAre DEF IInv
  <2>2. local \in 0..Len(compilers[n].locals) /\ Len(compilers[n].locals) \in Nat
    BY <1>1, <2>1, ResolveIs, FieldsAre
  <2>3. local # 0
    BY <1>1, OwnerIs
  <2>. QED BY <2>2, <2>3
<1>. QED BY <1>1, <1>2, <1>3, <1>4, ChainIs DEF Chained

LEMMA UpvalueFields ==
  ASSUME NEW u \in UpvalueType
  PROVE  /\ u.index \in Nat
         /\ u.isLocal => u = [index |-> u.index, isLocal |-> TRUE]
         /\ ~u.isLocal => u = [index |-> u.index, isLocal |-> FALSE]
<1>1. u.index \in 0..(IndexRange - 1)
  BY Zenon DEF UpvalueType
<1>2. u.index \in Nat
  BY <1>1, BoundAssumption
<1>3. u = [index |-> u.index, isLocal |-> u.isLocal] /\ u.isLocal \in BOOLEAN
  BY Zenon DEF UpvalueType
<1>. QED BY <1>2, <1>3, Zenon

\* One link, where indices are not cut.
Links(V, chain, n, local, m) ==
  /\ m \in 1..Len(compilers) /\ chain[m].at \in 1..(Len(V[m]) + 1)
  /\ m = n + 1 => chain[m].upvalue = [index |-> local - 1, isLocal |-> TRUE]
  /\ m # n + 1 =>
       /\ m - 1 \in (n + 1)..Len(compilers)
       /\ chain[m].upvalue = [index |-> chain[m - 1].at - 1, isLocal |-> FALSE]
  /\ chain[m].at <= Len(V[m]) => compilers[m].upvalues[chain[m].at] = chain[m].upvalue
  /\ chain[m].at > Len(V[m]) =>
       \A k \in 1..Len(V[m]) : compilers[m].upvalues[k] # chain[m].upvalue

LEMMA LinkFacts ==
  ASSUME NoTruncation, IInv, NEW V, Resolved(V, compilers), NEW chain, NEW n, NEW local,
         Chained(chain, n, local), NEW m \in (n + 1)..Len(compilers)
  PROVE  Links(V, chain, n, local, m)
<1>1. PICK last \in Nat : last = Len(compilers)
  BY CurrentIs
<1>2. /\ n \in 1..(last - 1) /\ local \in 1..Len(compilers[n].locals)
      /\ \A k \in (n + 1)..last : chain[k] = Link(k, n, local, chain[k - 1].at)
  BY <1>1 DEF Chained
<1>3. n \in Nat /\ n >= 1 /\ m \in 1..last /\ n \in 1..last
  BY <1>1, <1>2
<1>4. \A k \in 1..last : compilers[k] \in CompilerType /\ Len(V[k]) = Len(compilers[k].upvalues)
  BY <1>1, CompilersAre, ResolvedAre DEF IInv
<1>5. ASSUME NEW k \in (n + 1)..last
      PROVE  /\ chain[k].upvalue = IF k = n + 1 THEN [index |-> Index(local), isLocal |-> TRUE]
                                   ELSE [index |-> Index(chain[k - 1].at), isLocal |-> FALSE]
             /\ chain[k].at = UpvalueAt(compilers[k], chain[k].upvalue)
  <2>1. PICK u : u = IF k = n + 1 THEN [index |-> Index(local), isLocal |-> TRUE]
                     ELSE [index |-> Index(chain[k - 1].at), isLocal |-> FALSE]
    OBVIOUS
  <2>2. chain[k] = [upvalue |-> u, at |-> UpvalueAt(compilers[k], u)]
    BY <1>2, <2>1, Zenon DEF Link
  <2>3. chain[k].upvalue = u /\ chain[k].at = UpvalueAt(compilers[k], u)
    BY <2>2
  <2>. QED BY <2>1, <2>3, Zenon
<1>6. ASSUME NEW k \in (n + 1)..last
      PROVE  /\ chain[k].at \in 1..(Len(V[k]) + 1)
             /\ chain[k].at <= Len(V[k]) => compilers[k].upvalues[chain[k].at] = chain[k].upvalue
             /\ chain[k].at > Len(V[k]) =>
                  \A j \in 1..Len(V[k]) : compilers[k].upvalues[j] # chain[k].upvalue
  <2>1. k \in 1..last
    BY <1>3
  <2>2. PICK c \in CompilerType : c = compilers[k] /\ Len(V[k]) = Len(c.upvalues)
    BY <1>4, <2>1
  <2>3. PICK at, u : at = chain[k].at /\ u = chain[k].upvalue /\ at = UpvalueAt(c, u)
    BY <1>5, <2>2
  <2>4. /\ at \in 1..(Len(c.upvalues) + 1)
        /\ at <= Len(c.upvalues) => c.upvalues[at] = u
        /\ at > Len(c.upvalues) => \A j \in 1..Len(c.upvalues) : c.upvalues[j] # u
    BY <2>3, UpvalueAtIs
  <2>. QED BY <2>2, <2>3, <2>4
<1>7. m = n + 1 => chain[m].upvalue = [index |-> local - 1, isLocal |-> TRUE]
  <2>1. Index(local) = local - 1
    BY <1>1, <1>2, <1>3, PositionsFit DEF IInv
  <2>. QED BY <1>1, <1>5, <2>1
<1>8. ASSUME m # n + 1
      PROVE  /\ m - 1 \in (n + 1)..last
             /\ chain[m].upvalue = [index |-> chain[m - 1].at - 1, isLocal |-> FALSE]
  <2>1. m - 1 \in (n + 1)..last /\ m - 1 \in 1..last
    BY <1>1, <1>3, <1>8
  <2>2. chain[m - 1].at \in 1..(Len(V[m - 1]) + 1)
    BY <1>6, <2>1
  <2>3. Index(chain[m - 1].at) = chain[m - 1].at - 1
    BY <1>1, <2>1, <2>2, PositionsFit DEF IInv
  <2>. QED BY <1>1, <1>5, <1>8, <2>1, <2>3
<1>. QED BY <1>1, <1>3, <1>6, <1>7, <1>8 DEF Links

\* The upvalue of the chain in compiler m stands for x, or is new and none does.
Reaches(V, chain, m, x) ==
  /\ chain[m].at <= Len(V[m]) => V[m][chain[m].at] = x
  /\ chain[m].at > Len(V[m]) => \A k \in 1..Len(V[m]) : V[m][k] # x

LEMMA ChainReaches ==
  ASSUME NoTruncation, IInv, NEW V, Resolved(V, compilers), NEW chain, NEW n, NEW local,
         Chained(chain, n, local)
  PROVE  \A m \in (n + 1)..Len(compilers) : Reaches(V, chain, m, <<n, local>>)
<1>1. PICK last \in Nat : last = Len(compilers)
  BY CurrentIs
<1>2. PICK x : x = <<n, local>>
  OBVIOUS
<1>3. /\ n \in Nat /\ n >= 1 /\ n \in 1..last
      /\ local \in 1..Len(compilers[n].locals) /\ local \in Nat
  BY <1>1 DEF Chained
<1>. DEFINE fails == {m \in (n + 1)..last : ~Reaches(V, chain, m, x)}
<1>4. SUFFICES ASSUME fails # {} PROVE FALSE
  BY <1>1, <1>2
<1>5. PICK m \in fails : \A j \in fails : m <= j
  <2>1. fails \in SUBSET Nat
    BY <1>3
  <2>. HIDE DEF fails
  <2>. QED BY <1>4, <2>1, LeastElement
<1>6. m \in (n + 1)..last /\ ~Reaches(V, chain, m, x) /\ m \in Nat /\ m \in 1..last
  BY <1>3
<1>7. ASSUME m # n + 1 PROVE Reaches(V, chain, m - 1, x)
  <2>1. m - 1 \in (n + 1)..last /\ ~(m <= m - 1)
    BY <1>3, <1>6, <1>7
  <2>. QED BY <1>5, <2>1
<1>. HIDE DEF fails
<1>8. PICK u, at : u = chain[m].upvalue /\ at = chain[m].at
  OBVIOUS
<1>9. PICK len \in Nat : len = Len(V[m])
  BY <1>1, <1>6, ResolvedAre
<1>10. /\ at \in 1..(len + 1)
       /\ m = n + 1 => u = [index |-> local - 1, isLocal |-> TRUE]
       /\ m # n + 1 =>
            /\ m - 1 \in (n + 1)..last
            /\ u = [index |-> chain[m - 1].at - 1, isLocal |-> FALSE]
       /\ at <= len => compilers[m].upvalues[at] = u
       /\ at > len => \A k \in 1..len : compilers[m].upvalues[k] # u
  <2>1. m \in (n + 1)..Len(compilers)
    BY <1>1, <1>6
  <2>2. /\ chain[m].at \in 1..(Len(V[m]) + 1)
        /\ m = n + 1 => chain[m].upvalue = [index |-> local - 1, isLocal |-> TRUE]
        /\ m # n + 1 =>
             /\ m - 1 \in (n + 1)..Len(compilers)
             /\ chain[m].upvalue = [index |-> chain[m - 1].at - 1, isLocal |-> FALSE]
        /\ chain[m].at <= Len(V[m]) => compilers[m].upvalues[chain[m].at] = chain[m].upvalue
        /\ chain[m].at > Len(V[m]) =>
             \A k \in 1..Len(V[m]) : compilers[m].upvalues[k] # chain[m].upvalue
    BY <2>1, LinkFacts DEF Links
  <2>. QED BY <1>1, <1>8, <1>9, <2>2, Zenon
<1>11. \A k \in 1..len :
         /\ compilers[m].upvalues[k].isLocal =>
              V[m][k] = <<m - 1, compilers[m].upvalues[k].index + 1>>
         /\ ~compilers[m].upvalues[k].isLocal =>
              /\ m > 1 /\ compilers[m].upvalues[k].index + 1 \in 1..Len(V[m - 1])
              /\ V[m][k] = V[m - 1][compilers[m].upvalues[k].index + 1]
  <2>1. Stands(V[m], V[m - 1], compilers[m].upvalues, m)
    BY <1>1, <1>6, ResolvedAre
  <2>. QED BY <1>9, <2>1 DEF Stands
<1>12. \A k \in 1..len : compilers[m].upvalues[k] \in UpvalueType
  <2>1. compilers[m] \in CompilerType
    BY <1>1, <1>6, CompilersAre DEF IInv
  <2>2. compilers[m].upvalues \in Seq(UpvalueType) /\ len = Len(compilers[m].upvalues)
    BY <1>1, <1>6, <1>9, <2>1, FieldsAre, ResolvedAre
  <2>. QED BY <2>2
<1>13. ASSUME at <= len PROVE V[m][at] = x
  <2>1. at \in 1..len /\ compilers[m].upvalues[at] = u
    BY <1>10, <1>13
  <2>2. CASE m = n + 1
    <3>1. u.isLocal /\ u.index = local - 1
      BY <1>10, <2>2
    <3>2. V[m][at] = <<m - 1, (local - 1) + 1>>
      BY <1>11, <2>1, <3>1
    <3>3. m - 1 = n /\ (local - 1) + 1 = local
      BY <1>3, <2>2
    <3>. QED BY <1>2, <3>2, <3>3
  <2>3. CASE m # n + 1
    <3>1. PICK prev : prev = chain[m - 1].at
      OBVIOUS
    <3>2. ~u.isLocal /\ u.index = prev - 1 /\ prev \in Int
      <4>1. ~u.isLocal /\ u.index = prev - 1
        BY <1>10, <2>3, <3>1
      <4>2. m - 1 \in (n + 1)..Len(compilers)
        BY <1>1, <1>10, <2>3
      <4>3. prev \in Int
        BY <3>1, <4>2 DEF Chained, LinkType
      <4>. QED BY <4>1, <4>3
    <3>3. (prev - 1) + 1 = prev
      BY <3>2
    <3>4. V[m][at] = V[m - 1][prev] /\ prev \in 1..Len(V[m - 1])
      BY <1>11, <2>1, <3>2, <3>3
    <3>5. prev <= Len(V[m - 1])
      BY <3>4
    <3>. QED BY <1>7, <2>3, <3>1, <3>4, <3>5 DEF Reaches
  <2>. QED BY <2>2, <2>3
<1>14. ASSUME at > len, NEW k \in 1..len, V[m][k] = x PROVE FALSE
  <2>1. PICK w \in UpvalueType : w = compilers[m].upvalues[k]
    BY <1>12
  <2>2. /\ w # u /\ w.index \in Nat
        /\ w.isLocal => w = [index |-> w.index, isLocal |-> TRUE]
        /\ ~w.isLocal => w = [index |-> w.index, isLocal |-> FALSE]
    BY <1>10, <1>14, <2>1, UpvalueFields
  <2>3. CASE w.isLocal
    <3>1. <<n, local>> = <<m - 1, w.index + 1>>
      BY <1>2, <1>11, <1>14, <2>1, <2>3
    <3>2. n = m - 1 /\ local = w.index + 1
      BY <3>1
    <3>3. m = n + 1 /\ w.index = local - 1
      BY <1>3, <1>6, <2>2, <3>2
    <3>. QED BY <1>10, <2>2, <2>3, <3>3
  <2>4. CASE ~w.isLocal
    <3>1. PICK j \in Nat : j = w.index + 1
      BY <2>2
    <3>2. m > 1 /\ j \in 1..Len(V[m - 1]) /\ V[m - 1][j] = x
      BY <1>11, <1>14, <2>1, <2>4, <3>1
    <3>3. m - 1 \in 1..last
      BY <1>6, <3>2
    <3>4. CASE m = n + 1
      <4>1. m - 1 = n
        BY <1>3, <3>4
      <4>2. V[n][j][1] \in 1..(n - 1)
        BY <1>1, <1>3, <3>2, <4>1, ResolvedAre DEF InReach
      <4>3. V[n][j][1] = n
        BY <1>2, <3>2, <4>1
      <4>. QED BY <1>3, <4>2, <4>3
    <3>5. CASE m # n + 1
      <4>1. PICK prev : prev = chain[m - 1].at
        OBVIOUS
      <4>2. m - 1 \in (n + 1)..Len(compilers)
        BY <1>1, <1>10, <3>5
      <4>3. PICK size \in Nat : size = Len(V[m - 1])
        BY <1>1, <3>3, ResolvedAre
      <4>4. prev \in 1..(size + 1)
        BY <4>1, <4>2, <4>3, LinkFacts DEF Links
      <4>5. prev \in 1..size /\ V[m - 1][prev] = x
        BY <1>7, <3>2, <3>5, <4>1, <4>3, <4>4 DEF Reaches
      <4>6. prev = j
        BY <1>1, <3>2, <3>3, <4>3, <4>5, ResolvedAre DEF Stands
      <4>7. w.index = prev - 1
        BY <2>2, <3>1, <4>6
      <4>. QED BY <1>10, <2>2, <2>4, <3>5, <4>1, <4>7
    <3>. QED BY <3>4, <3>5
  <2>. QED BY <2>3, <2>4
<1>. QED BY <1>6, <1>8, <1>9, <1>13, <1>14 DEF Reaches

\* Where a variable has been captured, each upvalue of the chain stands for it.
LEMMA ResolvedCaptured ==
  ASSUME NoTruncation, IInv, NEW V, Resolved(V, compilers), NEW chain, NEW n, NEW local,
         Chained(chain, n, local), NEW new, Captured(new, compilers, n, local, chain)
  PROVE  \E W : /\ Resolved(W, new)
                /\ chain[Len(compilers)].at \in 1..Len(W[Len(compilers)])
                /\ W[Len(compilers)][chain[Len(compilers)].at] = <<n, local>>
<1>1. PICK last \in Nat : last = Len(compilers)
  BY CurrentIs
<1>2. PICK x : x = <<n, local>>
  OBVIOUS
<1>3. /\ n \in Nat /\ n >= 1 /\ n < last /\ n \in 1..last
      /\ local \in 1..Len(compilers[n].locals) /\ local \in Nat /\ x \in Nat \X Nat
  BY <1>1, <1>2 DEF Chained
<1>4. /\ Len(new) = last
      /\ \A m \in 1..last :
           /\ Alike(new[m], compilers[m])
           /\ new[m].upvalues =
                IF m <= n \/ chain[m].at <= Len(compilers[m].upvalues)
                  THEN compilers[m].upvalues
                ELSE Append(compilers[m].upvalues, chain[m].upvalue)
      /\ new[n].locals[local].captured
  BY <1>1 DEF Captured, AllAlike
<1>5. /\ V \in Seq(Seq(Nat \X Nat)) /\ Len(V) = last
      /\ \A m \in 1..last : V[m] \in Seq(Nat \X Nat) /\ Len(V[m]) \in Nat
  BY <1>1, ResolvedAre DEF Resolved
<1>6. \A m \in (n + 1)..last : Reaches(V, chain, m, x)
  BY <1>1, <1>2, ChainReaches
<1>. DEFINE W == [m \in 1..last |-> IF m <= n \/ chain[m].at <= Len(V[m]) THEN V[m]
                                    ELSE Append(V[m], x)]
            Adds(m) == ~(m <= n \/ chain[m].at <= Len(V[m]))
<1>7. ASSUME NEW m \in 1..last, Adds(m)
      PROVE  m \in (n + 1)..last /\ m > n /\ chain[m].at > Len(V[m])
  <2>1. ~(m <= n) /\ ~(chain[m].at <= Len(V[m]))
    BY <1>7
  <2>2. m \in (n + 1)..last /\ m > n /\ m \in (n + 1)..Len(compilers)
    BY <1>1, <1>3, <2>1
  <2>3. PICK at \in Int : at = chain[m].at
    <3>1. chain[m].at \in 1..(Len(V[m]) + 1)
      BY <2>2, LinkFacts DEF Links
    <3>2. chain[m].at \in Int
      BY <3>1
    <3>. QED BY <3>2
  <2>4. PICK len \in Nat : len = Len(V[m])
    BY <1>5
  <2>5. at > len
    BY <2>1, <2>3, <2>4
  <2>. QED BY <2>2, <2>3, <2>4, <2>5
<1>8. ASSUME NEW m \in 1..last, ~Adds(m)
      PROVE  W[m] = V[m] /\ new[m].upvalues = compilers[m].upvalues
  <2>1. Len(V[m]) = Len(compilers[m].upvalues)
    BY <1>1, ResolvedAre
  <2>. QED BY <1>4, <1>8, <2>1
<1>9. ASSUME NEW m \in 1..last, Adds(m)
      PROVE  /\ W[m] \in Seq(Nat \X Nat) /\ Len(W[m]) = Len(V[m]) + 1
             /\ W[m][Len(V[m]) + 1] = x /\ \A k \in 1..Len(V[m]) : W[m][k] = V[m][k]
             /\ new[m].upvalues = Append(compilers[m].upvalues, chain[m].upvalue)
             /\ chain[m].at = Len(V[m]) + 1 /\ \A k \in 1..Len(V[m]) : V[m][k] # x
  <2>1. PICK v \in Seq(Nat \X Nat) : v = V[m] /\ Len(v) \in Nat
    BY <1>5
  <2>2. W[m] = Append(v, x)
    BY <1>9, <2>1
  <2>3. /\ Append(v, x) \in Seq(Nat \X Nat) /\ Len(Append(v, x)) = Len(v) + 1
        /\ Append(v, x)[Len(v) + 1] = x /\ \A k \in 1..Len(v) : Append(v, x)[k] = v[k]
    BY <1>3, <2>1
  <2>4. Len(V[m]) = Len(compilers[m].upvalues)
    BY <1>1, ResolvedAre
  <2>5. new[m].upvalues = Append(compilers[m].upvalues, chain[m].upvalue)
    BY <1>4, <1>9, <2>4
  <2>6. m \in (n + 1)..Len(compilers) /\ chain[m].at > Len(V[m])
    BY <1>1, <1>7, <1>9
  <2>7. chain[m].at \in 1..(Len(v) + 1)
    BY <2>1, <2>6, LinkFacts DEF Links
  <2>8. chain[m].at = Len(v) + 1
    BY <2>1, <2>6, <2>7
  <2>9. \A k \in 1..Len(V[m]) : V[m][k] # x
    BY <1>1, <1>6, <2>6 DEF Reaches
  <2>. QED BY <2>1, <2>2, <2>3, <2>5, <2>8, <2>9
<1>10. DOMAIN W = 1..last
  OBVIOUS
<1>11. W \in Seq(Seq(Nat \X Nat)) /\ Len(W) = last
  <2>1. \A m \in 1..last : W[m] \in Seq(Nat \X Nat)
    BY <1>5, <1>8, <1>9
  <2>2. W = [m \in 1..last |-> W[m]]
    OBVIOUS
  <2>. HIDE DEF W
  <2>. QED BY <2>1, <2>2
<1>. HIDE DEF W, Adds
<1>12. ASSUME NEW m \in 1..last, NEW k \in 1..Len(V[m])
       PROVE  k \in 1..Len(W[m]) /\ W[m][k] = V[m][k]
  <2>1. CASE Adds(m)
    <3>1. Len(W[m]) = Len(V[m]) + 1 /\ W[m][k] = V[m][k] /\ Len(V[m]) \in Nat
      BY <1>5, <1>9, <2>1
    <3>. QED BY <3>1
  <2>2. CASE ~Adds(m)
    BY <1>8, <2>2
  <2>. QED BY <2>1, <2>2
<1>13. ASSUME NEW m \in (n + 1)..last
       PROVE  chain[m].at \in 1..Len(W[m]) /\ W[m][chain[m].at] = x
  <2>1. m \in 1..last /\ chain[m].at \in 1..(Len(V[m]) + 1) /\ Len(V[m]) \in Nat
    BY <1>1, <1>3, <1>5, LinkFacts DEF Links
  <2>2. CASE Adds(m)
    BY <1>9, <2>1, <2>2
  <2>3. CASE ~Adds(m)
    <3>1. chain[m].at <= Len(V[m])
      BY <1>3, <2>3 DEF Adds
    <3>2. V[m][chain[m].at] = x
      BY <1>6, <3>1 DEF Reaches
    <3>. QED BY <1>8, <2>1, <2>3, <3>1, <3>2
  <2>. QED BY <2>2, <2>3
<1>14. ASSUME NEW m \in 1..last
       PROVE  Stands(W[m], W[m - 1], new[m].upvalues, m)
  <2>1. PICK len \in Nat : len = Len(V[m])
    BY <1>5
  <2>2. PICK old : old = compilers[m].upvalues /\ Len(old) = len /\ old \in Seq(UpvalueType)
    <3>1. compilers[m].upvalues \in Seq(UpvalueType)
      <4>1. compilers[m] \in CompilerType
        BY <1>1, CompilersAre DEF IInv
      <4>. QED BY <4>1, FieldsAre
    <3>. QED BY <1>1, <2>1, <3>1, ResolvedAre
  <2>3. /\ \A k \in 1..len :
             /\ old[k].isLocal => V[m][k] = <<m - 1, old[k].index + 1>>
             /\ ~old[k].isLocal =>
                  /\ m > 1 /\ old[k].index + 1 \in 1..Len(V[m - 1])
                  /\ V[m][k] = V[m - 1][old[k].index + 1]
        /\ \A k, j \in 1..len : V[m][k] = V[m][j] => k = j
    <3>1. Stands(V[m], V[m - 1], old, m)
      BY <1>1, <2>2, ResolvedAre
    <3>. QED BY <2>1, <3>1 DEF Stands
  <2>4. m > 1 => m - 1 \in 1..last
    OBVIOUS
  <2>5. \A k \in 1..len :
          /\ old[k].isLocal => V[m][k] = <<m - 1, old[k].index + 1>>
          /\ ~old[k].isLocal =>
               /\ m > 1 /\ old[k].index + 1 \in 1..Len(W[m - 1])
               /\ V[m][k] = W[m - 1][old[k].index + 1]
    BY <1>12, <2>3, <2>4
  <2>6. CASE ~Adds(m)
    <3>1. W[m] = V[m] /\ new[m].upvalues = old
      BY <1>8, <2>2, <2>6
    <3>. QED BY <1>5, <2>1, <2>2, <2>3, <2>5, <3>1 DEF Stands
  <2>7. CASE Adds(m)
    <3>1. /\ W[m] \in Seq(Nat \X Nat) /\ Len(W[m]) = len + 1
          /\ W[m][len + 1] = x /\ \A k \in 1..len : W[m][k] = V[m][k]
          /\ new[m].upvalues = Append(old, chain[m].upvalue)
          /\ \A k \in 1..len : V[m][k] # x
      BY <1>9, <2>1, <2>2, <2>7
    <3>2. PICK u : u = chain[m].upvalue
      OBVIOUS
    <3>3. m \in (n + 1)..last
      BY <1>7, <2>7
    <3>4. PICK us : us = new[m].upvalues
      OBVIOUS
    <3>5. /\ Len(us) = len + 1 /\ us[len + 1] = u /\ \A k \in 1..len : us[k] = old[k]
      <4>1. u \in UpvalueType
        BY <1>1, <3>2, <3>3 DEF Chained, LinkType
      <4>2. us = Append(old, u)
        BY <3>1, <3>2, <3>4
      <4>. QED BY <2>2, <4>1, <4>2
    <3>6. \A k \in 1..(len + 1) : k = len + 1 \/ k \in 1..len
      OBVIOUS
    <3>7. /\ u.isLocal => x = <<m - 1, u.index + 1>>
          /\ ~u.isLocal => /\ m > 1 /\ u.index + 1 \in 1..Len(W[m - 1])
                           /\ x = W[m - 1][u.index + 1]
      <4>1. CASE m = n + 1
        <5>1. u = [index |-> local - 1, isLocal |-> TRUE]
          <6>1. m \in (n + 1)..Len(compilers)
            BY <1>1, <3>3
          <6>2. Links(V, chain, n, local, m)
            BY <6>1, LinkFacts
          <6>. QED BY <3>2, <4>1, <6>2, Zenon DEF Links
        <5>2. m - 1 = n /\ (local - 1) + 1 = local
          BY <1>3, <4>1
        <5>. QED BY <1>2, <5>1, <5>2
      <4>2. CASE m # n + 1
        <5>1. PICK prev : prev = chain[m - 1].at
          OBVIOUS
        <5>2. m - 1 \in (n + 1)..last /\ u = [index |-> prev - 1, isLocal |-> FALSE]
          <6>1. m \in (n + 1)..Len(compilers)
            BY <1>1, <3>3
          <6>2. Links(V, chain, n, local, m)
            BY <6>1, LinkFacts
          <6>. QED BY <1>1, <3>2, <4>2, <5>1, <6>2, Zenon DEF Links
        <5>3. prev \in 1..Len(W[m - 1]) /\ W[m - 1][prev] = x
          BY <1>13, <5>1, <5>2
        <5>4. (prev - 1) + 1 = prev /\ m > 1
          BY <1>3, <3>3, <5>3
        <5>. QED BY <5>2, <5>3, <5>4
      <4>. QED BY <4>1, <4>2
    <3>8. \A k \in 1..(len + 1) :
            /\ us[k].isLocal => W[m][k] = <<m - 1, us[k].index + 1>>
            /\ ~us[k].isLocal =>
                 /\ m > 1 /\ us[k].index + 1 \in 1..Len(W[m - 1])
                 /\ W[m][k] = W[m - 1][us[k].index + 1]
      BY <2>5, <3>1, <3>5, <3>6, <3>7
    <3>9. \A k, j \in 1..(len + 1) : W[m][k] = W[m][j] => k = j
      BY <2>3, <3>1, <3>6
    <3>. QED BY <3>1, <3>4, <3>5, <3>8, <3>9 DEF Stands
  <2>. QED BY <2>6, <2>7
<1>15. ASSUME NEW m \in 1..last
       PROVE  InReach(W[m], new, m)
  <2>1. PICK len \in Nat : len = Len(V[m])
    BY <1>5
  <2>2. \A k \in 1..len :
          /\ V[m][k][1] \in 1..(m - 1)
          /\ V[m][k][2] \in 1..Len(new[V[m][k][1]].locals)
          /\ new[V[m][k][1]].locals[V[m][k][2]].captured
    <3>1. SUFFICES ASSUME NEW k \in 1..len, NEW o, NEW i, o = V[m][k][1], i = V[m][k][2]
                   PROVE  /\ o \in 1..(m - 1) /\ i \in 1..Len(new[o].locals)
                          /\ new[o].locals[i].captured
      BY Zenon
    <3>2. /\ o \in 1..(m - 1) /\ i \in 1..Len(compilers[o].locals)
          /\ compilers[o].locals[i].captured
      BY <1>1, <2>1, <3>1, ResolvedAre DEF InReach
    <3>3. o \in 1..last
      BY <3>2
    <3>4. Alike(new[o], compilers[o])
      BY <1>4, <3>3
    <3>5. i \in 1..Len(new[o].locals)
      BY <3>2, <3>4 DEF Alike
    <3>6. new[o].locals[i].captured
      BY <3>2, <3>4, Zenon DEF Alike
    <3>. QED BY <3>2, <3>5, <3>6
  <2>3. CASE ~Adds(m)
    <3>1. W[m] = V[m]
      BY <1>8, <2>3
    <3>. QED BY <2>1, <2>2, <3>1 DEF InReach
  <2>4. CASE Adds(m)
    <3>1. Len(W[m]) = len + 1 /\ W[m][len + 1] = x /\ \A k \in 1..len : W[m][k] = V[m][k]
      BY <1>9, <2>1, <2>4
    <3>2. \A k \in 1..(len + 1) : k = len + 1 \/ k \in 1..len
      OBVIOUS
    <3>3. n \in 1..(m - 1)
      BY <1>3, <1>7, <2>4
    <3>4. local \in 1..Len(new[n].locals) /\ new[n].locals[local].captured
      BY <1>3, <1>4 DEF Alike
    <3>5. x[1] = n /\ x[2] = local
      BY <1>2
    <3>. QED BY <2>2, <3>1, <3>2, <3>3, <3>4, <3>5 DEF InReach
  <2>. QED BY <2>3, <2>4
<1>16. Resolved(W, new)
  BY <1>4, <1>11, <1>14, <1>15 DEF Resolved
<1>17. last \in (n + 1)..last
  BY <1>3
<1>. QED BY <1>1, <1>2, <1>13, <1>16, <1>17


-----------------------------------------------------------------------------
(***************************************************************************)
(* What names mean.                                                        *)
(***************************************************************************)

\* Initially nothing has been captured or accessed.
LEMMA InitNames ==
  ASSUME Init
  PROVE  NamesInv
<1>1. IInv
  BY InitIInv
<1>2. PICK c \in CompilerType : c = NewCompiler("script") /\ c.upvalues = <<>>
  BY NewCompilerIs
<1>3. compilers = <<c>> /\ emitted = NoAccess
  BY <1>2 DEF Init
<1>4. PICK V : V = << <<>> >>
  OBVIOUS
<1>5. V \in Seq(Seq(Nat \X Nat)) /\ Len(V) = 1 /\ V[1] = <<>> /\ V[1] \in Seq(Nat \X Nat)
  <2>1. <<>> \in Seq(Nat \X Nat)
    OBVIOUS
  <2>. QED BY <1>4, <2>1
<1>6. Len(compilers) = 1 /\ compilers[1].upvalues = <<>>
  BY <1>2, <1>3
<1>7. \A n \in 1..1 : n = 1
  OBVIOUS
<1>8. Stands(V[1], V[1 - 1], compilers[1].upvalues, 1) /\ InReach(V[1], compilers, 1)
  <2>1. Len(V[1]) = 0 /\ Len(compilers[1].upvalues) = 0 /\ \A k \in 1..0 : FALSE
    BY <1>5, <1>6
  <2>. QED BY <1>5, <2>1 DEF Stands, InReach
<1>9. Resolved(V, compilers)
  BY <1>5, <1>6, <1>7, <1>8 DEF Resolved
<1>10. Accesses(V, compilers, emitted)
  BY <1>3 DEF Accesses, NoAccess
<1>. QED BY <1>9, <1>10 DEF NamesInv

\* A declaration or a block compiles no access, except that of the actor.
LEMMA QuietStep ==
  ASSUME IInv, NamesInv, Resumes(compilers', compilers), emitted' = NoAccess
  PROVE  NamesInv'
<1>1. \E W : Resolved(W, compilers')
  BY ResolvedKept DEF IInv, NamesInv
<1>2. \A W : Accesses(W, compilers', emitted')
  BY DEF Accesses, NoAccess
<1>. QED BY <1>1, <1>2 DEF NamesInv

\* A local of the innermost compiler is the innermost variable of its name.
LEMMA LocalMeans ==
  ASSUME NEW cs, Nested(cs), Within(cs), NoTruncation, NEW V, Resolved(V, cs), NEW name,
         ResolveLocal(cs[Len(cs)], name) # 0
  PROVE  Means(cs, name, Len(cs), Index(ResolveLocal(cs[Len(cs)], name)) + 1)
<1>1. PICK last \in Nat : last = Len(cs) /\ last >= 1
  BY CompilersAre
<1>2. PICK c \in CompilerType : c = cs[last]
  BY <1>1, CompilersAre
<1>3. PICK r : r = ResolveLocal(c, name)
  OBVIOUS
<1>4. /\ r \in 1..Len(c.locals) /\ c.locals[r].name = name
      /\ \A i \in 1..Len(c.locals) : i > r => c.locals[i].name # name
  <2>1. r # 0
    BY <1>1, <1>2, <1>3
  <2>2. r \in 0..Len(c.locals) /\ Len(c.locals) \in Nat
    BY <1>3, ResolveIs, FieldsAre
  <2>3. r \in 1..Len(c.locals)
    BY <2>1, <2>2
  <2>. QED BY <1>3, <2>1, <2>3, ResolveIs
<1>5. Index(r) + 1 = r
  <2>1. Index(r) = r - 1
    BY <1>1, <1>2, <1>4, PositionsFit
  <2>. QED BY <1>4, <2>1
<1>6. \A m \in 1..last : ~(m > last)
  OBVIOUS
<1>7. Means(cs, name, last, r)
  BY <1>1, <1>2, <1>4, <1>6 DEF Means
<1>. QED BY <1>1, <1>2, <1>3, <1>5, <1>7

LEMMA GlobalLacks ==
  ASSUME NEW c \in CompilerType, NEW name, ResolveLocal(c, name) = 0
  PROVE  Lacks(c, name)
<1>1. \A i \in 1..Len(c.locals) : i > 0 => c.locals[i].name # name
  BY ResolveIs
<1>2. \A i \in 1..Len(c.locals) : i > 0
  BY FieldsAre
<1>. QED BY <1>1, <1>2 DEF Lacks

\* The code of an actor accesses the variable of its declaration.
LEMMA ActorNames ==
  ASSUME NoTruncation, IInv, NamesInv, NEW name \in Name, BeginActor(name)
  PROVE  NamesInv'
<1>1. IInv' /\ Resumes(compilers', compilers)
  BY BeginActorStep
<1>2. CASE Error
  BY <1>1, <1>2, QuietStep DEF Error
<1>3. ASSUME ~Error PROVE NamesInv'
  <2>1. AtStatement
    BY DEF BeginActor
  <2>2. /\ Current \in CompilerType /\ Ordered(Current) /\ Settled(Current)
        /\ Current.height = Len(Current.locals) /\ Current.depth \in Nat
        /\ Len(Current.locals) \in Nat
        /\ Current.type # "script" => Current.depth >= 1
    BY <2>1, CurrentIs, AtStatementIs, FieldsAre
  <2>3. PICK d : d = Define(Declare(Current, name, TRUE))
    OBVIOUS
  <2>4. /\ compilers' = Update([d EXCEPT !.height = @ + 1, !.stage = "actor"])
        /\ Current.depth = 0 => Emit("global", 0, name, FALSE)
        /\ Current.depth # 0 => Emit("local", Index(ResolveLocal(d, name)), name, FALSE)
    BY <1>3, <2>3 DEF BeginActor
  <2>5. /\ HasNew(d, Current, name) /\ d \in CompilerType /\ d.height \in Int
    <3>1. Defined(d, Current, name)
      BY <2>2, <2>3, DefinedIs
    <3>. QED BY <3>1, FieldsAre DEF Defined
  <2>6. PICK h \in Int : h = d.height + 1
    BY <2>5
  <2>7. PICK c : c = [d EXCEPT !.height = h, !.stage = "actor"]
    OBVIOUS
  <2>8. c \in CompilerType /\ c.locals = d.locals
    BY <2>5, <2>7 DEF CompilerType
  <2>9. compilers' = Update(c)
    BY <2>4, <2>6, <2>7
  <2>10. PICK last \in Nat : last = Len(compilers) /\ last >= 1 /\ Current = compilers[last]
    BY CurrentIs
  <2>11. Len(compilers') = last /\ compilers'[last] = c
    BY <2>8, <2>9, <2>10, UpdateIs DEF IInv, Updates
  <2>12. PICK W : Resolved(W, compilers')
    BY <1>1, ResolvedKept DEF IInv, NamesInv
  <2>13. CASE Current.depth = 0
    <3>1. last = 1
      <4>1. Current.type = "script"
        BY <2>2, <2>13
      <4>. QED BY <2>10, <4>1, CompilersAre DEF IInv
    <3>2. c.locals = Current.locals
      BY <2>5, <2>8, <2>13 DEF HasNew
    <3>3. ASSUME NEW i \in 1..Len(Current.locals)
          PROVE  Current.locals[i].name # name
      <4>1. /\ Current.locals[i].depth <= 0 /\ Current.locals[i].depth # Uninitialized
            /\ i > 1 => Current.locals[i].depth # 0
            /\ Current.locals[1].name \notin Name
        BY <2>2, <2>13 DEF Ordered, Settled
      <4>2. Current.locals[i].depth \in Uninitialized..(MaxBlocks + 1)
        BY <2>2, FieldsAre, Zenon DEF LocalType
      <4>3. Current.locals[i].depth = 0
        BY <4>1, <4>2, BoundAssumption DEF Uninitialized
      <4>4. i = 1
        BY <2>2, <4>1, <4>3
      <4>. QED BY <4>1, <4>4
    <3>4. \A m \in 1..Len(compilers') : Lacks(compilers'[m], name)
      <4>1. Lacks(c, name)
        BY <3>2, <3>3 DEF Lacks
      <4>2. \A m \in 1..1 : m = 1
        OBVIOUS
      <4>. QED BY <2>11, <3>1, <4>1, <4>2
    <3>5. Accesses(W, compilers', emitted')
      BY <2>4, <2>13, <3>4 DEF Accesses, Emit
    <3>. QED BY <2>12, <3>5 DEF NamesInv
  <2>14. CASE Current.depth # 0
    <3>1. PICK len \in Nat : len = Len(d.locals) /\ len >= 1 /\ d.locals[len].name = name
      <4>1. /\ Len(d.locals) = Len(Current.locals) + 1
            /\ d.locals[Len(Current.locals) + 1].name = name
        BY <2>5, <2>14 DEF HasNew
      <4>2. Len(Current.locals) + 1 \in Nat /\ Len(Current.locals) + 1 >= 1
        BY <2>2
      <4>. QED BY <4>1, <4>2
    <3>2. ResolveLocal(d, name) # 0
      <4>1. /\ \A i \in 1..Len(d.locals) :
                 i > ResolveLocal(d, name) => d.locals[i].name # name
        BY <2>5, ResolveIs
      <4>2. len \in 1..Len(d.locals) /\ len > 0
        BY <3>1
      <4>. QED BY <3>1, <4>1, <4>2
    <3>3. ResolveLocal(c, name) = ResolveLocal(d, name)
      BY <2>8 DEF ResolveLocal
    <3>4. Means(compilers', name, last, Index(ResolveLocal(d, name)) + 1)
      <4>1. Nested(compilers') /\ Within(compilers')
        BY <1>1 DEF IInv
      <4>2. ResolveLocal(compilers'[Len(compilers')], name) # 0
        BY <2>11, <3>2, <3>3
      <4>3. Means(compilers', name, Len(compilers'),
                  Index(ResolveLocal(compilers'[Len(compilers')], name)) + 1)
        BY <2>12, <4>1, <4>2, LocalMeans
      <4>. QED BY <2>11, <3>3, <4>3
    <3>5. Accesses(W, compilers', emitted')
      BY <2>4, <2>11, <2>14, <3>4 DEF Accesses, Emit
    <3>. QED BY <2>12, <3>5 DEF NamesInv
  <2>. QED BY <2>13, <2>14
<1>. QED BY <1>2, <1>3

\* The code of a name accesses the variable that the name means.
LEMMA NamedVariableNames ==
  ASSUME NoTruncation, IInv, NamesInv, NEW name \in Name \union {This}, NEW set \in BOOLEAN,
         NamedVariable(name, set)
  PROVE  NamesInv'
<1>. DEFINE local == ResolveLocal(Current, name)
<1>1. IInv'
  BY NamedVariableStep
<1>2. PICK V : Resolved(V, compilers)
  BY DEF NamesInv
<1>3. PICK last \in Nat : last = Len(compilers) /\ last >= 1 /\ Current = compilers[last]
  BY CurrentIs
<1>4. Nested(compilers) /\ Within(compilers)
  BY DEF IInv
<1>5. CASE Error
  BY <1>5, ErrorStep, QuietStep DEF Error
<1>6. ASSUME local > 0, Emit("local", Index(local), name, set), UNCHANGED compilers
      PROVE  NamesInv'
  <2>1. local # 0
    BY <1>6
  <2>2. Means(compilers, name, Len(compilers),
              Index(ResolveLocal(compilers[Len(compilers)], name)) + 1)
    BY <1>2, <1>3, <1>4, <2>1, LocalMeans
  <2>3. Accesses(V, compilers', emitted')
    BY <1>3, <1>6, <2>2 DEF Accesses, Emit
  <2>. QED BY <1>2, <1>6, <2>3 DEF NamesInv
<1>7. ASSUME local = 0, Owner(name) = 0, Emit("global", 0, name, set), UNCHANGED compilers
      PROVE  NamesInv'
  <2>1. ASSUME NEW m \in 1..last PROVE Lacks(compilers[m], name)
    <3>1. compilers[m] \in CompilerType
      BY <1>3, <1>4, CompilersAre
    <3>2. ResolveLocal(compilers[m], name) = 0
      <4>1. CASE m = last
        BY <1>3, <1>7, <4>1
      <4>2. CASE m # last
        <5>1. m \in 1..(Len(compilers) - 1) /\ m > 0
          BY <1>3, <4>2
        <5>. QED BY <1>7, <5>1, OwnerIs
      <4>. QED BY <4>1, <4>2
    <3>. QED BY <3>1, <3>2, GlobalLacks
  <2>2. Accesses(V, compilers', emitted')
    BY <1>3, <1>7, <2>1 DEF Accesses, Emit
  <2>. QED BY <1>2, <1>7, <2>2 DEF NamesInv
<1>8. ASSUME local = 0, Owner(name) > 0, compilers' = Capture(name),
             Emit("upvalue", Index(UpvalueChain(name)[Len(compilers)].at), name, set)
      PROVE  NamesInv'
  <2>1. PICK n, r, chain : /\ n = Owner(name) /\ r = ResolveLocal(compilers[n], name)
                           /\ chain = UpvalueChain(name)
    OBVIOUS
  <2>2. Owner(name) # 0
    BY <1>8
  <2>3. Chained(chain, n, r) /\ Captured(compilers', compilers, n, r, chain)
    BY <1>8, <2>1, <2>2, ChainedIs, CaptureIs
  <2>4. PICK W : /\ Resolved(W, compilers')
                 /\ chain[Len(compilers)].at \in 1..Len(W[Len(compilers)])
                 /\ W[Len(compilers)][chain[Len(compilers)].at] = <<n, r>>
    BY <1>2, <2>3, ResolvedCaptured
  <2>5. PICK at : at = chain[last].at
    OBVIOUS
  <2>6. Len(compilers') = last /\ \A m \in 1..last : Alike(compilers'[m], compilers[m])
    BY <1>3, <2>3 DEF Captured, AllAlike
  <2>7. Index(at) + 1 = at
    <3>1. last \in 1..Len(compilers') /\ at \in 1..Len(W[last]) /\ Len(W[last]) \in Nat
      BY <1>3, <2>4, <2>5, <2>6, ResolvedAre
    <3>2. at \in 1..(Len(W[last]) + 1) /\ at \in Int
      BY <3>1
    <3>3. Index(at) = at - 1
      BY <1>1, <2>4, <3>1, <3>2, PositionsFit DEF IInv
    <3>. QED BY <3>2, <3>3
  <2>8. Means(compilers', name, n, r)
    <3>1. /\ n \in 1..(last - 1) /\ n \in 1..last /\ r \in 1..Len(compilers[n].locals)
      BY <1>3, <2>3 DEF Chained
    <3>2. compilers[n] \in CompilerType
      BY <1>3, <1>4, <3>1, CompilersAre
    <3>3. /\ compilers[n].locals[r].name = name
          /\ \A i \in 1..Len(compilers[n].locals) : i > r => compilers[n].locals[i].name # name
      <4>1. r # 0
        BY <2>1, <2>2, OwnerIs
      <4>. QED BY <2>1, <3>2, <4>1, ResolveIs
    <3>4. ASSUME NEW m \in 1..last, m > n PROVE Lacks(compilers[m], name)
      <4>1. compilers[m] \in CompilerType
        BY <1>3, <1>4, CompilersAre
      <4>2. CASE m = last
        BY <1>3, <1>8, <4>1, <4>2, GlobalLacks
      <4>3. CASE m # last
        <5>1. m \in 1..(Len(compilers) - 1)
          BY <1>3, <4>3
        <5>2. ResolveLocal(compilers[m], name) = 0
          BY <2>1, <3>4, <5>1, OwnerIs
        <5>. QED BY <4>1, <5>2, GlobalLacks
      <4>. QED BY <4>2, <4>3
    <3>5. \A m \in 1..last : m > n => Lacks(compilers'[m], name)
      BY <2>6, <3>4 DEF Lacks, Alike
    <3>. QED BY <2>6, <3>1, <3>3, <3>5 DEF Means, Alike
  <2>9. Accesses(W, compilers', emitted')
    <3>1. PICK a : a = emitted'
      OBVIOUS
    <3>2. a.op = "upvalue" /\ a.name = name /\ a.arg = Index(at)
      BY <1>3, <1>8, <2>1, <2>5, <3>1 DEF Emit
    <3>3. at \in 1..Len(W[last]) /\ W[last][at] = <<n, r>>
      BY <1>3, <2>4, <2>5
    <3>4. W[last][at][1] = n /\ W[last][at][2] = r
      BY <3>3
    <3>5. Accesses(W, compilers', a)
      BY <2>6, <2>7, <2>8, <3>2, <3>3, <3>4 DEF Accesses
    <3>. QED BY <3>1, <3>5
  <2>. QED BY <2>4, <2>9 DEF NamesInv
<1>9. \/ Error
      \/ local > 0 /\ Emit("local", Index(local), name, set) /\ UNCHANGED compilers
      \/ /\ local = 0 /\ Owner(name) > 0 /\ compilers' = Capture(name)
         /\ Emit("upvalue", Index(UpvalueChain(name)[Len(compilers)].at), name, set)
      \/ local = 0 /\ Owner(name) = 0 /\ Emit("global", 0, name, set) /\ UNCHANGED compilers
  BY DEF NamedVariable
<1>. HIDE DEF local
<1>. QED BY <1>5, <1>6, <1>7, <1>8, <1>9

LEMMA NextNames ==
  ASSUME NoTruncation, IInv, NamesInv, [Next]_vars
  PROVE  NamesInv'
<1>1. CASE UNCHANGED vars
  BY <1>1 DEF vars, NamesInv
<1>2. ASSUME Resumes(compilers', compilers), Error \/ Compiled
      PROVE  NamesInv'
  BY <1>2, QuietStep DEF Error, Compiled
<1>3. CASE EndVar
  BY <1>2, <1>3, EndVarStep DEF EndVar
<1>4. CASE BeginScope
  BY <1>2, <1>4, BeginScopeStep DEF BeginScope
<1>5. CASE EndScope
  BY <1>2, <1>5, EndScopeStep DEF EndScope
<1>6. CASE BeginMessage
  BY <1>2, <1>6, BeginMessageStep DEF BeginMessage
<1>7. CASE BeginBody
  BY <1>2, <1>7, BeginBodyStep DEF BeginBody
<1>8. CASE EndFunction
  BY <1>2, <1>8, EndFunctionStep DEF EndFunction
<1>9. CASE EndActor
  BY <1>2, <1>9, EndActorStep DEF EndActor
<1>10. ASSUME NEW name \in Name, BeginFunction(name)
       PROVE  NamesInv'
  BY <1>2, <1>10, BeginFunctionStep DEF BeginFunction
<1>11. ASSUME NEW name \in Name, Parameter(name)
       PROVE  NamesInv'
  BY <1>2, <1>11, ParameterStep DEF Parameter
<1>12. ASSUME NEW name \in Name, BeginActor(name)
       PROVE  NamesInv'
  BY <1>12, ActorNames
<1>13. ASSUME NEW name \in Name, NEW flag \in BOOLEAN, BeginVar(name, flag)
       PROVE  NamesInv'
  BY <1>2, <1>13, BeginVarStep DEF BeginVar
<1>14. ASSUME NEW name \in Name, NEW flag \in BOOLEAN, Use(name, flag)
       PROVE  NamesInv'
  BY <1>14, NamedVariableNames DEF Use
<1>15. CASE UseThis
  <2>1. CASE Error
    BY <2>1, <1>2, ErrorStep
  <2>2. CASE NamedVariable(This, FALSE)
    <3>1. This \in Name \union {This} /\ FALSE \in BOOLEAN
      OBVIOUS
    <3>. QED BY <2>2, <3>1, NamedVariableNames
  <2>. QED BY <1>15, <2>1, <2>2 DEF UseThis
<1>. QED
  BY <1>1, <1>3, <1>4, <1>5, <1>6, <1>7, <1>8, <1>9, <1>10, <1>11, <1>12, <1>13, <1>14, <1>15
  DEF Next

\* What the upvalues of compiler n stand for, by those of the compiler around it.
VariablesOf(n, around) ==
  [k \in DOMAIN compilers[n].upvalues |->
     IF compilers[n].upvalues[k].isLocal THEN <<n - 1, compilers[n].upvalues[k].index + 1>>
     ELSE IF n > 1 /\ compilers[n].upvalues[k].index + 1 \in DOMAIN compilers[n - 1].upvalues
            THEN around[compilers[n].upvalues[k].index + 1]
     ELSE <<-1, -1>>]

LEMMA DenotesIs ==
  ASSUME IInv, NEW V, Resolved(V, compilers)
  PROVE  \A n \in 1..Len(compilers) : Denotes[n] = V[n]
<1>1. PICK last \in Nat : last = Len(compilers)
  BY CurrentIs
<1>2. V \in Seq(Seq(Nat \X Nat)) /\ Len(V) = last
  BY <1>1 DEF Resolved
<1>3. ASSUME NEW n \in 1..last
      PROVE  DOMAIN compilers[n].upvalues = 1..Len(V[n]) /\ Len(V[n]) \in Nat
  <2>1. PICK us \in Seq(UpvalueType) : us = compilers[n].upvalues
    <3>1. compilers[n] \in CompilerType
      BY <1>1, CompilersAre DEF IInv
    <3>. QED BY <3>1, FieldsAre
  <2>2. DOMAIN us = 1..Len(us)
    OBVIOUS
  <2>. QED BY <1>1, <2>1, <2>2, ResolvedAre
<1>4. ASSUME NEW n \in 1..last PROVE V[n] = VariablesOf(n, V[n - 1])
  <2>1. PICK len, us : /\ len = Len(V[n]) /\ len \in Nat
                       /\ us = compilers[n].upvalues /\ DOMAIN us = 1..len
    BY <1>3
  <2>2. V[n] \in Seq(Nat \X Nat) /\ Stands(V[n], V[n - 1], us, n)
    BY <1>1, <2>1, ResolvedAre
  <2>3. V[n] = [k \in 1..len |-> V[n][k]]
    <3>1. \A v \in Seq(Nat \X Nat) : Len(v) = len => v = [k \in 1..len |-> v[k]]
      OBVIOUS
    <3>. QED BY <2>1, <2>2, <3>1
  <2>4. ASSUME NEW k \in 1..len
        PROVE  V[n][k] = IF us[k].isLocal THEN <<n - 1, us[k].index + 1>>
                         ELSE IF n > 1 /\ us[k].index + 1 \in DOMAIN compilers[n - 1].upvalues
                                THEN V[n - 1][us[k].index + 1]
                         ELSE <<-1, -1>>
    <3>1. /\ us[k].isLocal => V[n][k] = <<n - 1, us[k].index + 1>>
          /\ ~us[k].isLocal => /\ n > 1 /\ us[k].index + 1 \in 1..Len(V[n - 1])
                               /\ V[n][k] = V[n - 1][us[k].index + 1]
      BY <2>1, <2>2 DEF Stands
    <3>2. n > 1 => n - 1 \in 1..last
      OBVIOUS
    <3>3. n > 1 => DOMAIN compilers[n - 1].upvalues = 1..Len(V[n - 1])
      BY <1>3, <3>2
    <3>. QED BY <3>1, <3>3
  <2>. QED BY <2>1, <2>3, <2>4 DEF VariablesOf
<1>5. V = [n \in 1..last |-> VariablesOf(n, V[n - 1])]
  <2>1. V = [n \in 1..last |-> V[n]]
    BY <1>2
  <2>. QED BY <1>4, <2>1
<1>6. PICK D : D = Denotes
  OBVIOUS
<1>7. D = CHOOSE g : g = [n \in 1..last |-> VariablesOf(n, g[n - 1])]
  BY <1>1, <1>6 DEF Denotes, VariablesOf
<1>8. D = [n \in 1..last |-> VariablesOf(n, D[n - 1])]
  BY <1>5, <1>7
<1>9. ASSUME NEW n \in 1..last PROVE D[n] = V[n]
  <2>. DEFINE differ == {m \in 1..last : D[m] # V[m]}
  <2>1. SUFFICES ASSUME differ # {} PROVE FALSE
    OBVIOUS
  <2>2. differ \in SUBSET Nat
    OBVIOUS
  <2>3. PICK m \in differ : \A j \in differ : m <= j
    <3>. HIDE DEF differ
    <3>. QED BY <2>1, <2>2, LeastElement
  <2>4. m \in 1..last /\ D[m] # V[m]
    OBVIOUS
  <2>5. D[m] = VariablesOf(m, D[m - 1]) /\ V[m] = VariablesOf(m, V[m - 1])
    BY <1>4, <1>8, <2>4
  <2>6. CASE m = 1
    <3>1. VariablesOf(1, D[1 - 1]) = VariablesOf(1, V[1 - 1])
      <4>1. ~(1 > 1)
        OBVIOUS
      <4>. QED BY <4>1 DEF VariablesOf
    <3>. QED BY <2>4, <2>5, <2>6, <3>1
  <2>7. CASE m # 1
    <3>1. m - 1 \in 1..last /\ m - 1 < m
      BY <2>4, <2>7
    <3>2. m - 1 \notin differ
      BY <2>3, <2>4, <3>1
    <3>3. D[m - 1] = V[m - 1]
      BY <3>1, <3>2
    <3>. QED BY <2>4, <2>5, <3>3
  <2>. QED BY <2>6, <2>7
<1>. QED BY <1>1, <1>6, <1>9

LEMMA NamesInvUpvalues ==
  ASSUME IInv, NamesInv
  PROVE  UpvaluesAreCaptured
<1>1. PICK V : Resolved(V, compilers)
  BY DEF NamesInv
<1>2. SUFFICES ASSUME NEW n \in 1..Len(compilers)
               PROVE
        /\ \A k \in DOMAIN Denotes[n] :
             /\ Denotes[n][k][1] \in 1..(n - 1)
             /\ Denotes[n][k][2] \in DOMAIN compilers[Denotes[n][k][1]].locals
             /\ compilers[Denotes[n][k][1]].locals[Denotes[n][k][2]].captured
        /\ \A k, j \in DOMAIN Denotes[n] : Denotes[n][k] = Denotes[n][j] => k = j
  BY CompilersAre, Zenon DEF IInv, UpvaluesAreCaptured
<1>3. PICK v : v = Denotes[n] /\ v = V[n]
  BY <1>1, DenotesIs
<1>4. /\ v \in Seq(Nat \X Nat) /\ Stands(v, V[n - 1], compilers[n].upvalues, n)
      /\ InReach(v, compilers, n)
  BY <1>1, <1>3, ResolvedAre
<1>5. DOMAIN v = 1..Len(v)
  BY <1>4
<1>6. ASSUME NEW k \in 1..Len(v), NEW o, NEW i, o = v[k][1], i = v[k][2]
      PROVE  o \in 1..(n - 1) /\ i \in DOMAIN compilers[o].locals /\ compilers[o].locals[i].captured
  <2>1. /\ o \in 1..(n - 1) /\ i \in 1..Len(compilers[o].locals)
        /\ compilers[o].locals[i].captured
    BY <1>4, <1>6 DEF InReach
  <2>2. PICK last \in Nat : last = Len(compilers)
    BY CurrentIs
  <2>3. o \in 1..last
    BY <2>1, <2>2
  <2>4. compilers[o].locals \in Seq(LocalType)
    <3>1. compilers[o] \in CompilerType
      BY <2>2, <2>3, CompilersAre DEF IInv
    <3>. QED BY <3>1, FieldsAre
  <2>5. DOMAIN compilers[o].locals = 1..Len(compilers[o].locals)
    BY <2>4
  <2>. QED BY <2>1, <2>5
<1>7. \A k, j \in 1..Len(v) : v[k] = v[j] => k = j
  BY <1>4 DEF Stands
<1>. QED BY <1>3, <1>5, <1>6, <1>7, Zenon

\* Meaning finds the variable that Means describes, where there is one.
LEMMA MeaningIs ==
  ASSUME IInv, NEW name
  PROVE  /\ \A n, i : Means(compilers, name, n, i) => Meaning(name) = <<n, i>>
         /\ (\A m \in 1..Len(compilers) : Lacks(compilers[m], name)) => Meaning(name) = <<0, 0>>
<1>. DEFINE ds == {d \in (DOMAIN compilers) \X (1..(MaxLocals + 1)) :
                     /\ d[2] <= Len(compilers[d[1]].locals)
                     /\ compilers[d[1]].locals[d[2]].name = name
                     /\ compilers[d[1]].locals[d[2]].depth <= compilers[d[1]].depth}
<1>1. PICK last \in Nat : last = Len(compilers) /\ DOMAIN compilers = 1..last
  BY CurrentIs, CompilersAre DEF IInv
<1>2. ASSUME NEW d \in ds
      PROVE  /\ d = <<d[1], d[2]>> /\ d[1] \in 1..last /\ d[2] \in 1..Len(compilers[d[1]].locals)
             /\ compilers[d[1]].locals[d[2]].name = name
  <2>1. PICK o \in 1..last, i \in 1..(MaxLocals + 1) : d = <<o, i>>
    BY <1>1
  <2>2. i <= Len(compilers[o].locals) /\ compilers[o].locals[i].name = name
    BY <2>1
  <2>3. PICK c \in CompilerType : c = compilers[o]
    BY <1>1, CompilersAre DEF IInv
  <2>4. i \in 1..Len(c.locals)
    BY <2>2, <2>3, FieldsAre, BoundAssumption
  <2>. QED BY <2>1, <2>2, <2>3, <2>4
<1>3. Meaning(name) = IF ds = {} THEN <<0, 0>>
                      ELSE CHOOSE d \in ds :
                             \A e \in ds : e[1] < d[1] \/ (e[1] = d[1] /\ e[2] <= d[2])
  BY Zenon DEF Meaning
<1>4. ASSUME NEW n, NEW i, Means(compilers, name, n, i)
      PROVE  Meaning(name) = <<n, i>>
  <2>1. /\ n \in 1..last /\ i \in 1..Len(compilers[n].locals) /\ compilers[n].locals[i].name = name
        /\ \A j \in 1..Len(compilers[n].locals) : j > i => compilers[n].locals[j].name # name
        /\ \A m \in 1..last : m > n => Lacks(compilers[m], name)
    BY <1>1, <1>4 DEF Means
  <2>2. PICK c \in CompilerType : c = compilers[n] /\ Ordered(c)
    BY <1>1, <2>1, CompilersAre DEF IInv, Fits
  <2>3. PICK len \in Nat : len = Len(c.locals) /\ len <= MaxLocals + 1
    BY <1>1, <2>1, <2>2, LocalsBound, FieldsAre, BoundAssumption DEF IInv
  <2>4. PICK x : x = <<n, i>>
    OBVIOUS
  <2>5. x \in ds
    <3>1. i \in 1..(MaxLocals + 1) /\ i <= len
      BY <2>1, <2>2, <2>3, BoundAssumption
    <3>2. c.locals[i].depth <= c.depth
      BY <2>1, <2>2 DEF Ordered
    <3>. QED BY <1>1, <2>1, <2>2, <2>3, <2>4, <3>1, <3>2
  <2>6. x[1] = n /\ x[2] = i
    BY <2>4
  <2>. HIDE DEF ds
  <2>7. ASSUME NEW e \in ds PROVE e[1] < n \/ (e[1] = n /\ e[2] <= i)
    <3>1. PICK o, j : /\ o = e[1] /\ j = e[2] /\ o \in 1..last /\ j \in 1..Len(compilers[o].locals)
                      /\ compilers[o].locals[j].name = name
      BY <1>2
    <3>2. ~(o > n)
      BY <2>1, <3>1 DEF Lacks
    <3>3. o = n => ~(j > i)
      BY <2>1, <3>1
    <3>4. o = n => j \in Int /\ i \in Int
      BY <2>1, <2>2, <2>3, <3>1
    <3>. QED BY <2>1, <3>1, <3>2, <3>3, <3>4
  <2>8. ASSUME NEW d \in ds, \A e \in ds : e[1] < d[1] \/ (e[1] = d[1] /\ e[2] <= d[2])
        PROVE  d = x
    <3>1. n < d[1] \/ (n = d[1] /\ i <= d[2])
      BY <2>5, <2>6, <2>8
    <3>2. d[1] < n \/ (d[1] = n /\ d[2] <= i)
      BY <2>7
    <3>3. d = <<d[1], d[2]>> /\ d[1] \in 1..last /\ d[2] \in 1..Len(compilers[d[1]].locals)
      BY <1>2
    <3>4. d[1] = n
      BY <2>1, <3>1, <3>2, <3>3
    <3>5. d[2] = i
      <4>1. d[2] \in Int /\ i \in Int
        BY <2>1, <2>2, <2>3, <3>3, <3>4
      <4>2. ~(n < n) /\ d[2] <= i /\ i <= d[2]
        BY <2>1, <3>1, <3>2, <3>4
      <4>. QED BY <4>1, <4>2
    <3>. QED BY <2>4, <3>3, <3>4, <3>5
  <2>9. \A e \in ds : e[1] < x[1] \/ (e[1] = x[1] /\ e[2] <= x[2])
    BY <2>6, <2>7
  <2>10. (CHOOSE d \in ds : \A e \in ds : e[1] < d[1] \/ (e[1] = d[1] /\ e[2] <= d[2])) = x
    BY <2>5, <2>8, <2>9, Zenon
  <2>. QED BY <1>3, <2>4, <2>5, <2>10
<1>5. ASSUME \A m \in 1..Len(compilers) : Lacks(compilers[m], name)
      PROVE  Meaning(name) = <<0, 0>>
  <2>1. ASSUME NEW d \in ds PROVE FALSE
    <3>. HIDE DEF ds
    <3>. QED BY <1>1, <1>2, <1>5 DEF Lacks
  <2>. HIDE DEF ds
  <2>2. ds = {}
    BY <2>1
  <2>. QED BY <1>3, <2>2
<1>. QED BY <1>4, <1>5

LEMMA NamesInvMeaning ==
  ASSUME IInv, NamesInv
  PROVE  NamesMeanDeclarations
<1>1. PICK V : Resolved(V, compilers) /\ Accesses(V, compilers, emitted)
  BY DEF NamesInv
<1>2. PICK last \in Nat : last = Len(compilers) /\ last >= 1
  BY CurrentIs
<1>3. PICK op : op = emitted.op /\ op \in {"none", "local", "upvalue", "global"}
  BY DEF IInv, AccessType
<1>4. ASSUME op = "local"
      PROVE  Meaning(emitted.name) = <<last, emitted.arg + 1>>
  BY <1>1, <1>2, <1>3, <1>4, MeaningIs DEF Accesses
<1>5. ASSUME op = "upvalue"
      PROVE  /\ emitted.arg + 1 \in DOMAIN Denotes[last]
             /\ Meaning(emitted.name) = Denotes[last][emitted.arg + 1]
  <2>1. PICK v : v = Denotes[last] /\ v = V[last] /\ v \in Seq(Nat \X Nat)
    BY <1>1, <1>2, DenotesIs, ResolvedAre
  <2>2. PICK at : at = emitted.arg + 1
    OBVIOUS
  <2>3. at \in 1..Len(v) /\ Means(compilers, emitted.name, v[at][1], v[at][2])
    BY <1>1, <1>2, <1>3, <1>5, <2>1, <2>2 DEF Accesses
  <2>4. Meaning(emitted.name) = <<v[at][1], v[at][2]>>
    BY <2>3, MeaningIs
  <2>5. at \in DOMAIN v /\ v[at] = <<v[at][1], v[at][2]>>
    BY <2>1, <2>3
  <2>. QED BY <2>1, <2>2, <2>4, <2>5
<1>6. ASSUME op = "global"
      PROVE  Meaning(emitted.name) = <<0, 0>>
  BY <1>1, <1>3, <1>6, MeaningIs DEF Accesses
<1>. QED BY <1>2, <1>3, <1>4, <1>5, <1>6 DEF NamesMeanDeclarations

\* Each upvalue of a function under compilation stands for a captured local variable
\* of an enclosing function that is still in scope, and no two for the same one, in
\* programs whose locals and upvalues are fewer than uint16_t has numbers.
THEOREM UpvaluesAreBound ==
  ASSUME NoTruncation
  PROVE  Spec => []UpvaluesAreCaptured
<1>1. Init => IInv /\ NamesInv
  BY InitIInv, InitNames
<1>2. (IInv /\ NamesInv) /\ [Next]_vars => (IInv /\ NamesInv)'
  BY NextIInv, NextNames
<1>3. IInv /\ NamesInv => UpvaluesAreCaptured
  BY NamesInvUpvalues
<1>. QED BY <1>1, <1>2, <1>3, PTL DEF Spec

\* The code for a name accesses the variable that the name means, at any depth of
\* nested functions and with any shadowing, in the same programs.
THEOREM NamesAreResolved ==
  ASSUME NoTruncation
  PROVE  Spec => []NamesMeanDeclarations
<1>1. Init => IInv /\ NamesInv
  BY InitIInv, InitNames
<1>2. (IInv /\ NamesInv) /\ [Next]_vars => (IInv /\ NamesInv)'
  BY NextIInv, NextNames
<1>3. IInv /\ NamesInv => NamesMeanDeclarations
  BY NamesInvMeaning
<1>. QED BY <1>1, <1>2, <1>3, PTL DEF Spec
=============================================================================
