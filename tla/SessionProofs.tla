---------------------------- MODULE SessionProofs ----------------------------
(***************************************************************************)
(* Two results about a line of a session.                                  *)
(*                                                                         *)
(* Its global variables, for any names, values, natives and capacity: the  *)
(* types of Globals, that a search always has one answer, and that the     *)
(* array with its repeated names implements a map from names to their last *)
(* definitions.                                                            *)
(*                                                                         *)
(* Its compilation, for any tokens, sources and scanner: what an erroneous *)
(* declaration has begun is undone when the parser is back between the     *)
(* declarations of the script.                                             *)
(***************************************************************************)
EXTENDS Globals, Compiler, ProofLemmas

\* A name that is in the array has a last entry.
Sought(arr) == \A n : Found(arr, n) => \E i : IsLast(arr, n, i)

Sane == TypeOK /\ Sought(globals)

\* From arr to new, the name n has got a meaning, and no other has changed.
Changes(arr, new, n, meaning) ==
  /\ new \in Seq(Entry) /\ Sought(new)
  /\ DOMAIN Meanings(new) = DOMAIN Meanings(arr) \union {n}
  /\ Meanings(new)[n] = meaning
  /\ \A m \in DOMAIN Meanings(arr) : m # n => Meanings(new)[m] = Meanings(arr)[m]

-----------------------------------------------------------------------------
(***************************************************************************)
(* The array.                                                              *)
(***************************************************************************)

\* The last entry of a name is the one that global_find returns.
LEMMA FindsLast ==
  ASSUME NEW arr \in Seq(Entry), NEW n, NEW i, IsLast(arr, n, i)
  PROVE  GlobalFind(arr, n) = i
<1>1. \A j : IsLast(arr, n, j) => j = i
  BY DEF IsLast
<1>2. IsLast(arr, n, GlobalFind(arr, n))
  BY DEF GlobalFind, IsLast
<1>. QED BY <1>1, <1>2

LEMMA FoundIsLast ==
  ASSUME NEW arr \in Seq(Entry), Sought(arr), NEW n, Found(arr, n)
  PROVE  IsLast(arr, n, GlobalFind(arr, n)) /\ GlobalFind(arr, n) \in 1..Len(arr)
<1>1. PICK i : IsLast(arr, n, i)
  BY DEF Sought
<1>. QED BY <1>1, FindsLast DEF IsLast

LEMMA MeaningsAreFunction ==
  ASSUME NEW arr
  PROVE  Meanings(arr) = [n \in DOMAIN Meanings(arr) |-> Meanings(arr)[n]]
BY DEF Meanings

\* What global_set does when there is room: the name has a new meaning, and the
\* others keep theirs.
LEMMA AppendMeanings ==
  ASSUME NEW arr \in Seq(Entry), Sought(arr), NEW e \in Entry, NEW new, new = Append(arr, e)
  PROVE  /\ Len(new) = Len(arr) + 1
         /\ Changes(arr, new, e.name, [value |-> e.value, constant |-> e.constant])
<1>. DEFINE last == Len(arr) + 1
<1>1. /\ new \in Seq(Entry) /\ Len(new) = last /\ Len(arr) \in Nat
      /\ new[last] = e /\ \A i \in 1..Len(arr) : new[i] = arr[i]
  OBVIOUS
<1>2. IsLast(new, e.name, last)
  BY <1>1 DEF IsLast
<1>3. ASSUME NEW m, m # e.name
      PROVE  /\ Found(new, m) <=> Found(arr, m)
             /\ \A i : IsLast(arr, m, i) => IsLast(new, m, i)
  BY <1>1, <1>3 DEF Found, IsLast
<1>4. Sought(new)
  BY <1>2, <1>3 DEF Sought
<1>5. GlobalFind(new, e.name) = last
  BY <1>1, <1>2, FindsLast
<1>6. ASSUME NEW m, m # e.name, Found(arr, m)
      PROVE  Meaning(new, m) = Meaning(arr, m)
  <2>1. IsLast(arr, m, GlobalFind(arr, m)) /\ GlobalFind(arr, m) \in 1..Len(arr)
    BY <1>6, FoundIsLast
  <2>2. GlobalFind(new, m) = GlobalFind(arr, m)
    BY <1>1, <1>3, <1>6, <2>1, FindsLast
  <2>. QED BY <1>1, <2>1, <2>2 DEF Meaning
<1>7. Meaning(new, e.name) = [value |-> e.value, constant |-> e.constant]
  BY <1>1, <1>5 DEF Meaning
<1>8. Found(new, e.name) /\ e.name \in Name
  BY <1>2 DEF IsLast, Found, Entry
<1>9. {m \in Name : Found(new, m)} = {m \in Name : Found(arr, m)} \union {e.name}
  BY <1>3, <1>8
<1>10. /\ DOMAIN Meanings(new) = DOMAIN Meanings(arr) \union {e.name}
       /\ Meanings(new)[e.name] = [value |-> e.value, constant |-> e.constant]
       /\ \A m \in DOMAIN Meanings(arr) : m # e.name => Meanings(new)[m] = Meanings(arr)[m]
  BY <1>6, <1>7, <1>8, <1>9 DEF Meanings
<1>. QED BY <1>1, <1>4, <1>10 DEF Changes

\* What global_set_at does at the entry of a name.
LEMMA SetAtMeanings ==
  ASSUME NEW arr \in Seq(Entry), Sought(arr), NEW n \in Name, Found(arr, n), NEW v \in Value,
         NEW new, new = [arr EXCEPT ![GlobalFind(arr, n)].value = v]
  PROVE  /\ Len(new) = Len(arr)
         /\ Changes(arr, new, n, [value |-> v, constant |-> arr[GlobalFind(arr, n)].constant])
<1>. DEFINE at == GlobalFind(arr, n)
            e == [name |-> arr[at].name, value |-> v, constant |-> arr[at].constant]
<1>1. IsLast(arr, n, at) /\ at \in 1..Len(arr)
  BY FoundIsLast
<1>2. arr[at] \in Entry /\ e \in Entry /\ arr[at].name = n
  <2>. HIDE DEF at
  <2>1. arr[at] \in Entry
    BY <1>1
  <2>. QED BY <1>1, <2>1 DEF Entry, IsLast
<1>3. /\ new \in Seq(Entry) /\ Len(new) = Len(arr) /\ new[at] = e
      /\ \A i \in 1..Len(arr) : i # at => new[i] = arr[i]
  <2>. HIDE DEF at
  <2>1. new = [arr EXCEPT ![at] = [@ EXCEPT !.value = v]]
    BY DEF at
  <2>2. [arr[at] EXCEPT !.value = v] = e
    BY <1>2 DEF Entry
  <2>3. new = [arr EXCEPT ![at] = e]
    BY <2>1, <2>2
  <2>4. at \in 1..Len(arr) /\ e \in Entry
    BY <1>1, <1>2
  <2>. HIDE DEF e
  <2>5. arr \in [1..Len(arr) -> Entry] /\ Len(arr) \in Nat
    OBVIOUS
  <2>6. new \in [1..Len(arr) -> Entry] /\ new[at] = e
        /\ \A i \in 1..Len(arr) : i # at => new[i] = arr[i]
    BY <2>3, <2>4, <2>5
  <2>7. new \in Seq(Entry) /\ Len(new) = Len(arr)
    BY <2>5, <2>6
  <2>. QED BY <2>6, <2>7
<1>. HIDE DEF at
<1>4. \A i \in 1..Len(arr) : new[i].name = arr[i].name
  BY <1>2, <1>3
<1>5. \A m : Found(new, m) <=> Found(arr, m)
  BY <1>3, <1>4 DEF Found
<1>6. \A m, i : IsLast(new, m, i) <=> IsLast(arr, m, i)
  BY <1>3, <1>4 DEF IsLast
<1>7. Sought(new)
  BY <1>5, <1>6 DEF Sought
<1>8. ASSUME NEW m, Found(arr, m)
      PROVE  GlobalFind(new, m) = GlobalFind(arr, m)
  BY <1>3, <1>6, <1>8, FoundIsLast, FindsLast
<1>9. ASSUME NEW m, m # n, Found(arr, m)
      PROVE  Meaning(new, m) = Meaning(arr, m)
  <2>1. GlobalFind(arr, m) # at /\ GlobalFind(arr, m) \in 1..Len(arr)
    BY <1>2, <1>9, FoundIsLast DEF IsLast
  <2>. QED BY <1>3, <1>8, <1>9, <2>1 DEF Meaning
<1>10. Meaning(new, n) = [value |-> v, constant |-> arr[at].constant]
  BY <1>2, <1>3, <1>8 DEF Meaning, at
<1>11. /\ DOMAIN Meanings(new) = DOMAIN Meanings(arr) \union {n}
       /\ Meanings(new)[n] = [value |-> v, constant |-> arr[at].constant]
       /\ \A m \in DOMAIN Meanings(arr) : m # n => Meanings(new)[m] = Meanings(arr)[m]
  BY <1>5, <1>9, <1>10 DEF Meanings
<1>. QED BY <1>3, <1>7, <1>11 DEF at, Changes

-----------------------------------------------------------------------------
(***************************************************************************)
(* The invariant, and what each instruction is in the abstraction.         *)
(***************************************************************************)

LEMMA InitSane == GlobalsInit => Sane
<1>. SUFFICES ASSUME GlobalsInit PROVE Sane
  OBVIOUS
<1>1. TypeOK
  BY NativesAssumption DEF GlobalsInit, TypeOK
<1>2. Sought(globals)
  BY NativesAssumption DEF GlobalsInit, Sought, Found, IsLast
<1>. QED BY <1>1, <1>2 DEF Sane

LEMMA InitRefines == GlobalsInit => Abstract!Init
<1>. SUFFICES ASSUME GlobalsInit PROVE Abstract!Init
  OBVIOUS
<1>. DEFINE names == {Natives[i].name : i \in 1..Len(Natives)}
            index(n) == CHOOSE i \in 1..Len(Natives) : Natives[i].name = n
<1>1. {m \in Name : Found(Natives, m)} = names
  <2>1. \A i \in 1..Len(Natives) : Natives[i] \in Entry
    BY NativesAssumption
  <2>. QED BY <2>1 DEF Found, Entry
<1>2. ASSUME NEW n \in names PROVE GlobalFind(Natives, n) = index(n)
  <2>1. PICK i \in 1..Len(Natives) : Natives[i].name = n
    OBVIOUS
  <2>2. \A j \in 1..Len(Natives) : Natives[j].name = n => j = i
    BY <2>1, NativesAssumption
  <2>3. IsLast(Natives, n, i)
    BY <2>1, <2>2, NativesAssumption DEF IsLast
  <2>4. GlobalFind(Natives, n) = i
    BY <2>3, FindsLast, NativesAssumption
  <2>5. index(n) = i
    BY <2>1, <2>2
  <2>. QED BY <2>4, <2>5
<1>3. Meanings(Natives) = [n \in names |-> [value |-> Natives[index(n)].value,
                                            constant |-> Natives[index(n)].constant]]
  BY <1>1, <1>2 DEF Meanings, Meaning
<1>. QED BY <1>3 DEF GlobalsInit, Abstract!Init

LEMMA DefineStep ==
  ASSUME Sane, NEW n \in Name, NEW v \in Value, NEW c \in BOOLEAN, DefineGlobal(n, v, c)
  PROVE  Sane' /\ (Abstract!Define(n, v, c) \/ Abstract!Lose(n, v, c))
<1>. DEFINE e == [name |-> n, value |-> v, constant |-> c]
<1>1. CASE Len(globals) = Capacity
  BY <1>1 DEF Sane, TypeOK, DefineGlobal, GlobalSet, Gives, Goes, Abstract!Lose, Abstract!Gives
<1>2. CASE Len(globals) # Capacity
  <2>1. globals' = Append(globals, e) /\ e \in Entry
    BY <1>2 DEF DefineGlobal, GlobalSet, Entry
  <2>2. globals \in Seq(Entry) /\ Sought(globals) /\ Len(globals) \in Nat
        /\ Capacity \in Nat /\ Len(globals) < Capacity
    BY <1>2, NativesAssumption DEF Sane, TypeOK
  <2>3. Len(globals') = Len(globals) + 1
        /\ Changes(globals, globals', n, [value |-> v, constant |-> c])
    <3>1. e.name = n /\ e.value = v /\ e.constant = c
      OBVIOUS
    <3>. HIDE DEF e
    <3>2. Len(globals') = Len(globals) + 1
          /\ Changes(globals, globals', e.name, [value |-> e.value, constant |-> e.constant])
      BY <2>1, <2>2, AppendMeanings
    <3>. QED BY <3>1, <3>2
  <2>4. Sane'
    BY <2>2, <2>3 DEF Sane, TypeOK, DefineGlobal, Gives, Goes, Changes
  <2>5. Abstract!Define(n, v, c)
    BY <2>2, <2>3, MeaningsAreFunction
       DEF DefineGlobal, Gives, Changes, Abstract!Define, Abstract!Gives
  <2>. QED BY <2>4, <2>5
<1>. QED BY <1>1, <1>2

LEMMA GetStep ==
  ASSUME Sane, NEW n \in Name, GetGlobal(n)
  PROVE  Sane' /\ (Abstract!Read(n) \/ Abstract!Refuse(n))
<1>1. UNCHANGED globals
  BY DEF GetGlobal
<1>2. CASE Found(globals, n)
  <2>1. globals[GlobalFind(globals, n)] \in Entry
    BY <1>2, FoundIsLast DEF Sane, TypeOK
  <2>2. Meanings(globals)[n].value = globals[GlobalFind(globals, n)].value
        /\ n \in DOMAIN Meanings(globals)
    BY <1>2 DEF Meanings, Meaning
  <2>3. Sane'
    BY <1>1, <1>2, <2>1 DEF Sane, TypeOK, GetGlobal, Gives, Goes, Entry
  <2>4. Abstract!Read(n)
    BY <1>1, <1>2, <2>2 DEF GetGlobal, Gives, Abstract!Read, Abstract!Gives
  <2>. QED BY <2>3, <2>4
<1>3. CASE ~Found(globals, n)
  <2>1. Sane'
    BY <1>1, <1>3 DEF Sane, TypeOK, GetGlobal, Gives, Returns
  <2>2. Abstract!Refuse(n)
    BY <1>1, <1>3 DEF Meanings, GetGlobal, Gives, Abstract!Refuse, Abstract!Gives
  <2>. QED BY <2>1, <2>2
<1>. QED BY <1>2, <1>3

LEMMA SetStep ==
  ASSUME Sane, NEW n \in Name, NEW v \in Value, SetGlobal(n, v)
  PROVE  Sane' /\ (Abstract!Assign(n, v) \/ Abstract!Refuse(n))
<1>1. CASE ~Found(globals, n)
  <2>1. Sane'
    BY <1>1 DEF Sane, TypeOK, SetGlobal, Gives, Returns
  <2>2. Abstract!Refuse(n)
    BY <1>1 DEF Meanings, SetGlobal, Gives, Abstract!Refuse, Abstract!Gives
  <2>. QED BY <2>1, <2>2
<1>2. ASSUME Found(globals, n)
      PROVE  /\ n \in DOMAIN Meanings(globals)
             /\ Meanings(globals)[n].constant = globals[GlobalFind(globals, n)].constant
  BY <1>2 DEF Meanings, Meaning
<1>3. CASE Found(globals, n) /\ globals[GlobalFind(globals, n)].constant
  <2>1. Sane'
    BY <1>3 DEF Sane, TypeOK, SetGlobal, Gives, Returns
  <2>2. Abstract!Refuse(n)
    BY <1>2, <1>3 DEF SetGlobal, Gives, Abstract!Refuse, Abstract!Gives
  <2>. QED BY <2>1, <2>2
<1>4. CASE Found(globals, n) /\ ~globals[GlobalFind(globals, n)].constant
  <2>1. /\ globals' = [globals EXCEPT ![GlobalFind(globals, n)].value = v]
        /\ Gives("value", n, v) /\ Goes
    BY <1>4 DEF SetGlobal, GlobalSetAt
  <2>2. Len(globals') = Len(globals)
        /\ Changes(globals, globals', n, [value |-> v, constant |-> FALSE])
    <3>1. globals \in Seq(Entry) /\ Sought(globals)
      BY DEF Sane, TypeOK
    <3>2. globals[GlobalFind(globals, n)].constant = FALSE
      BY <1>4, <3>1, FoundIsLast DEF Entry
    <3>. QED BY <1>4, <2>1, <3>1, <3>2, SetAtMeanings
  <2>3. Sane'
    BY <2>1, <2>2 DEF Sane, TypeOK, Gives, Goes, Changes
  <2>4. Abstract!Assign(n, v)
    BY <1>2, <1>4, <2>1, <2>2, MeaningsAreFunction
       DEF Gives, Changes, Abstract!Assign, Abstract!Gives
  <2>. QED BY <2>3, <2>4
<1>. QED BY <1>1, <1>3, <1>4

\* What main and interpret do between the instructions.
LEMMA SessionStep ==
  ASSUME Sane, Interpret \/ Stop \/ Leave \/ UNCHANGED globalsVars
  PROVE  Sane' /\ UNCHANGED Abstract!vars
BY DEF Sane, TypeOK, Interpret, Stop, Leave, Returns, globalsVars, Abstract!vars

LEMMA GlobalsStep == Sane /\ [GlobalsNext]_globalsVars => Sane' /\ [Abstract!Next]_Abstract!vars
BY DefineStep, GetStep, SetStep, SessionStep DEF GlobalsNext, Abstract!Next

-----------------------------------------------------------------------------

LEMMA AlwaysSane == GlobalsSpec => []Sane
BY InitSane, GlobalsStep, PTL DEF GlobalsSpec

\* Every variable has its type; the array never outgrows its capacity, and a session
\* of the REPL ends well whatever its lines end with.
THEOREM TypeCorrect == GlobalsSpec => []TypeOK
<1>1. Sane => TypeOK
  BY DEF Sane
<1>. QED BY <1>1, AlwaysSane, PTL

\* The array with repeated names, searched from its end, is a map from each name to
\* its last definition, in which constants are not assigned.
THEOREM GlobalsImplementVariables == GlobalsSpec => ImplementsVariables
BY InitRefines, AlwaysSane, GlobalsStep, PTL
   DEF GlobalsSpec, ImplementsVariables, Abstract!Spec

-----------------------------------------------------------------------------
(***************************************************************************)
(* Items and lists of items by what they do to the chain of compilers, the *)
(* depth of each and the actors: a plain item nothing at all, once the     *)
(* procedures it calls have returned.                                      *)
(***************************************************************************)

List(t) == \E S : t \in Seq(S)

SimpleKinds ==
  { "advance", "consume", "parse", "infix", "error", "error_in", "emit", "emit_name", "emit_call",
    "emit_return", "jump", "patch", "mark", "loop", "increment", "patch_exit", "count", "name",
    "declare", "define", "synchronize", "skip" }
Called ==
  { "declaration", "statement", "actor_declaration", "message", "message_function", "function",
    "fun_declaration", "var_declaration", "expression_statement", "block", "print", "for", "if",
    "while", "return" }
Repeated == {"arguments", "declarations", "messages"}

Simple(item) ==
  \/ item[1] \in SimpleKinds
  \/ item[1] = "call" /\ item[2] \in Called
  \/ item[1] = "repeat" /\ item[2] \in Repeated
Simples(t) == List(t) /\ \A i \in 1..Len(t) : Simple(t[i])

\* A choice between simple continuations, and a choice between such choices: no item
\* of the procedures is nested deeper.
Choice(item) ==
  \/ item[1] = "choose" /\ (\A x \in DOMAIN item[2] : Simples(item[2][x])) /\ Simples(item[3])
  \/ item[1] = "check" /\ Simples(item[3][1]) /\ Simples(item[3][2])
Level1(item) == Simple(item) \/ Choice(item)
Levels1(t) == List(t) /\ \A i \in 1..Len(t) : Level1(t[i])

Plain(item) ==
  \/ Level1(item)
  \/ item[1] = "choose" /\ (\A x \in DOMAIN item[2] : Levels1(item[2][x])) /\ Levels1(item[3])
  \/ item[1] = "check" /\ Levels1(item[3][1]) /\ Levels1(item[3][2])
Plains(t) == List(t) /\ \A i \in 1..Len(t) : Plain(t[i])

\* The choice of a statement, of which one is a block, and what is done for parameters.
StatementChoice == Choose(StatementOf, <<Call("expression_statement")>>)
FirstParameters == Check({")"}, <<>>, <<Repeat("parameters")>>)
MoreParameters == Match(",", <<Repeat("parameters")>>, <<>>)
OfParameters(item) ==
  item[1] = "arity" \/ item \in {Repeat("parameters"), FirstParameters, MoreParameters}

-----------------------------------------------------------------------------
(***************************************************************************)
(* Levels: where the parser is in the nesting of actors, functions and     *)
(* blocks.  A list of items leads from one level to another; a procedure   *)
(* that may return in the middle of its list does so at the level at which *)
(* it would return at the end.                                             *)
(***************************************************************************)

AnyLevel == [actors : Nat, depths : Seq(Nat) \ {<<>>}]
Base == [actors |-> 0, depths |-> <<0>>]
Deeper(a, d) ==
  [actors |-> a.actors, depths |-> [a.depths EXCEPT ![Len(a.depths)] = @ + d]]
InActor(a, n) == [actors |-> a.actors + n, depths |-> a.depths]
InFunction(a) == [actors |-> a.actors, depths |-> Append(a.depths, 0)]
Outside(a) == [actors |-> a.actors, depths |-> Front(a.depths)]

\* The item leads from a to b in a procedure that returns at the level r.
Effect(item, a, b, r) ==
  \/ b = a /\ (Plain(item) \/ item = StatementChoice)
  \/ b = a /\ OfParameters(item) /\ Len(a.depths) > 1
  \/ b = a /\ item[1] = "prefix" /\ a = r
  \/ item[1] = "begin_scope" /\ b = Deeper(a, 1)
  \/ item[1] = "end_scope" /\ b = Deeper(a, -1)
  \/ item[1] = "enter_actor" /\ b = InActor(a, 1)
  \/ item[1] = "leave_actor" /\ b = InActor(a, -1)
  \/ item[1] = "init_compiler" /\ item[2] \in {"function", "message"} /\ b = InFunction(a)
  \/ item[1] = "end_compiler" /\ Len(a.depths) > 1 /\ b = Outside(a)

\* The levels between the items of t.
Levelled(t, g, r) ==
  /\ g \in [1..(Len(t) + 1) -> AnyLevel]
  /\ \A i \in 1..Len(t) : Effect(t[i], g[i], g[i + 1], r)
Path(t, a, b, r) ==
  List(t) /\ \E g : Levelled(t, g, r) /\ g[1] = a /\ g[Len(t) + 1] = b

-----------------------------------------------------------------------------
(***************************************************************************)
(* Lists.                                                                  *)
(***************************************************************************)

LEMMA TailIs ==
  ASSUME NEW t, List(t), t # <<>>
  PROVE  /\ List(Tail(t)) /\ Len(t) \in Nat /\ Len(t) >= 1 /\ Len(Tail(t)) = Len(t) - 1
         /\ Head(t) = t[1] /\ \A i \in 1..(Len(t) - 1) : Tail(t)[i] = t[i + 1]
<1>1. PICK S : t \in Seq(S)
  BY DEF List
<1>2. Tail(t) \in Seq(S)
  BY <1>1
<1>. QED BY <1>1, <1>2 DEF List

LEMMA ListJoined ==
  ASSUME NEW s, NEW t, List(s), List(t)
  PROVE  /\ List(s \o t) /\ Len(s) \in Nat /\ Len(t) \in Nat /\ Len(s \o t) = Len(s) + Len(t)
         /\ \A i \in 1..Len(s) : (s \o t)[i] = s[i]
         /\ \A i \in 1..Len(t) : (s \o t)[Len(s) + i] = t[i]
<1>1. PICK S : s \in Seq(S)
  BY DEF List
<1>2. PICK T : t \in Seq(T)
  BY DEF List
<1>3. s \in Seq(S \union T) /\ t \in Seq(S \union T)
  <2>1. S \subseteq S \union T /\ T \subseteq S \union T
    OBVIOUS
  <2>. QED BY <1>1, <1>2, <2>1, SeqOfMore
<1>4. s \o t \in Seq(S \union T)
  BY <1>3
<1>. QED BY <1>3, <1>4 DEF List

LEMMA ListLength == ASSUME NEW t, List(t) PROVE Len(t) \in Nat
BY DEF List

LEMMA EmptyList == List(<<>>) /\ Len(<<>>) = 0
<1>1. <<>> \in Seq({})
  OBVIOUS
<1>. QED BY <1>1 DEF List

-----------------------------------------------------------------------------
(***************************************************************************)
(* Paths.                                                                  *)
(***************************************************************************)

LEMMA PathNone ==
  ASSUME NEW a \in AnyLevel, NEW b, NEW r
  PROVE  Path(<<>>, a, b, r) <=> b = a
<1>1. ASSUME Path(<<>>, a, b, r) PROVE b = a
  BY <1>1, EmptyList DEF Path
<1>2. Path(<<>>, a, a, r)
  <2>1. PICK g : g = [i \in 1..1 |-> a]
    OBVIOUS
  <2>2. g \in [1..(Len(<<>>) + 1) -> AnyLevel] /\ g[1] = a /\ g[Len(<<>>) + 1] = a
    BY <2>1, EmptyList
  <2>3. \A i \in 1..Len(<<>>) : Effect(<<>>[i], g[i], g[i + 1], r)
    BY EmptyList
  <2>. QED BY <2>2, <2>3, EmptyList DEF Path, Levelled
<1>. QED BY <1>1, <1>2

LEMMA PathEnds ==
  ASSUME NEW t, NEW a, NEW b, NEW r, Path(t, a, b, r)
  PROVE  List(t) /\ a \in AnyLevel /\ b \in AnyLevel
<1>1. PICK g : Levelled(t, g, r) /\ g[1] = a /\ g[Len(t) + 1] = b
  BY DEF Path
<1>2. List(t) /\ Len(t) \in Nat
  BY ListLength DEF Path
<1>3. 1 \in 1..(Len(t) + 1) /\ Len(t) + 1 \in 1..(Len(t) + 1)
  BY <1>2
<1>. QED BY <1>1, <1>2, <1>3 DEF Levelled

\* The first item of a list leads to a level, and the rest goes on from there.
LEMMA PathHead ==
  ASSUME NEW t, NEW a, NEW b, NEW r, Path(t, a, b, r), t # <<>>
  PROVE  \E c \in AnyLevel : Effect(Head(t), a, c, r) /\ Path(Tail(t), c, b, r)
<1>1. List(t)
  BY DEF Path
<1>2. PICK g : Levelled(t, g, r) /\ g[1] = a /\ g[Len(t) + 1] = b
  BY DEF Path
<1>3. /\ List(Tail(t)) /\ Len(t) \in Nat /\ Len(t) >= 1 /\ Len(Tail(t)) = Len(t) - 1
      /\ Head(t) = t[1] /\ \A i \in 1..(Len(t) - 1) : Tail(t)[i] = t[i + 1]
  BY <1>1, TailIs
<1>4. PICK n \in Nat : n = Len(t) - 1
  <2>1. Len(t) \in Nat /\ Len(t) >= 1
    BY <1>3
  <2>2. Len(t) - 1 \in Nat
    BY <2>1
  <2>. QED BY <2>2, Zenon
<1>5. /\ Len(t) = n + 1 /\ Len(Tail(t)) = n /\ \A i \in 1..n : Tail(t)[i] = t[i + 1]
  BY <1>3, <1>4
<1>6. /\ g \in [1..(n + 2) -> AnyLevel] /\ g[n + 2] = b
      /\ \A i \in 1..(n + 1) : Effect(t[i], g[i], g[i + 1], r)
  BY <1>2, <1>5 DEF Levelled
<1>7. PICK h : h = [i \in 1..(n + 1) |-> g[i + 1]]
  OBVIOUS
<1>8. h \in [1..(n + 1) -> AnyLevel] /\ h[1] = g[2] /\ h[n + 1] = b /\ g[2] \in AnyLevel
  BY <1>6, <1>7
<1>9. ASSUME NEW i \in 1..n PROVE Effect(Tail(t)[i], h[i], h[i + 1], r)
  <2>1. i + 1 \in 1..(n + 1) /\ i \in 1..(n + 1)
    OBVIOUS
  <2>2. Tail(t)[i] = t[i + 1] /\ h[i] = g[i + 1] /\ h[i + 1] = g[(i + 1) + 1]
    BY <1>5, <1>7, <2>1
  <2>3. Effect(t[i + 1], g[i + 1], g[(i + 1) + 1], r)
    BY <1>6, <2>1
  <2>. QED BY <2>2, <2>3, Zenon
<1>10. Path(Tail(t), g[2], b, r)
  <2>1. Levelled(Tail(t), h, r)
    BY <1>5, <1>8, <1>9 DEF Levelled
  <2>. QED BY <1>3, <1>5, <1>8, <2>1 DEF Path
<1>11. Effect(Head(t), a, g[2], r)
  <2>1. Effect(t[1], g[1], g[1 + 1], r) /\ 1 + 1 = 2
    BY <1>6
  <2>. QED BY <1>2, <1>3, <2>1
<1>. QED BY <1>8, <1>10, <1>11

LEMMA PathJoined ==
  ASSUME NEW s, NEW t, NEW a, NEW b, NEW c, NEW r, Path(s, a, b, r), Path(t, b, c, r)
  PROVE  Path(s \o t, a, c, r)
<1>1. List(s) /\ List(t)
  BY DEF Path
<1>2. PICK g : Levelled(s, g, r) /\ g[1] = a /\ g[Len(s) + 1] = b
  BY DEF Path
<1>3. PICK h : Levelled(t, h, r) /\ h[1] = b /\ h[Len(t) + 1] = c
  BY DEF Path
<1>4. PICK u : u = s \o t
  BY Zenon
<1>5. PICK m \in Nat : m = Len(s)
  BY <1>1, ListLength
<1>6. PICK n \in Nat : n = Len(t)
  BY <1>1, ListLength
<1>7. /\ List(u) /\ Len(u) = m + n
      /\ \A i \in 1..m : u[i] = s[i]
      /\ \A i \in 1..n : u[m + i] = t[i]
  BY <1>1, <1>4, <1>5, <1>6, ListJoined
<1>8. PICK f : f = [i \in 1..(m + n + 1) |-> IF i <= m THEN g[i] ELSE h[i - m]]
  OBVIOUS
<1>9. /\ g \in [1..(m + 1) -> AnyLevel] /\ h \in [1..(n + 1) -> AnyLevel] /\ g[m + 1] = h[1]
      /\ h[n + 1] = c
      /\ \A i \in 1..m : Effect(s[i], g[i], g[i + 1], r)
      /\ \A i \in 1..n : Effect(t[i], h[i], h[i + 1], r)
  BY <1>2, <1>3, <1>5, <1>6 DEF Levelled
<1>10. /\ f \in [1..(m + n + 1) -> AnyLevel] /\ f[m + n + 1] = c
       /\ \A i \in 1..(m + 1) : f[i] = g[i]
       /\ \A i \in 1..(n + 1) : f[m + i] = h[i]
  <2>1. \A i \in 1..m : g[i] \in AnyLevel
    BY <1>9
  <2>2. \A i \in 1..(m + n + 1) : ~(i <= m) => i - m \in 1..(n + 1)
    OBVIOUS
  <2>3. \A i \in 1..(n + 1) : h[i] \in AnyLevel
    BY <1>9
  <2>4. f \in [1..(m + n + 1) -> AnyLevel]
    BY <1>8, <2>1, <2>2, <2>3
  <2>5. \A i \in 1..(n + 1) : m + i \in 1..(m + n + 1) /\ ~(m + i <= m) /\ (m + i) - m = i
    OBVIOUS
  <2>6. \A i \in 1..(n + 1) : f[m + i] = h[i]
    BY <1>8, <2>5
  <2>7. \A i \in 1..m : f[i] = g[i]
    BY <1>8
  <2>8. f[m + 1] = g[m + 1]
    BY <1>9, <2>6
  <2>9. f[m + n + 1] = c
    BY <1>9, <2>6
  <2>. QED BY <2>4, <2>6, <2>7, <2>8, <2>9
<1>11. ASSUME NEW i \in 1..(m + n) PROVE Effect(u[i], f[i], f[i + 1], r)
  <2>1. CASE i <= m
    <3>1. i \in 1..m /\ i \in 1..(m + 1) /\ i + 1 \in 1..(m + 1)
      BY <2>1
    <3>2. u[i] = s[i] /\ f[i] = g[i] /\ f[i + 1] = g[i + 1]
      BY <1>7, <1>10, <3>1
    <3>. QED BY <1>9, <3>1, <3>2
  <2>2. CASE ~(i <= m)
    <3>1. PICK j \in 1..n : i = m + j
      <4>1. i - m \in 1..n /\ i = m + (i - m)
        BY <2>2
      <4>. QED BY <4>1
    <3>2. j \in 1..(n + 1) /\ j + 1 \in 1..(n + 1) /\ m + (j + 1) = i + 1
      BY <3>1
    <3>3. u[i] = t[j] /\ f[i] = h[j] /\ f[i + 1] = h[j + 1]
      BY <1>7, <1>10, <3>1, <3>2
    <3>. QED BY <1>9, <3>1, <3>3
  <2>. QED BY <2>1, <2>2
<1>12. Levelled(u, f, r)
  BY <1>7, <1>10, <1>11 DEF Levelled
<1>13. f[1] = a /\ f[Len(u) + 1] = c
  <2>1. 1 \in 1..(m + 1)
    OBVIOUS
  <2>. QED BY <1>2, <1>7, <1>10, <2>1
<1>. QED BY <1>4, <1>7, <1>12, <1>13, Zenon DEF Path

\* Plain items lead nowhere.
LEMMA PlainPath ==
  ASSUME NEW t, Plains(t), NEW a \in AnyLevel, NEW r
  PROVE  Path(t, a, a, r)
<1>1. List(t) /\ Len(t) \in Nat /\ \A i \in 1..Len(t) : Plain(t[i])
  BY ListLength DEF Plains
<1>2. PICK g : g = [i \in 1..(Len(t) + 1) |-> a]
  OBVIOUS
<1>3. g[1] = a /\ g[Len(t) + 1] = a /\ g \in [1..(Len(t) + 1) -> AnyLevel]
  BY <1>1, <1>2
<1>4. ASSUME NEW i \in 1..Len(t) PROVE Effect(t[i], g[i], g[i + 1], r)
  <2>1. i \in 1..(Len(t) + 1) /\ i + 1 \in 1..(Len(t) + 1)
    BY <1>1
  <2>2. g[i] = a /\ g[i + 1] = a
    BY <1>2, <2>1
  <2>. QED BY <1>1, <2>2 DEF Effect
<1>. QED BY <1>1, <1>3, <1>4 DEF Path, Levelled

LEMMA PathOne ==
  ASSUME NEW x, NEW a \in AnyLevel, NEW b \in AnyLevel, NEW r, Effect(x, a, b, r)
  PROVE  Path(<<x>>, a, b, r)
<1>1. PICK t : t = <<x>>
  OBVIOUS
<1>2. List(t) /\ Len(t) = 1 /\ t[1] = x
  <2>1. t \in Seq({x})
    BY <1>1
  <2>. QED BY <1>1, <2>1 DEF List
<1>3. PICK g : g = [i \in 1..2 |-> IF i = 1 THEN a ELSE b]
  OBVIOUS
<1>4. g \in [1..(Len(t) + 1) -> AnyLevel] /\ g[1] = a /\ g[Len(t) + 1] = b
  BY <1>2, <1>3
<1>5. ASSUME NEW i \in 1..Len(t) PROVE Effect(t[i], g[i], g[i + 1], r)
  <2>1. i = 1
    BY <1>2
  <2>. QED BY <1>2, <1>3, <2>1
<1>6. Path(t, a, b, r)
  BY <1>2, <1>4, <1>5 DEF Path, Levelled
<1>. QED BY <1>1, <1>6, Zenon

-----------------------------------------------------------------------------
(***************************************************************************)
(* The items of the procedures.                                            *)
(***************************************************************************)

LEMMA SimpleItems ==
  /\ Simple(Advance) /\ Simple(Error) /\ Simple(Expression)
  /\ \A x : /\ Simple(Consume(x)) /\ Simple(Parse(x)) /\ Simple(ErrorIn(x)) /\ Simple(Emit(x))
            /\ Simple(EmitName(x)) /\ Simple(EmitCall(x)) /\ Simple(Patch(x)) /\ Simple(Mark(x))
            /\ Simple(Loop(x)) /\ Simple(Item("infix", x, 0))
  /\ \A x, y : Simple(EmitWith(x, y)) /\ Simple(Jump(x, y))
  /\ \A x \in SimpleKinds : Simple(Do(x))
  /\ \A x \in Called : Simple(Call(x))
  /\ \A x \in Repeated : Simple(Repeat(x))
BY DEF Simple, SimpleKinds, Item, Advance, Error, Expression, Consume, Parse, ErrorIn, Emit,
       EmitName, EmitCall, Patch, Mark, Loop, EmitWith, Jump, Do, Call, Repeat

LEMMA SimpleDone ==
  /\ Simple(Do("count")) /\ Simple(Do("name")) /\ Simple(Do("declare")) /\ Simple(Do("define"))
  /\ Simple(Do("synchronize")) /\ Simple(Do("skip")) /\ Simple(Do("emit_return"))
  /\ Simple(Do("increment")) /\ Simple(Do("patch_exit"))
BY SimpleItems DEF SimpleKinds

LEMMA SimpleCalls ==
  /\ Simple(Call("declaration")) /\ Simple(Call("statement"))
  /\ Simple(Call("actor_declaration")) /\ Simple(Call("message"))
  /\ Simple(Call("message_function")) /\ Simple(Call("function"))
  /\ Simple(Call("fun_declaration")) /\ Simple(Call("var_declaration"))
  /\ Simple(Call("expression_statement")) /\ Simple(Call("block"))
  /\ Simple(Call("print")) /\ Simple(Call("for")) /\ Simple(Call("if"))
  /\ Simple(Call("while")) /\ Simple(Call("return"))
  /\ Simple(Repeat("arguments")) /\ Simple(Repeat("declarations")) /\ Simple(Repeat("messages"))
BY SimpleItems DEF Called, Repeated

LEMMA PlainOfSimple == \A x : (Simple(x) => Level1(x)) /\ (Level1(x) => Plain(x))
BY DEF Level1, Plain

\* A choice by one token, by several, or by a look at the next one.
LEMMA MatchLevel ==
  ASSUME NEW type, NEW then, NEW otherwise, Simples(then), Simples(otherwise)
  PROVE  Level1(Match(type, then, otherwise))
<1>1. PICK m : m = Match(type, then, otherwise)
  BY Zenon
<1>2. m[1] = "choose" /\ m[2] = [t \in {type} |-> then] /\ m[3] = otherwise
  BY <1>1 DEF Match, Choose, Item
<1>3. \A x \in DOMAIN m[2] : m[2][x] = then
  BY <1>2
<1>. QED BY <1>1, <1>2, <1>3 DEF Level1, Choice

LEMMA MatchPlain ==
  ASSUME NEW type, NEW then, NEW otherwise, Levels1(then), Levels1(otherwise)
  PROVE  Plain(Match(type, then, otherwise))
<1>1. PICK m : m = Match(type, then, otherwise)
  BY Zenon
<1>2. m[1] = "choose" /\ m[2] = [t \in {type} |-> then] /\ m[3] = otherwise
  BY <1>1 DEF Match, Choose, Item
<1>3. \A x \in DOMAIN m[2] : m[2][x] = then
  BY <1>2
<1>. QED BY <1>1, <1>2, <1>3 DEF Plain

LEMMA CheckLevel ==
  ASSUME NEW types, NEW then, NEW otherwise, Simples(then), Simples(otherwise)
  PROVE  Level1(Check(types, then, otherwise))
<1>1. PICK m : m = Check(types, then, otherwise)
  BY Zenon
<1>2. m[1] = "check" /\ m[3][1] = then /\ m[3][2] = otherwise
  BY <1>1 DEF Check, Item
<1>. QED BY <1>1, <1>2 DEF Level1, Choice

LEMMA ListOfOne ==
  ASSUME NEW x1, NEW t, t = <<x1>>
  PROVE  List(t) /\ \A i \in 1..Len(t) : t[i] = x1
<1>1. t \in Seq({x1}) /\ Len(t) = 1
  OBVIOUS
<1>2. t[1] = x1
  OBVIOUS
<1>3. \A i \in 1..Len(t) : i = 1
  BY <1>1
<1>. QED BY <1>1, <1>2, <1>3, Zenon DEF List

LEMMA ListOfTwo ==
  ASSUME NEW x1, NEW x2, NEW t, t = <<x1, x2>>
  PROVE  List(t) /\ \A i \in 1..Len(t) : t[i] = x1 \/ t[i] = x2
<1>1. t \in Seq({x1, x2}) /\ Len(t) = 2
  OBVIOUS
<1>2. t[1] = x1 /\ t[2] = x2
  OBVIOUS
<1>3. \A i \in 1..Len(t) : i = 1 \/ i = 2
  BY <1>1
<1>. QED BY <1>1, <1>2, <1>3, Zenon DEF List

LEMMA ListOfThree ==
  ASSUME NEW x1, NEW x2, NEW x3, NEW t, t = <<x1, x2, x3>>
  PROVE  List(t) /\ \A i \in 1..Len(t) : t[i] = x1 \/ t[i] = x2 \/ t[i] = x3
<1>1. t \in Seq({x1, x2, x3}) /\ Len(t) = 3
  OBVIOUS
<1>2. t[1] = x1 /\ t[2] = x2 /\ t[3] = x3
  OBVIOUS
<1>3. \A i \in 1..Len(t) : i = 1 \/ i = 2 \/ i = 3
  BY <1>1
<1>. QED BY <1>1, <1>2, <1>3, Zenon DEF List

LEMMA ListOfFour ==
  ASSUME NEW x1, NEW x2, NEW x3, NEW x4, NEW t, t = <<x1, x2, x3, x4>>
  PROVE  List(t) /\ \A i \in 1..Len(t) : t[i] = x1 \/ t[i] = x2 \/ t[i] = x3 \/ t[i] = x4
<1>1. t \in Seq({x1, x2, x3, x4}) /\ Len(t) = 4
  OBVIOUS
<1>2. t[1] = x1 /\ t[2] = x2 /\ t[3] = x3 /\ t[4] = x4
  OBVIOUS
<1>3. \A i \in 1..Len(t) : i = 1 \/ i = 2 \/ i = 3 \/ i = 4
  BY <1>1
<1>. QED BY <1>1, <1>2, <1>3, Zenon DEF List

LEMMA ListOfSix ==
  ASSUME NEW x1, NEW x2, NEW x3, NEW x4, NEW x5, NEW x6, NEW t, t = <<x1, x2, x3, x4, x5, x6>>
  PROVE  /\ List(t)
         /\ \A i \in 1..Len(t) : \/ t[i] = x1 \/ t[i] = x2 \/ t[i] = x3
                                  \/ t[i] = x4 \/ t[i] = x5 \/ t[i] = x6
<1>1. t \in Seq({x1, x2, x3, x4, x5, x6}) /\ Len(t) = 6
  OBVIOUS
<1>2. t[1] = x1 /\ t[2] = x2 /\ t[3] = x3 /\ t[4] = x4 /\ t[5] = x5 /\ t[6] = x6
  OBVIOUS
<1>3. \A i \in 1..Len(t) : i = 1 \/ i = 2 \/ i = 3 \/ i = 4 \/ i = 5 \/ i = 6
  BY <1>1
<1>. QED BY <1>1, <1>2, <1>3, Zenon DEF List

LEMMA ListOfEight ==
  ASSUME NEW x1, NEW x2, NEW x3, NEW x4, NEW x5, NEW x6, NEW x7, NEW x8,
         NEW t, t = <<x1, x2, x3, x4, x5, x6, x7, x8>>
  PROVE  /\ List(t)
         /\ \A i \in 1..Len(t) : \/ t[i] = x1 \/ t[i] = x2 \/ t[i] = x3 \/ t[i] = x4
                                  \/ t[i] = x5 \/ t[i] = x6 \/ t[i] = x7 \/ t[i] = x8
<1>1. t \in Seq({x1, x2, x3, x4, x5, x6, x7, x8}) /\ Len(t) = 8
  OBVIOUS
<1>2. /\ t[1] = x1 /\ t[2] = x2 /\ t[3] = x3 /\ t[4] = x4
      /\ t[5] = x5 /\ t[6] = x6 /\ t[7] = x7 /\ t[8] = x8
  OBVIOUS
<1>3. \A i \in 1..Len(t) : \/ i = 1 \/ i = 2 \/ i = 3 \/ i = 4
                           \/ i = 5 \/ i = 6 \/ i = 7 \/ i = 8
  BY <1>1
<1>. QED BY <1>1, <1>2, <1>3, Zenon DEF List

LEMMA SimpleLists ==
  /\ Simples(<<>>)
  /\ \A x1 : Simple(x1) => Simples(<<x1>>)
  /\ \A x1, x2 : Simple(x1) /\ Simple(x2) => Simples(<<x1, x2>>)
  /\ \A x1, x2, x3 : Simple(x1) /\ Simple(x2) /\ Simple(x3) => Simples(<<x1, x2, x3>>)
  /\ \A x1, x2, x3, x4 :
       Simple(x1) /\ Simple(x2) /\ Simple(x3) /\ Simple(x4)
         => Simples(<<x1, x2, x3, x4>>)
  /\ \A x1, x2, x3, x4, x5, x6, x7, x8 :
       Simple(x1) /\ Simple(x2) /\ Simple(x3) /\ Simple(x4)
         /\ Simple(x5) /\ Simple(x6) /\ Simple(x7) /\ Simple(x8)
         => Simples(<<x1, x2, x3, x4, x5, x6, x7, x8>>)
<1>1. Simples(<<>>)
  BY EmptyList DEF Simples
<1>2. ASSUME NEW x1, Simple(x1) PROVE Simples(<<x1>>)
  <2>1. PICK t : t = <<x1>>
    BY Zenon
  <2>2. List(t) /\ \A i \in 1..Len(t) : Simple(t[i])
    <3>1. List(t) /\ \A i \in 1..Len(t) : t[i] = x1
      BY <2>1, ListOfOne
    <3>. QED BY <1>2, <3>1, Zenon
  <2>. QED BY <2>1, <2>2, Zenon DEF Simples
<1>3. ASSUME NEW x1, Simple(x1), NEW x2, Simple(x2) PROVE Simples(<<x1, x2>>)
  <2>1. PICK t : t = <<x1, x2>>
    BY Zenon
  <2>2. List(t) /\ \A i \in 1..Len(t) : Simple(t[i])
    <3>1. List(t) /\ \A i \in 1..Len(t) : t[i] = x1 \/ t[i] = x2
      BY <2>1, ListOfTwo
    <3>. QED BY <1>3, <3>1, Zenon
  <2>. QED BY <2>1, <2>2, Zenon DEF Simples
<1>4. ASSUME NEW x1, Simple(x1), NEW x2, Simple(x2), NEW x3, Simple(x3) PROVE Simples(<<x1, x2, x3>>)
  <2>1. PICK t : t = <<x1, x2, x3>>
    BY Zenon
  <2>2. List(t) /\ \A i \in 1..Len(t) : Simple(t[i])
    <3>1. List(t) /\ \A i \in 1..Len(t) : t[i] = x1 \/ t[i] = x2 \/ t[i] = x3
      BY <2>1, ListOfThree
    <3>. QED BY <1>4, <3>1, Zenon
  <2>. QED BY <2>1, <2>2, Zenon DEF Simples
<1>5. ASSUME NEW x1, Simple(x1), NEW x2, Simple(x2),
             NEW x3, Simple(x3), NEW x4, Simple(x4)
      PROVE  Simples(<<x1, x2, x3, x4>>)
  <2>1. PICK t : t = <<x1, x2, x3, x4>>
    BY Zenon
  <2>2. List(t) /\ \A i \in 1..Len(t) : Simple(t[i])
    <3>1. List(t) /\ \A i \in 1..Len(t) : t[i] = x1 \/ t[i] = x2 \/ t[i] = x3 \/ t[i] = x4
      BY <2>1, ListOfFour
    <3>. QED BY <1>5, <3>1, Zenon
  <2>. QED BY <2>1, <2>2, Zenon DEF Simples
<1>6. ASSUME NEW x1, Simple(x1), NEW x2, Simple(x2), NEW x3, Simple(x3), NEW x4, Simple(x4),
             NEW x5, Simple(x5), NEW x6, Simple(x6), NEW x7, Simple(x7), NEW x8, Simple(x8)
      PROVE  Simples(<<x1, x2, x3, x4, x5, x6, x7, x8>>)
  <2>1. PICK t : t = <<x1, x2, x3, x4, x5, x6, x7, x8>>
    BY Zenon
  <2>2. List(t) /\ \A i \in 1..Len(t) : Simple(t[i])
    <3>1. List(t) /\ \A i \in 1..Len(t) : \/ t[i] = x1 \/ t[i] = x2 \/ t[i] = x3 \/ t[i] = x4
                                           \/ t[i] = x5 \/ t[i] = x6 \/ t[i] = x7 \/ t[i] = x8
      BY <2>1, ListOfEight
    <3>. QED BY <1>6, <3>1, Zenon
  <2>. QED BY <2>1, <2>2, Zenon DEF Simples
<1>. QED BY <1>1, <1>2, <1>3, <1>4, <1>5, <1>6, Zenon

LEMMA LevelLists ==
  /\ Levels1(<<>>)
  /\ \A x1 : Level1(x1) => Levels1(<<x1>>)
  /\ \A x1, x2 : Level1(x1) /\ Level1(x2) => Levels1(<<x1, x2>>)
  /\ \A x1, x2, x3 : Level1(x1) /\ Level1(x2) /\ Level1(x3) => Levels1(<<x1, x2, x3>>)
<1>1. Levels1(<<>>)
  BY EmptyList DEF Levels1
<1>2. ASSUME NEW x1, Level1(x1) PROVE Levels1(<<x1>>)
  <2>1. PICK t : t = <<x1>>
    BY Zenon
  <2>2. List(t) /\ \A i \in 1..Len(t) : Level1(t[i])
    <3>1. List(t) /\ \A i \in 1..Len(t) : t[i] = x1
      BY <2>1, ListOfOne
    <3>. QED BY <1>2, <3>1, Zenon
  <2>. QED BY <2>1, <2>2, Zenon DEF Levels1
<1>3. ASSUME NEW x1, Level1(x1), NEW x2, Level1(x2) PROVE Levels1(<<x1, x2>>)
  <2>1. PICK t : t = <<x1, x2>>
    BY Zenon
  <2>2. List(t) /\ \A i \in 1..Len(t) : Level1(t[i])
    <3>1. List(t) /\ \A i \in 1..Len(t) : t[i] = x1 \/ t[i] = x2
      BY <2>1, ListOfTwo
    <3>. QED BY <1>3, <3>1, Zenon
  <2>. QED BY <2>1, <2>2, Zenon DEF Levels1
<1>4. ASSUME NEW x1, Level1(x1), NEW x2, Level1(x2), NEW x3, Level1(x3) PROVE Levels1(<<x1, x2, x3>>)
  <2>1. PICK t : t = <<x1, x2, x3>>
    BY Zenon
  <2>2. List(t) /\ \A i \in 1..Len(t) : Level1(t[i])
    <3>1. List(t) /\ \A i \in 1..Len(t) : t[i] = x1 \/ t[i] = x2 \/ t[i] = x3
      BY <2>1, ListOfThree
    <3>. QED BY <1>4, <3>1, Zenon
  <2>. QED BY <2>1, <2>2, Zenon DEF Levels1
<1>. QED BY <1>1, <1>2, <1>3, <1>4, Zenon

LEMMA PlainLists ==
  /\ Plains(<<>>)
  /\ \A x1 : Plain(x1) => Plains(<<x1>>)
  /\ \A x1, x2 : Plain(x1) /\ Plain(x2) => Plains(<<x1, x2>>)
  /\ \A x1, x2, x3 : Plain(x1) /\ Plain(x2) /\ Plain(x3) => Plains(<<x1, x2, x3>>)
  /\ \A x1, x2, x3, x4 :
       Plain(x1) /\ Plain(x2) /\ Plain(x3) /\ Plain(x4)
         => Plains(<<x1, x2, x3, x4>>)
  /\ \A x1, x2, x3, x4, x5, x6 :
       Plain(x1) /\ Plain(x2) /\ Plain(x3) /\ Plain(x4) /\ Plain(x5) /\ Plain(x6)
         => Plains(<<x1, x2, x3, x4, x5, x6>>)
<1>1. Plains(<<>>)
  BY EmptyList DEF Plains
<1>2. ASSUME NEW x1, Plain(x1) PROVE Plains(<<x1>>)
  <2>1. PICK t : t = <<x1>>
    BY Zenon
  <2>2. List(t) /\ \A i \in 1..Len(t) : Plain(t[i])
    <3>1. List(t) /\ \A i \in 1..Len(t) : t[i] = x1
      BY <2>1, ListOfOne
    <3>. QED BY <1>2, <3>1, Zenon
  <2>. QED BY <2>1, <2>2, Zenon DEF Plains
<1>3. ASSUME NEW x1, Plain(x1), NEW x2, Plain(x2) PROVE Plains(<<x1, x2>>)
  <2>1. PICK t : t = <<x1, x2>>
    BY Zenon
  <2>2. List(t) /\ \A i \in 1..Len(t) : Plain(t[i])
    <3>1. List(t) /\ \A i \in 1..Len(t) : t[i] = x1 \/ t[i] = x2
      BY <2>1, ListOfTwo
    <3>. QED BY <1>3, <3>1, Zenon
  <2>. QED BY <2>1, <2>2, Zenon DEF Plains
<1>4. ASSUME NEW x1, Plain(x1), NEW x2, Plain(x2), NEW x3, Plain(x3) PROVE Plains(<<x1, x2, x3>>)
  <2>1. PICK t : t = <<x1, x2, x3>>
    BY Zenon
  <2>2. List(t) /\ \A i \in 1..Len(t) : Plain(t[i])
    <3>1. List(t) /\ \A i \in 1..Len(t) : t[i] = x1 \/ t[i] = x2 \/ t[i] = x3
      BY <2>1, ListOfThree
    <3>. QED BY <1>4, <3>1, Zenon
  <2>. QED BY <2>1, <2>2, Zenon DEF Plains
<1>5. ASSUME NEW x1, Plain(x1), NEW x2, Plain(x2), NEW x3, Plain(x3), NEW x4, Plain(x4) PROVE Plains(<<x1, x2, x3, x4>>)
  <2>1. PICK t : t = <<x1, x2, x3, x4>>
    BY Zenon
  <2>2. List(t) /\ \A i \in 1..Len(t) : Plain(t[i])
    <3>1. List(t) /\ \A i \in 1..Len(t) : t[i] = x1 \/ t[i] = x2 \/ t[i] = x3 \/ t[i] = x4
      BY <2>1, ListOfFour
    <3>. QED BY <1>5, <3>1, Zenon
  <2>. QED BY <2>1, <2>2, Zenon DEF Plains
<1>6. ASSUME NEW x1, Plain(x1), NEW x2, Plain(x2), NEW x3, Plain(x3),
             NEW x4, Plain(x4), NEW x5, Plain(x5), NEW x6, Plain(x6)
      PROVE  Plains(<<x1, x2, x3, x4, x5, x6>>)
  <2>1. PICK t : t = <<x1, x2, x3, x4, x5, x6>>
    BY Zenon
  <2>2. List(t) /\ \A i \in 1..Len(t) : Plain(t[i])
    <3>1. List(t) /\ \A i \in 1..Len(t) : \/ t[i] = x1 \/ t[i] = x2 \/ t[i] = x3
                                          \/ t[i] = x4 \/ t[i] = x5 \/ t[i] = x6
      BY <2>1, ListOfSix
    <3>. QED BY <1>6, <3>1, Zenon
  <2>. QED BY <2>1, <2>2, Zenon DEF Plains
<1>. QED BY <1>1, <1>2, <1>3, <1>4, <1>5, <1>6, Zenon

LEMMA LevelsJoined ==
  ASSUME NEW s, NEW t, Levels1(s), Levels1(t)
  PROVE  Levels1(s \o t)
<1>1. PICK u : u = s \o t
  BY Zenon
<1>2. /\ List(u) /\ Len(s) \in Nat /\ Len(t) \in Nat /\ Len(u) = Len(s) + Len(t)
      /\ \A i \in 1..Len(s) : u[i] = s[i]
      /\ \A i \in 1..Len(t) : u[Len(s) + i] = t[i]
  BY <1>1, ListJoined DEF Levels1
<1>3. ASSUME NEW i \in 1..Len(u) PROVE Level1(u[i])
  <2>1. CASE i \in 1..Len(s)
    BY <1>2, <2>1, Zenon DEF Levels1
  <2>2. CASE i \notin 1..Len(s)
    <3>1. PICK j \in 1..Len(t) : i = Len(s) + j
      <4>1. i - Len(s) \in 1..Len(t) /\ i = Len(s) + (i - Len(s))
        BY <1>2, <2>2
      <4>. QED BY <4>1
    <3>. QED BY <1>2, <3>1, Zenon DEF Levels1
  <2>. QED BY <2>1, <2>2
<1>. QED BY <1>1, <1>2, <1>3, Zenon DEF Levels1

LEMMA PlainsJoined ==
  ASSUME NEW s, NEW t, Plains(s), Plains(t)
  PROVE  Plains(s \o t)
<1>1. PICK u : u = s \o t
  BY Zenon
<1>2. /\ List(u) /\ Len(s) \in Nat /\ Len(t) \in Nat /\ Len(u) = Len(s) + Len(t)
      /\ \A i \in 1..Len(s) : u[i] = s[i]
      /\ \A i \in 1..Len(t) : u[Len(s) + i] = t[i]
  BY <1>1, ListJoined DEF Plains
<1>3. ASSUME NEW i \in 1..Len(u) PROVE Plain(u[i])
  <2>1. CASE i \in 1..Len(s)
    BY <1>2, <2>1, Zenon DEF Plains
  <2>2. CASE i \notin 1..Len(s)
    <3>1. PICK j \in 1..Len(t) : i = Len(s) + j
      <4>1. i - Len(s) \in 1..Len(t) /\ i = Len(s) + (i - Len(s))
        BY <1>2, <2>2
      <4>. QED BY <4>1
    <3>. QED BY <1>2, <3>1, Zenon DEF Plains
  <2>. QED BY <2>1, <2>2
<1>. QED BY <1>1, <1>2, <1>3, Zenon DEF Plains

\* Levels1 and Simples are plain as well.
LEMMA PlainsOfLevels == \A t : (Simples(t) => Levels1(t)) /\ (Levels1(t) => Plains(t))
BY PlainOfSimple, Zenon DEF Simples, Levels1, Plains

\* What a procedure's body must be: it comes back to the level at which it began,
\* whatever it is the body of.
Body(t) == t # <<>> /\ List(t) /\ \A a \in AnyLevel : \A r : Path(t, a, a, r)

LEMMA PlainBody ==
  ASSUME NEW t, Plains(t), t # <<>>
  PROVE  Body(t)
BY PlainPath DEF Body, Plains

LEMMA FullJoined ==
  ASSUME NEW s, NEW t, List(s), List(t), s # <<>>
  PROVE  s \o t # <<>>
<1>1. Len(s) >= 1 /\ Len(s) \in Nat /\ Len(t) \in Nat
  BY TailIs, ListLength
<1>2. Len(s \o t) = Len(s) + Len(t)
  BY ListJoined
<1>3. Len(s \o t) # 0
  BY <1>1, <1>2
<1>. QED BY <1>3, EmptyList

LEMMA ParseVariablePlain == Plains(ParseVariable) /\ ParseVariable # <<>>
<1>1. Plain(Consume("identifier")) /\ Plain(Do("declare"))
  BY SimpleItems, SimpleDone, PlainOfSimple, Zenon
<1>2. Plains(ParseVariable)
  BY <1>1, PlainLists, Zenon DEF ParseVariable
<1>. QED BY <1>2 DEF ParseVariable

LEMMA ArgumentListPlain == Levels1(ArgumentList)
<1>1. Simples(<<>>) /\ Simples(<<Repeat("arguments")>>)
  BY SimpleCalls, SimpleLists, Zenon
<1>2. Level1(Check({")"}, <<>>, <<Repeat("arguments")>>))
  BY <1>1, CheckLevel
<1>3. Level1(Consume(")"))
  BY SimpleItems, PlainOfSimple, Zenon
<1>. QED BY <1>2, <1>3, LevelLists, Zenon DEF ArgumentList

LEMMA NamedVariablePlain ==
  ASSUME NEW name, NEW canAssign
  PROVE  Plains(NamedVariable(name, canAssign)) /\ NamedVariable(name, canAssign) # <<>>
<1>1. Simples(<<Expression, EmitWith("SET", <<name>>)>>) /\ Simples(<<EmitWith("GET", <<name>>)>>)
  BY SimpleItems, SimpleLists, Zenon
<1>2. PICK m : m = Match("=", <<Expression, EmitWith("SET", <<name>>)>>, <<EmitWith("GET", <<name>>)>>)
  BY Zenon
<1>3. Level1(m)
  BY <1>1, <1>2, MatchLevel
<1>4. Plains(<<m>>) /\ <<m>> # <<>>
  BY <1>3, PlainOfSimple, PlainLists
<1>5. Plains(<<EmitWith("GET", <<name>>)>>) /\ <<EmitWith("GET", <<name>>)>> # <<>>
  BY SimpleItems, PlainOfSimple, PlainLists
<1>6. \/ NamedVariable(name, canAssign) = <<m>>
      \/ NamedVariable(name, canAssign) = <<EmitWith("GET", <<name>>)>>
  BY <1>2, Zenon DEF NamedVariable
<1>. QED BY <1>4, <1>5, <1>6, Zenon

\* The bodies of the rules are plain.
LEMMA PrefixBody ==
  ASSUME NEW token, NEW canAssign
  PROVE  Body(Prefix(token, canAssign))
<1>1. PICK group : group = <<Expression, Consume(")")>>
  BY Zenon
<1>2. PICK op : op = IF token = "!" THEN "NOT" ELSE "NEGATE"
  BY Zenon
<1>3. PICK unary : unary = <<Parse(PrecUnary), Emit(op)>>
  BY Zenon
<1>4. PICK literal : literal = <<EmitWith("CONSTANT", <<token>>)>>
  BY Zenon
<1>5. PICK word : word = <<Emit(token)>>
  BY Zenon
<1>6. PICK error : error = <<Error>>
  BY Zenon
<1>7. PICK this : this = NamedVariable(token, FALSE)
  BY Zenon
<1>8. PICK variable : variable = NamedVariable(token, canAssign)
  BY Zenon
<1>9. Plains(this) /\ this # <<>> /\ Plains(variable) /\ variable # <<>>
  BY <1>7, <1>8, NamedVariablePlain, Zenon
<1>10. /\ Plains(group) /\ Plains(unary) /\ Plains(literal) /\ Plains(word)
       /\ Plains(error)
  BY <1>1, <1>3, <1>4, <1>5, <1>6, SimpleItems, PlainOfSimple, PlainLists, Zenon
<1>11. group # <<>> /\ unary # <<>> /\ literal # <<>> /\ word # <<>> /\ error # <<>>
  BY <1>1, <1>3, <1>4, <1>5, <1>6
<1>12. Prefix(token, canAssign) \in {group, unary, literal, word, error, this, variable}
  BY <1>1, <1>2, <1>3, <1>4, <1>5, <1>6, <1>7, <1>8 DEF Prefix
<1>13. Plains(Prefix(token, canAssign)) /\ Prefix(token, canAssign) # <<>>
  BY <1>9, <1>10, <1>11, <1>12, Zenon
<1>. QED BY <1>13, PlainBody, Zenon

LEMMA OrRulePlain == Plains(OrRule) /\ OrRule # <<>>
<1>1. Plains(OrRule)
  BY SimpleItems, PlainOfSimple, PlainLists, Zenon DEF OrRule
<1>. QED BY <1>1 DEF OrRule

LEMMA AndRulePlain == Plains(AndRule) /\ AndRule # <<>>
<1>1. Plains(AndRule)
  BY SimpleItems, PlainOfSimple, PlainLists, Zenon DEF AndRule
<1>. QED BY <1>1 DEF AndRule

LEMMA DotRulePlain ==
  ASSUME NEW canAssign
  PROVE  Plains(DotRule(canAssign)) /\ DotRule(canAssign) # <<>>
<1>1. PICK getter : getter = Check({"("}, <<Error>>, <<EmitName("GET_PROPERTY")>>)
  BY Zenon
<1>2. Level1(getter)
  <2>1. Simples(<<Error>>) /\ Simples(<<EmitName("GET_PROPERTY")>>)
    BY SimpleItems, SimpleLists, Zenon
  <2>. QED BY <1>1, <2>1, CheckLevel
<1>3. PICK m : m = Match("=", <<Expression, EmitName("SET_PROPERTY")>>, <<getter>>)
  BY Zenon
<1>4. Plain(m)
  <2>1. Levels1(<<Expression, EmitName("SET_PROPERTY")>>) /\ Levels1(<<getter>>)
    BY <1>2, SimpleItems, PlainOfSimple, LevelLists, Zenon
  <2>. QED BY <1>3, <2>1, MatchPlain
<1>5. PICK x : x = IF canAssign THEN m ELSE getter
  BY Zenon
<1>6. Plain(x)
  BY <1>2, <1>4, <1>5, PlainOfSimple, Zenon
<1>7. Plains(<<Consume("identifier"), Do("name"), x>>) /\ Plains(<<Error>>)
  BY <1>6, SimpleItems, SimpleDone, PlainOfSimple, PlainLists, Zenon
<1>8. <<Consume("identifier"), Do("name"), x>> # <<>> /\ <<Error>> # <<>>
  OBVIOUS
<1>9. \/ DotRule(canAssign) = <<Error>>
      \/ DotRule(canAssign) = <<Consume("identifier"), Do("name"), x>>
  BY <1>1, <1>3, <1>5, Zenon DEF DotRule
<1>. QED BY <1>7, <1>8, <1>9, Zenon

LEMMA SendRulePlain == Plains(SendRule) /\ SendRule # <<>>
<1>1. PICK comma : comma = Match(",", <<>>, <<>>)
  BY Zenon
<1>2. Level1(comma)
  BY <1>1, SimpleLists, MatchLevel
<1>3. PICK s : s = <<Consume("identifier"), Do("name"), comma>>
  BY Zenon
<1>4. Levels1(s)
  BY <1>2, <1>3, SimpleItems, SimpleDone, PlainOfSimple, LevelLists, Zenon
<1>5. PICK t : t = <<EmitCall("INVOKE")>>
  BY Zenon
<1>6. Levels1(t)
  BY <1>5, SimpleItems, PlainOfSimple, LevelLists, Zenon
<1>7. PICK call : call = s \o ArgumentList
  BY Zenon
<1>8. Levels1(call)
  BY <1>4, <1>7, ArgumentListPlain, LevelsJoined
<1>9. PICK then : then = call \o t
  BY Zenon
<1>10. Levels1(then)
  BY <1>6, <1>8, <1>9, LevelsJoined
<1>11. Levels1(<<Error>>)
  BY SimpleItems, PlainOfSimple, LevelLists, Zenon
<1>12. PICK m : m = Match("(", then, <<Error>>)
  BY Zenon
<1>13. Plain(m)
  BY <1>10, <1>11, <1>12, MatchPlain
<1>14. SendRule = <<m>>
  BY <1>1, <1>3, <1>5, <1>7, <1>9, <1>12, Zenon DEF SendRule
<1>15. Plains(<<m>>) /\ <<m>> # <<>>
  BY <1>13, PlainLists
<1>. QED BY <1>14, <1>15, Zenon

LEMMA InfixBody ==
  ASSUME NEW token, NEW canAssign
  PROVE  Body(Infix(token, canAssign))
<1>1. PICK call : call = <<EmitCall("CALL")>>
  BY Zenon
<1>2. PICK args : args = ArgumentList
  BY Zenon
<1>3. Levels1(args) /\ args # <<>>
  BY <1>2, ArgumentListPlain DEF ArgumentList
<1>4. Plains(args \o call) /\ args \o call # <<>>
  <2>1. Levels1(call)
    BY <1>1, SimpleItems, PlainOfSimple, LevelLists, Zenon
  <2>2. Levels1(args \o call)
    BY <1>3, <2>1, LevelsJoined
  <2>3. List(args) /\ List(call)
    BY <1>3, <2>1 DEF Levels1
  <2>4. args \o call # <<>>
    BY <1>3, <2>3, FullJoined
  <2>. QED BY <2>2, <2>4, PlainsOfLevels, Zenon
<1>5. PICK binary : binary = <<Parse(PrecedenceOf(token) + 1), Emit(token)>>
  BY Zenon
<1>6. Plains(binary) /\ binary # <<>>
  <2>1. Plains(binary)
    BY <1>5, SimpleItems, PlainOfSimple, PlainLists, Zenon
  <2>. QED BY <1>5, <2>1
<1>7. PICK dot : dot = DotRule(canAssign)
  BY Zenon
<1>8. Plains(dot) /\ dot # <<>>
  BY <1>7, DotRulePlain
<1>9. \/ Infix(token, canAssign) = args \o call
      \/ Infix(token, canAssign) = dot
      \/ Infix(token, canAssign) = SendRule
      \/ Infix(token, canAssign) = OrRule
      \/ Infix(token, canAssign) = AndRule
      \/ Infix(token, canAssign) = binary
  BY <1>1, <1>2, <1>5, <1>7 DEF Infix
<1>10. Plains(Infix(token, canAssign)) /\ Infix(token, canAssign) # <<>>
  BY <1>4, <1>6, <1>8, <1>9, SendRulePlain, OrRulePlain, AndRulePlain, Zenon
<1>. QED BY <1>10, PlainBody, Zenon

-----------------------------------------------------------------------------
(***************************************************************************)
(* Lists that begin something and end it.                                  *)
(***************************************************************************)

LEMMA BaseLevel == Base \in AnyLevel
<1>1. <<0>> \in Seq(Nat) /\ <<0>> # <<>>
  OBVIOUS
<1>. QED BY <1>1 DEF Base, AnyLevel

LEMMA LevelIs ==
  ASSUME NEW a \in AnyLevel
  PROVE  /\ a.actors \in Nat /\ a.depths \in Seq(Nat) /\ a.depths # <<>>
         /\ Len(a.depths) \in Nat /\ Len(a.depths) >= 1
         /\ a = [actors |-> a.actors, depths |-> a.depths]
<1>1. a.actors \in Nat /\ a.depths \in Seq(Nat) /\ a.depths # <<>>
  BY DEF AnyLevel
<1>2. Len(a.depths) \in Nat /\ Len(a.depths) >= 1
  BY <1>1
<1>3. a = [actors |-> a.actors, depths |-> a.depths]
  BY DEF AnyLevel
<1>. QED BY <1>1, <1>2, <1>3

LEMMA ActorLevels ==
  ASSUME NEW a \in AnyLevel
  PROVE  InActor(a, 1) \in AnyLevel /\ InActor(InActor(a, 1), -1) = a
<1>1. /\ a.actors \in Nat /\ a.depths \in Seq(Nat) /\ a.depths # <<>>
      /\ a = [actors |-> a.actors, depths |-> a.depths]
  BY LevelIs
<1>2. InActor(a, 1) \in AnyLevel
  BY <1>1 DEF InActor, AnyLevel
<1>3. a.actors + 1 + (-1) = a.actors
  BY <1>1
<1>4. InActor(InActor(a, 1), -1) = a
  BY <1>1, <1>3 DEF InActor
<1>. QED BY <1>2, <1>4

\* Beginning a block and ending it.
LEMMA BlockLevels ==
  ASSUME NEW a \in AnyLevel
  PROVE  /\ Deeper(a, 1) \in AnyLevel /\ Deeper(Deeper(a, 1), -1) = a
         /\ Len(Deeper(a, 1).depths) = Len(a.depths)
<1>1. /\ a.actors \in Nat /\ a.depths \in Seq(Nat) /\ a.depths # <<>>
      /\ Len(a.depths) \in Nat /\ Len(a.depths) >= 1
      /\ a = [actors |-> a.actors, depths |-> a.depths]
  BY LevelIs
<1>2. PICK s \in Seq(Nat) : s = a.depths
  BY <1>1
<1>3. PICK n \in Nat : n = Len(s)
  OBVIOUS
<1>4. n >= 1 /\ n \in 1..n /\ s[n] \in Nat
  BY <1>1, <1>2, <1>3
<1>5. PICK u : u = [s EXCEPT ![n] = s[n] + 1]
  BY Zenon
<1>6. u \in Seq(Nat) /\ Len(u) = n /\ u[n] = s[n] + 1 /\ u # <<>>
  BY <1>3, <1>4, <1>5
<1>7. [u EXCEPT ![n] = u[n] + (-1)] = s
  <2>1. u[n] + (-1) = s[n]
    BY <1>4, <1>6
  <2>2. PICK v : v = [u EXCEPT ![n] = s[n]]
    BY Zenon
  <2>3. v \in Seq(Nat) /\ Len(v) = n /\ \A i \in 1..n : v[i] = s[i]
    BY <1>3, <1>4, <1>5, <1>6, <2>2
  <2>4. v = s
    BY <1>3, <2>3, SameSeq
  <2>. QED BY <2>1, <2>2, <2>4, Zenon
<1>8. Deeper(a, 1) = [actors |-> a.actors, depths |-> u]
  BY <1>2, <1>3, <1>5, Zenon DEF Deeper
<1>9. PICK b : b = [actors |-> a.actors, depths |-> u]
  BY Zenon
<1>10. b \in AnyLevel /\ b.actors = a.actors /\ b.depths = u
  BY <1>1, <1>6, <1>9 DEF AnyLevel
<1>11. Deeper(b, -1) = a
  <2>1. Deeper(b, -1) = [actors |-> a.actors, depths |-> [u EXCEPT ![n] = u[n] + (-1)]]
    BY <1>6, <1>10, Zenon DEF Deeper
  <2>. QED BY <1>1, <1>2, <1>7, <2>1, Zenon
<1>. QED BY <1>2, <1>3, <1>6, <1>8, <1>9, <1>10, <1>11, Zenon

\* Beginning a function, its block, and ending it.
LEMMA FunctionLevels ==
  ASSUME NEW a \in AnyLevel
  PROVE  /\ InFunction(a) \in AnyLevel /\ Deeper(InFunction(a), 1) \in AnyLevel
         /\ Len(Deeper(InFunction(a), 1).depths) > 1 /\ Outside(Deeper(InFunction(a), 1)) = a
<1>1. /\ a.actors \in Nat /\ a.depths \in Seq(Nat) /\ a.depths # <<>>
      /\ Len(a.depths) \in Nat /\ Len(a.depths) >= 1
      /\ a = [actors |-> a.actors, depths |-> a.depths]
  BY LevelIs
<1>2. PICK s \in Seq(Nat) : s = a.depths
  BY <1>1
<1>3. PICK n \in Nat : n = Len(s)
  OBVIOUS
<1>4. PICK u : u = Append(s, 0)
  BY Zenon
<1>5. /\ u \in Seq(Nat) /\ Len(u) = n + 1 /\ u[n + 1] = 0 /\ u # <<>>
      /\ \A i \in 1..n : u[i] = s[i]
  BY <1>3, <1>4
<1>6. PICK f : f = [actors |-> a.actors, depths |-> u]
  BY Zenon
<1>7. f \in AnyLevel /\ InFunction(a) = f /\ f.actors = a.actors /\ f.depths = u
  BY <1>1, <1>2, <1>4, <1>5, <1>6 DEF AnyLevel, InFunction
<1>8. PICK v : v = [u EXCEPT ![n + 1] = u[n + 1] + 1]
  BY Zenon
<1>9. PICK b : b = Deeper(f, 1)
  BY Zenon
<1>10. b \in AnyLevel /\ Len(b.depths) = n + 1
  BY <1>5, <1>7, <1>9, BlockLevels
<1>11. b.depths = v /\ b.actors = a.actors
  BY <1>5, <1>7, <1>8, <1>9 DEF Deeper
<1>12. v \in Seq(Nat) /\ Len(v) = n + 1 /\ \A i \in 1..n : v[i] = s[i]
  BY <1>5, <1>8
<1>13. Front(v) = s
  <2>1. PICK w : w = SubSeq(v, 1, n)
    BY Zenon
  <2>2. w \in Seq(Nat) /\ Len(w) = n /\ \A i \in 1..n : w[i] = v[i]
    BY <1>12, <2>1, PrefixIs
  <2>3. w = s
    BY <1>3, <1>12, <2>2, SameSeq
  <2>4. Len(v) - 1 = n
    BY <1>12
  <2>. QED BY <2>1, <2>3, <2>4, Zenon DEF Front
<1>14. Outside(b) = a
  BY <1>1, <1>2, <1>11, <1>13, Zenon DEF Outside
<1>15. Len(b.depths) > 1
  BY <1>1, <1>2, <1>3, <1>10
<1>. QED BY <1>7, <1>9, <1>10, <1>14, <1>15, Zenon

\* The j-th item leads from a to b and the k-th to c; the others are plain, or what is
\* allowed at level b.
Turns(t, j, k, a, b, c, r) ==
  /\ List(t) /\ j \in 1..Len(t) /\ k \in 1..Len(t) /\ j < k
  /\ a \in AnyLevel /\ b \in AnyLevel /\ c \in AnyLevel
  /\ Effect(t[j], a, b, r) /\ Effect(t[k], b, c, r)
  /\ \A i \in 1..Len(t) : i < j \/ i > k => Plain(t[i])
  /\ \A i \in 1..Len(t) : j < i /\ i < k => Effect(t[i], b, b, r)

LEMMA TurnsPath ==
  ASSUME NEW t, NEW j, NEW k, NEW a, NEW b, NEW c, NEW r, Turns(t, j, k, a, b, c, r)
  PROVE  Path(t, a, c, r)
<1>1. PICK n \in Nat : n = Len(t)
  BY ListLength DEF Turns
<1>2. /\ j \in 1..n /\ k \in 1..n /\ j < k
      /\ a \in AnyLevel /\ b \in AnyLevel /\ c \in AnyLevel
  BY <1>1 DEF Turns
<1>3. PICK g : g = [i \in 1..(n + 1) |-> IF i <= j THEN a ELSE IF i <= k THEN b ELSE c]
  BY Zenon
<1>4. g \in [1..(n + 1) -> AnyLevel] /\ g[1] = a /\ g[n + 1] = c
  BY <1>2, <1>3
<1>5. ASSUME NEW i \in 1..n PROVE Effect(t[i], g[i], g[i + 1], r)
  <2>1. i \in 1..(n + 1) /\ i + 1 \in 1..(n + 1)
    OBVIOUS
  <2>2. CASE i < j
    <3>1. g[i] = a /\ g[i + 1] = a
      BY <1>2, <1>3, <2>1, <2>2
    <3>2. Plain(t[i])
      BY <1>1, <2>2, Zenon DEF Turns
    <3>. QED BY <3>1, <3>2 DEF Effect
  <2>3. CASE i = j
    <3>1. g[i] = a /\ g[i + 1] = b
      BY <1>2, <1>3, <2>1, <2>3
    <3>. QED BY <2>3, <3>1, Zenon DEF Turns
  <2>4. CASE j < i /\ i < k
    <3>1. g[i] = b /\ g[i + 1] = b
      BY <1>2, <1>3, <2>1, <2>4
    <3>. QED BY <1>1, <2>4, <3>1, Zenon DEF Turns
  <2>5. CASE i = k
    <3>1. g[i] = b /\ g[i + 1] = c
      BY <1>2, <1>3, <2>1, <2>5
    <3>. QED BY <2>5, <3>1, Zenon DEF Turns
  <2>6. CASE i > k
    <3>1. g[i] = c /\ g[i + 1] = c
      BY <1>2, <1>3, <2>1, <2>6
    <3>2. Plain(t[i])
      BY <1>1, <2>6, Zenon DEF Turns
    <3>. QED BY <3>1, <3>2 DEF Effect
  <2>. QED BY <1>2, <2>2, <2>3, <2>4, <2>5, <2>6
<1>6. Levelled(t, g, r) /\ g[1] = a /\ g[Len(t) + 1] = c
  BY <1>1, <1>4, <1>5, Zenon DEF Levelled
<1>. QED BY <1>6, Zenon DEF Path, Turns

\* A list that goes to another level first.
LEMMA PathFrom ==
  ASSUME NEW t, List(t), t # <<>>, NEW a \in AnyLevel, NEW b, NEW c, NEW r,
         Effect(Head(t), a, b, r), Path(Tail(t), b, c, r)
  PROVE  Path(t, a, c, r)
<1>1. PICK s : s = Tail(t)
  BY Zenon
<1>2. PICK x : x = Head(t)
  BY Zenon
<1>3. b \in AnyLevel
  BY PathEnds
<1>4. Path(<<x>>, a, b, r)
  BY <1>2, <1>3, PathOne
<1>5. Path(s, b, c, r)
  BY <1>1
<1>6. Path(<<x>> \o s, a, c, r)
  BY <1>4, <1>5, PathJoined
<1>7. <<x>> \o s = t
  BY <1>1, <1>2 DEF List
<1>. QED BY <1>6, <1>7, Zenon

-----------------------------------------------------------------------------
(***************************************************************************)
(* The procedures.                                                         *)
(***************************************************************************)

LEMMA MatchBySimple ==
  ASSUME NEW type, NEW then, NEW otherwise, Simples(then), Simples(otherwise)
  PROVE  Plain(Match(type, then, otherwise))
BY MatchLevel, PlainOfSimple

\* A choice by several tokens.
LEMMA ChoosePlain ==
  ASSUME NEW cases, NEW otherwise, \A x \in DOMAIN cases : Simples(cases[x]), Simples(otherwise)
  PROVE  Plain(Choose(cases, otherwise))
<1>1. PICK m : m = Choose(cases, otherwise)
  BY Zenon
<1>2. m[1] = "choose" /\ m[2] = cases /\ m[3] = otherwise
  BY <1>1 DEF Choose, Item
<1>. QED BY <1>1, <1>2, Zenon DEF Plain, Level1, Choice

LEMMA DeclarationPlain == Plains(Procedure("declaration"))
<1>1. ASSUME NEW x \in DOMAIN DeclarationOf PROVE Simples(DeclarationOf[x])
  <2>1. PICK call : call = DeclarationOf[x]
    BY Zenon
  <2>2. call \in {<<Call("actor_declaration")>>, <<Call("fun_declaration")>>,
                  <<Call("var_declaration")>>}
    BY <1>1, <2>1 DEF DeclarationOf
  <2>. QED BY <2>1, <2>2, SimpleCalls, SimpleLists, Zenon
<1>2. Simples(<<Call("statement")>>)
  BY SimpleCalls, SimpleLists, Zenon
<1>3. PICK m : m = Choose(DeclarationOf, <<Call("statement")>>)
  BY Zenon
<1>4. Plain(m)
  BY <1>1, <1>2, <1>3, ChoosePlain
<1>5. Procedure("declaration") = <<m, Do("synchronize")>>
  BY <1>3 DEF Procedure
<1>. QED BY <1>4, <1>5, SimpleDone, PlainOfSimple, PlainLists, Zenon

LEMMA IfPlain == Plains(IfStatement)
<1>1. PICK m : m = Match("else", <<Call("statement")>>, <<>>)
  BY Zenon
<1>2. Simples(<<Call("statement")>>) /\ Simples(<<>>)
  BY SimpleCalls, SimpleLists, Zenon
<1>3. Plain(m)
  BY <1>1, <1>2, MatchBySimple
<1>4. PICK s : s = <<Consume("("), Expression, Consume(")"), Jump("JUMP_IF_FALSE", "then_jump")>>
  BY Zenon
<1>5. PICK t : t = <<Emit("POP"), Call("statement"), Jump("JUMP", "else_jump"),
                     Patch("then_jump"), Emit("POP"), m>>
  BY Zenon
<1>6. PICK u : u = <<Patch("else_jump")>>
  BY Zenon
<1>7. Plains(s) /\ Plains(t) /\ Plains(u)
  BY <1>3, <1>4, <1>5, <1>6, SimpleItems, SimpleCalls, PlainOfSimple, PlainLists, Zenon
<1>8. Plains(s \o t)
  BY <1>7, PlainsJoined
<1>9. Plains((s \o t) \o u)
  BY <1>7, <1>8, PlainsJoined
<1>10. IfStatement = (s \o t) \o u
  BY <1>1, <1>4, <1>5, <1>6 DEF IfStatement
<1>. QED BY <1>9, <1>10, Zenon

LEMMA WhilePlain == Plains(WhileStatement)
<1>1. PICK s : s = <<Mark("loop_start"), Consume("("), Expression, Consume(")")>>
  BY Zenon
<1>2. PICK t : t = <<Jump("JUMP_IF_FALSE", "exit_jump"), Emit("POP"), Call("statement"),
                     Loop("loop_start"), Patch("exit_jump"), Emit("POP")>>
  BY Zenon
<1>3. Plains(s) /\ Plains(t)
  BY <1>1, <1>2, SimpleItems, SimpleCalls, PlainOfSimple, PlainLists, Zenon
<1>4. Plains(s \o t)
  BY <1>3, PlainsJoined
<1>5. WhileStatement = s \o t
  BY <1>1, <1>2 DEF WhileStatement
<1>. QED BY <1>4, <1>5, Zenon

LEMMA ReturnPlain == Plains(ReturnStatement)
<1>1. PICK m : m = Match(";", <<Do("emit_return")>>, <<Expression, Consume(";"), Emit("RETURN")>>)
  BY Zenon
<1>2. Simples(<<Do("emit_return")>>) /\ Simples(<<Expression, Consume(";"), Emit("RETURN")>>)
  BY SimpleItems, SimpleDone, SimpleLists, Zenon
<1>3. Plain(m)
  BY <1>1, <1>2, MatchBySimple
<1>4. ReturnStatement = <<ErrorIn("script"), ErrorIn("message"), m>>
  BY <1>1, Zenon DEF ReturnStatement
<1>. QED BY <1>3, <1>4, SimpleItems, PlainOfSimple, PlainLists, Zenon

\* Lists that a look at the next token ends.
LEMMA UntilPlain ==
  ASSUME NEW types, NEW otherwise, Simples(otherwise)
  PROVE  Plains(<<Check(types, <<>>, otherwise)>>)
<1>1. PICK m : m = Check(types, <<>>, otherwise)
  BY Zenon
<1>2. Level1(m)
  BY <1>1, SimpleLists, CheckLevel
<1>3. Plains(<<m>>)
  BY <1>2, PlainOfSimple, PlainLists, Zenon
<1>. QED BY <1>1, <1>3, Zenon

LEMMA LoopsPlain ==
  /\ Plains(Procedure("messages")) /\ Plains(Procedure("declarations"))
  /\ Plains(Procedure("arguments"))
<1>1. Plains(Procedure("messages"))
  <2>1. PICK t : t = <<Call("message"), Repeat("messages")>>
    BY Zenon
  <2>2. Simples(t)
    BY <2>1, SimpleCalls, SimpleLists, Zenon
  <2>3. Procedure("messages") = <<Check(AtBlockEnd, <<>>, t)>>
    BY <2>1 DEF Procedure
  <2>. QED BY <2>2, <2>3, UntilPlain
<1>2. Plains(Procedure("declarations"))
  <2>1. PICK t : t = <<Call("declaration"), Repeat("declarations")>>
    BY Zenon
  <2>2. Simples(t)
    BY <2>1, SimpleCalls, SimpleLists, Zenon
  <2>3. Procedure("declarations") = <<Check(AtBlockEnd, <<>>, t)>>
    BY <2>1 DEF Procedure
  <2>. QED BY <2>2, <2>3, UntilPlain
<1>3. Plains(Procedure("arguments"))
  <2>1. PICK m : m = Match(",", <<Repeat("arguments")>>, <<>>)
    BY Zenon
  <2>2. Simples(<<Repeat("arguments")>>) /\ Simples(<<>>)
    BY SimpleCalls, SimpleLists, Zenon
  <2>3. Plain(m)
    BY <2>1, <2>2, MatchBySimple
  <2>4. Procedure("arguments") = <<Expression, Do("count"), m>>
    BY <2>1 DEF Procedure
  <2>. QED BY <2>3, <2>4, SimpleItems, SimpleDone, PlainOfSimple, PlainLists, Zenon
<1>. QED BY <1>1, <1>2, <1>3

LEMMA MessagePlain == Plains(Procedure("message"))
<1>1. Procedure("message") = <<Consume("identifier"), Do("name"), Call("message_function"),
                               EmitName("MESSAGE")>>
  BY DEF Procedure
<1>. QED BY <1>1, SimpleItems, SimpleDone, SimpleCalls, PlainOfSimple, PlainLists, Zenon

LEMMA FunDeclarationPlain == Plains(Procedure("fun_declaration"))
<1>1. PICK t : t = <<Call("function"), Do("define")>>
  BY Zenon
<1>2. Plains(t)
  BY <1>1, SimpleDone, SimpleCalls, PlainOfSimple, PlainLists, Zenon
<1>3. Procedure("fun_declaration") = ParseVariable \o t
  BY <1>1 DEF Procedure
<1>4. Plains(ParseVariable \o t)
  BY <1>2, ParseVariablePlain, PlainsJoined
<1>. QED BY <1>3, <1>4, Zenon

LEMMA VarDeclarationPlain == Plains(Procedure("var_declaration"))
<1>1. PICK m : m = Match("=", <<Expression>>, <<Emit("nil")>>)
  BY Zenon
<1>2. Simples(<<Expression>>) /\ Simples(<<Emit("nil")>>)
  BY SimpleItems, SimpleLists, Zenon
<1>3. Plain(m)
  BY <1>1, <1>2, MatchBySimple
<1>4. PICK t : t = <<m, Consume(";"), Do("define")>>
  BY Zenon
<1>5. Plains(t)
  BY <1>3, <1>4, SimpleItems, SimpleDone, PlainOfSimple, PlainLists, Zenon
<1>6. Procedure("var_declaration") = ParseVariable \o t
  BY <1>1, <1>4 DEF Procedure
<1>7. Plains(ParseVariable \o t)
  BY <1>5, ParseVariablePlain, PlainsJoined
<1>. QED BY <1>6, <1>7, Zenon

LEMMA ShortPlain ==
  /\ Plains(Procedure("expression_statement")) /\ Plains(Procedure("print"))
  /\ Plains(Procedure("block"))
<1>1. Procedure("expression_statement") = <<Expression, Consume(";"), Emit("POP")>>
  BY DEF Procedure
<1>2. Procedure("print") = <<Expression, Consume(";"), Emit("PRINT")>>
  BY DEF Procedure
<1>3. Procedure("block") = <<Repeat("declarations"), Consume("}")>>
  BY DEF Procedure
<1>. QED BY <1>1, <1>2, <1>3, SimpleItems, SimpleCalls, PlainOfSimple, PlainLists, Zenon

\* The statement in braces, for, a function and an actor begin something and end it.
LEMMA BlockPath ==
  ASSUME NEW a \in AnyLevel, NEW r
  PROVE  Path(<<Do("begin_scope"), Call("block"), Do("end_scope")>>, a, a, r)
<1>1. PICK t : t = <<Do("begin_scope"), Call("block"), Do("end_scope")>>
  BY Zenon
<1>2. PICK b \in AnyLevel : b = Deeper(a, 1) /\ a = Deeper(b, -1)
  BY BlockLevels
<1>3. /\ t[1] = Do("begin_scope") /\ t[2] = Call("block") /\ t[3] = Do("end_scope")
      /\ Len(t) = 3 /\ List(t)
  BY <1>1, ListOfThree
<1>4. t[1][1] = "begin_scope" /\ t[3][1] = "end_scope"
  BY <1>3 DEF Do, Item
<1>5. Plain(t[2])
  BY <1>3, SimpleCalls, PlainOfSimple, Zenon
<1>6. Effect(t[1], a, b, r) /\ Effect(t[2], b, b, r) /\ Effect(t[3], b, a, r)
  BY <1>2, <1>4, <1>5, Zenon DEF Effect
<1>7. Turns(t, 1, 3, a, b, a, r)
  <2>1. \A i \in 1..Len(t) : i = 1 \/ i = 2 \/ i = 3
    BY <1>3
  <2>2. \A i \in 1..Len(t) : ~(i < 1 \/ i > 3)
    BY <1>3
  <2>3. \A i \in 1..Len(t) : 1 < i /\ i < 3 => i = 2
    BY <1>3
  <2>4. 1 \in 1..Len(t) /\ 3 \in 1..Len(t) /\ 1 < 3
    BY <1>3
  <2>. QED BY <1>2, <1>3, <1>6, <2>2, <2>3, <2>4, Zenon DEF Turns
<1>8. Path(t, a, a, r)
  BY <1>7, TurnsPath
<1>. QED BY <1>1, <1>8, Zenon

LEMMA StatementPath ==
  ASSUME NEW a \in AnyLevel, NEW r, NEW x \in DOMAIN StatementOf
  PROVE  Path(StatementOf[x], a, a, r)
<1>1. CASE x = "{"
  <2>1. StatementOf[x] = <<Do("begin_scope"), Call("block"), Do("end_scope")>>
    BY <1>1 DEF StatementOf
  <2>. QED BY <2>1, BlockPath, Zenon
<1>2. CASE x # "{"
  <2>1. x \in {"print", "for", "if", "return", "while"} /\ StatementOf[x] = <<Call(x)>>
    BY <1>2 DEF StatementOf
  <2>2. Plains(<<Call(x)>>)
    BY <2>1, SimpleCalls, PlainOfSimple, PlainLists, Zenon
  <2>3. Path(<<Call(x)>>, a, a, r)
    BY <2>2, PlainPath
  <2>. QED BY <2>1, <2>3, Zenon
<1>. QED BY <1>1, <1>2

LEMMA StatementBody == Body(Procedure("statement"))
<1>1. PICK m : m = StatementChoice
  BY Zenon
<1>2. Procedure("statement") = <<m>>
  BY <1>1 DEF Procedure, StatementChoice
<1>3. ASSUME NEW a \in AnyLevel, NEW r PROVE Path(<<m>>, a, a, r)
  <2>1. Effect(m, a, a, r)
    BY <1>1, Zenon DEF Effect
  <2>. QED BY <2>1, PathOne
<1>4. List(<<m>>) /\ <<m>> # <<>>
  BY ListOfOne
<1>. QED BY <1>2, <1>3, <1>4, Zenon DEF Body

LEMMA ForBody == Body(ForStatement)
<1>1. PICK first : first = Choose(InitializerOf, <<Call("expression_statement")>>)
  BY Zenon
<1>2. Plain(first)
  <2>1. ASSUME NEW x \in DOMAIN InitializerOf PROVE Simples(InitializerOf[x])
    <3>1. PICK call : call = InitializerOf[x]
      BY Zenon
    <3>2. call \in {<<Call("var_declaration")>>, <<>>}
      BY <2>1, <3>1 DEF InitializerOf
    <3>. QED BY <3>1, <3>2, SimpleCalls, SimpleLists, Zenon
  <2>2. Simples(<<Call("expression_statement")>>)
    BY SimpleCalls, SimpleLists, Zenon
  <2>. QED BY <1>1, <2>1, <2>2, ChoosePlain
<1>3. PICK test : test = <<Expression, Consume(";"), Jump("JUMP_IF_FALSE", "exit_jump"), Emit("POP")>>
  BY Zenon
<1>4. PICK condition : condition = Match(";", <<>>, test)
  BY Zenon
<1>5. Plain(condition)
  <2>1. Simples(test) /\ Simples(<<>>)
    BY <1>3, SimpleItems, SimpleLists, Zenon
  <2>. QED BY <1>4, <2>1, MatchBySimple
<1>6. PICK step : step = <<Jump("JUMP", "body_jump"), Mark("increment_start"), Expression,
                           Emit("POP"), Consume(")"), Loop("loop_start"), Do("increment"),
                           Patch("body_jump")>>
  BY Zenon
<1>7. PICK increment : increment = Match(")", <<>>, step)
  BY Zenon
<1>8. Plain(increment)
  <2>1. Simples(step) /\ Simples(<<>>)
    BY <1>6, SimpleItems, SimpleDone, SimpleLists, Zenon
  <2>. QED BY <1>7, <2>1, MatchBySimple
<1>9. PICK s : s = <<Consume("("), first, Mark("loop_start")>>
  BY Zenon
<1>10. PICK u : u = <<condition, increment, Call("statement")>>
  BY Zenon
<1>11. PICK v : v = <<Loop("loop_start"), Do("patch_exit")>>
  BY Zenon
<1>12. Plains(s) /\ Plains(u) /\ Plains(v)
  BY <1>2, <1>5, <1>8, <1>9, <1>10, <1>11, SimpleItems, SimpleDone, SimpleCalls, PlainOfSimple,
     PlainLists, Zenon
<1>13. PICK begin : begin = <<Do("begin_scope")>>
  BY Zenon
<1>14. PICK end : end = <<Do("end_scope")>>
  BY Zenon
<1>15. ForStatement = begin \o (s \o (u \o (v \o end)))
  <2>1. PICK after : after = <<Loop("loop_start"), Do("patch_exit"), Do("end_scope")>>
    BY Zenon
  <2>2. after = v \o end
    BY <1>11, <1>14, <2>1
  <2>3. PICK body : body = <<condition, increment, Call("statement"), Loop("loop_start"),
                             Do("patch_exit"), Do("end_scope")>>
    BY Zenon
  <2>4. body = u \o after
    BY <1>10, <2>1, <2>3
  <2>5. PICK all : all = <<Consume("("), first, Mark("loop_start"), condition, increment,
                           Call("statement"), Loop("loop_start"), Do("patch_exit"), Do("end_scope")>>
    BY Zenon
  <2>6. all = s \o body
    BY <1>9, <2>3, <2>5
  <2>7. <<Do("begin_scope"), Consume("("), first, Mark("loop_start"), condition, increment,
          Call("statement"), Loop("loop_start"), Do("patch_exit"), Do("end_scope")>> = begin \o all
    BY <1>13, <2>5
  <2>8. ForStatement =
          <<Do("begin_scope"), Consume("("), first, Mark("loop_start"), condition, increment,
            Call("statement"), Loop("loop_start"), Do("patch_exit"), Do("end_scope")>>
    BY <1>1, <1>3, <1>4, <1>6, <1>7, Zenon DEF ForStatement
  <2>. QED BY <2>2, <2>4, <2>6, <2>7, <2>8, Zenon
<1>16. ASSUME NEW a \in AnyLevel, NEW r PROVE Path(begin \o (s \o (u \o (v \o end))), a, a, r)
  <2>1. PICK b \in AnyLevel : b = Deeper(a, 1) /\ a = Deeper(b, -1)
    BY BlockLevels
  <2>2. Do("begin_scope")[1] = "begin_scope" /\ Do("end_scope")[1] = "end_scope"
    BY DEF Do, Item
  <2>3. Effect(Do("begin_scope"), a, b, r) /\ Effect(Do("end_scope"), b, a, r)
    BY <2>1, <2>2, Zenon DEF Effect
  <2>4. Path(begin, a, b, r) /\ Path(end, b, a, r)
    BY <1>13, <1>14, <2>3, PathOne
  <2>5. Path(s, b, b, r) /\ Path(u, b, b, r) /\ Path(v, b, b, r)
    BY <1>12, PlainPath
  <2>6. Path(v \o end, b, a, r)
    BY <2>4, <2>5, PathJoined
  <2>7. Path(u \o (v \o end), b, a, r)
    BY <2>5, <2>6, PathJoined
  <2>8. Path(s \o (u \o (v \o end)), b, a, r)
    BY <2>5, <2>7, PathJoined
  <2>. QED BY <2>4, <2>8, PathJoined
<1>17. ForStatement # <<>>
  BY DEF ForStatement
<1>18. List(ForStatement)
  <2>1. \E a : a \in AnyLevel
    BY BaseLevel
  <2>. QED BY <1>15, <1>16, <2>1, PathEnds, Zenon
<1>. QED BY <1>15, <1>16, <1>17, <1>18, Zenon DEF Body

LEMMA FunctionBody ==
  ASSUME NEW type \in {"function", "message"}
  PROVE  Body(Function(type))
<1>a. PICK open : open = Consume("(")
  BY Zenon
<1>b. PICK close : close = Consume(")")
  BY Zenon
<1>c. PICK brace : brace = Consume("{")
  BY Zenon
<1>1. PICK init : init = <<Item("init_compiler", type, 0)>>
  BY Zenon
<1>2. PICK begin : begin = <<Do("begin_scope")>>
  BY Zenon
<1>3. PICK s : s = <<open, FirstParameters, close, brace, Call("block")>>
  BY Zenon
<1>4. PICK end : end = <<Do("end_compiler"), EmitWith("CLOSURE", <<Empty>>)>>
  BY Zenon
<1>5. Function(type) = init \o (begin \o (s \o end))
  <2>1. PICK first : first = FirstParameters
    BY Zenon
  <2>2. PICK after : after = <<open, first, close, brace, Call("block"),
                               Do("end_compiler"), EmitWith("CLOSURE", <<Empty>>)>>
    BY Zenon
  <2>3. after = s \o end
    BY <1>3, <1>4, <2>1, <2>2
  <2>4. PICK all : all = <<Do("begin_scope"), open, first, close, brace,
                           Call("block"), Do("end_compiler"), EmitWith("CLOSURE", <<Empty>>)>>
    BY Zenon
  <2>5. all = begin \o after
    BY <1>2, <2>2, <2>4
  <2>6. <<Item("init_compiler", type, 0), Do("begin_scope"), open, first, close,
          brace, Call("block"), Do("end_compiler"), EmitWith("CLOSURE", <<Empty>>)>>
          = init \o all
    BY <1>1, <2>4
  <2>7. Function(type) =
          <<Item("init_compiler", type, 0), Do("begin_scope"), open, first, close,
            brace, Call("block"), Do("end_compiler"), EmitWith("CLOSURE", <<Empty>>)>>
    BY <1>a, <1>b, <1>c, <2>1, Zenon DEF Function, FirstParameters
  <2>. QED BY <2>3, <2>5, <2>6, <2>7, Zenon
<1>6. ASSUME NEW a \in AnyLevel, NEW r PROVE Path(init \o (begin \o (s \o end)), a, a, r)
  <2>1. PICK b \in AnyLevel : b = InFunction(a)
    BY FunctionLevels
  <2>2. PICK c \in AnyLevel : c = Deeper(b, 1) /\ Len(c.depths) > 1 /\ a = Outside(c)
    BY <2>1, FunctionLevels
  <2>3. Item("init_compiler", type, 0)[1] = "init_compiler" /\ Item("init_compiler", type, 0)[2] = type
    BY DEF Item
  <2>4. Do("begin_scope")[1] = "begin_scope" /\ Do("end_compiler")[1] = "end_compiler"
    BY DEF Do, Item
  <2>5. Effect(Item("init_compiler", type, 0), a, b, r)
    BY <2>1, <2>3, Zenon DEF Effect
  <2>6. Effect(Do("begin_scope"), b, c, r) /\ Effect(Do("end_compiler"), c, a, r)
    BY <2>2, <2>4, Zenon DEF Effect
  <2>7. Path(init, a, b, r) /\ Path(begin, b, c, r)
    BY <1>1, <1>2, <2>5, <2>6, PathOne
  <2>8. Path(end, c, a, r)
    <3>1. PICK t : t = <<EmitWith("CLOSURE", <<Empty>>)>>
      BY Zenon
    <3>2. PICK u : u = <<Do("end_compiler")>>
      BY Zenon
    <3>3. Path(t, a, a, r)
      <4>1. Plains(t)
        BY <3>1, SimpleItems, PlainOfSimple, PlainLists, Zenon
      <4>. QED BY <4>1, PlainPath
    <3>4. Path(u, c, a, r)
      BY <2>6, <3>2, PathOne
    <3>5. end = u \o t
      BY <1>4, <3>1, <3>2
    <3>. QED BY <3>3, <3>4, <3>5, PathJoined
  <2>9. Path(s, c, c, r)
    <3>1. PICK t : t = <<open>>
      BY Zenon
    <3>2. PICK u : u = <<FirstParameters>>
      BY Zenon
    <3>3. PICK v : v = <<close, brace, Call("block")>>
      BY Zenon
    <3>4. Plains(t) /\ Plains(v)
      BY <1>a, <1>b, <1>c, <3>1, <3>3, SimpleItems, SimpleCalls, PlainOfSimple, PlainLists, Zenon
    <3>5. Path(t, c, c, r) /\ Path(v, c, c, r)
      BY <3>4, PlainPath
    <3>6. Effect(FirstParameters, c, c, r)
      BY <2>2, Zenon DEF Effect, OfParameters
    <3>7. Path(u, c, c, r)
      BY <3>2, <3>6, PathOne
    <3>8. Path(u \o v, c, c, r)
      BY <3>5, <3>7, PathJoined
    <3>9. PICK w : w = <<FirstParameters, close, brace, Call("block")>>
      BY Zenon
    <3>10. w = u \o v
      BY <3>2, <3>3, <3>9
    <3>11. s = t \o w
      BY <1>3, <3>1, <3>9
    <3>12. Path(w, c, c, r)
      BY <3>8, <3>10
    <3>. QED BY <3>5, <3>11, <3>12, PathJoined
  <2>10. Path(s \o end, c, a, r)
    BY <2>8, <2>9, PathJoined
  <2>11. Path(begin \o (s \o end), b, a, r)
    BY <2>7, <2>10, PathJoined
  <2>. QED BY <2>7, <2>11, PathJoined
<1>7. Function(type) # <<>>
  BY DEF Function
<1>8. List(Function(type))
  BY <1>5, <1>6, BaseLevel, PathEnds, Zenon
<1>. QED BY <1>5, <1>6, <1>7, <1>8, Zenon DEF Body

LEMMA ActorBody == Body(ActorDeclaration)
<1>a. PICK brace : brace = Consume("{")
  BY Zenon
<1>b. PICK close : close = Consume("}")
  BY Zenon
<1>1. PICK s : s = <<EmitName("ACTOR"), Do("define")>>
  BY Zenon
<1>2. PICK begin : begin = <<Do("enter_actor")>>
  BY Zenon
<1>3. PICK t : t = <<EmitName("GET"), brace, Repeat("messages"), close, Emit("POP")>>
  BY Zenon
<1>4. PICK end : end = <<Do("leave_actor")>>
  BY Zenon
<1>5. PICK rest : rest = <<EmitName("ACTOR"), Do("define"), Do("enter_actor"), EmitName("GET"),
                           brace, Repeat("messages"), close, Emit("POP"),
                           Do("leave_actor")>>
  BY Zenon
<1>6. ActorDeclaration = ParseVariable \o rest
  BY <1>a, <1>b, <1>5, Zenon DEF ActorDeclaration
<1>7. rest = s \o (begin \o (t \o end))
  <2>1. PICK after : after = <<EmitName("GET"), brace, Repeat("messages"), close,
                               Emit("POP"), Do("leave_actor")>>
    BY Zenon
  <2>2. after = t \o end
    BY <1>3, <1>4, <2>1
  <2>3. PICK all : all = <<Do("enter_actor"), EmitName("GET"), brace, Repeat("messages"),
                           close, Emit("POP"), Do("leave_actor")>>
    BY Zenon
  <2>4. all = begin \o after
    BY <1>2, <2>1, <2>3
  <2>5. rest = s \o all
    BY <1>1, <1>5, <2>3
  <2>. QED BY <2>2, <2>4, <2>5, Zenon
<1>8. Plains(s)
  BY <1>1, SimpleItems, SimpleDone, PlainOfSimple, PlainLists, Zenon
<1>9. Plains(t)
  <2>1. PICK u : u = <<EmitName("GET"), brace, Repeat("messages")>>
    BY Zenon
  <2>2. PICK v : v = <<close, Emit("POP")>>
    BY Zenon
  <2>3. Plains(u) /\ Plains(v)
    BY <1>a, <1>b, <2>1, <2>2, SimpleItems, SimpleCalls, PlainOfSimple, PlainLists, Zenon
  <2>4. t = u \o v
    BY <1>3, <2>1, <2>2
  <2>. QED BY <2>3, <2>4, PlainsJoined
<1>10. ASSUME NEW a \in AnyLevel, NEW r PROVE Path(s \o (begin \o (t \o end)), a, a, r)
  <2>1. PICK b \in AnyLevel : b = InActor(a, 1) /\ a = InActor(b, -1)
    BY ActorLevels
  <2>2. Do("enter_actor")[1] = "enter_actor" /\ Do("leave_actor")[1] = "leave_actor"
    BY DEF Do, Item
  <2>3. Effect(Do("enter_actor"), a, b, r) /\ Effect(Do("leave_actor"), b, a, r)
    BY <2>1, <2>2, Zenon DEF Effect
  <2>4. Path(begin, a, b, r) /\ Path(end, b, a, r)
    BY <1>2, <1>4, <2>3, PathOne
  <2>5. Path(s, a, a, r) /\ Path(t, b, b, r)
    BY <1>8, <1>9, PlainPath
  <2>6. Path(t \o end, b, a, r)
    BY <2>4, <2>5, PathJoined
  <2>7. Path(begin \o (t \o end), a, a, r)
    BY <2>4, <2>6, PathJoined
  <2>. QED BY <2>5, <2>7, PathJoined
<1>11. ASSUME NEW a \in AnyLevel, NEW r PROVE Path(ParseVariable \o rest, a, a, r)
  <2>1. Path(rest, a, a, r)
    BY <1>7, <1>10, Zenon
  <2>2. Path(ParseVariable, a, a, r)
    BY ParseVariablePlain, PlainPath
  <2>. QED BY <2>1, <2>2, PathJoined
<1>12. List(ParseVariable \o rest)
  BY <1>11, BaseLevel, PathEnds, Zenon
<1>13. List(ParseVariable) /\ List(rest)
  <2>1. Path(rest, Base, Base, Base)
    BY <1>7, <1>10, BaseLevel, Zenon
  <2>. QED BY <2>1, ParseVariablePlain, PathEnds DEF Plains
<1>14. ParseVariable \o rest # <<>>
  BY <1>13, ParseVariablePlain, FullJoined
<1>. QED BY <1>6, <1>11, <1>12, <1>14, Zenon DEF Body

\* A parameter is declared inside a function.
LEMMA ParametersPath ==
  ASSUME NEW a \in AnyLevel, Len(a.depths) > 1, NEW r
  PROVE  Path(Procedure("parameters"), a, a, r)
<1>1. PICK s : s = <<Do("arity")>>
  BY Zenon
<1>2. PICK t : t = <<Do("define"), MoreParameters>>
  BY Zenon
<1>3. Procedure("parameters") = (s \o ParseVariable) \o t
  BY <1>1, <1>2 DEF Procedure, MoreParameters
<1>4. Path(s, a, a, r)
  <2>1. Do("arity")[1] = "arity"
    BY DEF Do, Item
  <2>2. Effect(Do("arity"), a, a, r)
    BY <2>1, Zenon DEF Effect, OfParameters
  <2>. QED BY <1>1, <2>2, PathOne
<1>5. Path(t, a, a, r)
  <2>1. PICK u : u = <<Do("define")>>
    BY Zenon
  <2>2. PICK v : v = <<MoreParameters>>
    BY Zenon
  <2>3. Plains(u)
    BY <2>1, SimpleDone, PlainOfSimple, PlainLists, Zenon
  <2>4. Path(u, a, a, r)
    BY <2>3, PlainPath
  <2>5. Effect(MoreParameters, a, a, r)
    BY Zenon DEF Effect, OfParameters
  <2>6. Path(v, a, a, r)
    BY <2>2, <2>5, PathOne
  <2>7. t = u \o v
    BY <1>2, <2>1, <2>2
  <2>. QED BY <2>4, <2>6, <2>7, PathJoined
<1>6. Path(ParseVariable, a, a, r)
  BY ParseVariablePlain, PlainPath
<1>7. Path(s \o ParseVariable, a, a, r)
  BY <1>4, <1>6, PathJoined
<1>8. Path((s \o ParseVariable) \o t, a, a, r)
  BY <1>5, <1>7, PathJoined
<1>. QED BY <1>3, <1>8, Zenon

\* parse_precedence may return before its end, at the level at which it began.
LEMMA PrecedencePath ==
  ASSUME NEW precedence, NEW a \in AnyLevel
  PROVE  Path(ParsePrecedence(precedence), a, a, a) /\ ParsePrecedence(precedence) # <<>>
<1>1. PICK s : s = <<Advance>>
  BY Zenon
<1>2. PICK t : t = <<Item("prefix", precedence, 0)>>
  BY Zenon
<1>3. PICK u : u = <<Item("infix", precedence, 0)>>
  BY Zenon
<1>4. PICK m : m = Match("=", <<Error>>, <<>>)
  BY Zenon
<1>5. PICK end : end = IF precedence <= PrecAssignment THEN <<m>> ELSE <<>>
  BY Zenon
<1>6. PICK first : first = <<Advance, Item("prefix", precedence, 0), Item("infix", precedence, 0)>>
  BY Zenon
<1>7. ParsePrecedence(precedence) = first \o end
  BY <1>4, <1>5, <1>6, Zenon DEF ParsePrecedence
<1>8. PICK middle : middle = <<Item("prefix", precedence, 0), Item("infix", precedence, 0)>>
  BY Zenon
<1>9. middle = t \o u
  BY <1>2, <1>3, <1>8
<1>10. first = s \o middle
  BY <1>1, <1>6, <1>8
<1>11. Path(t, a, a, a)
  <2>1. Item("prefix", precedence, 0)[1] = "prefix"
    BY DEF Item
  <2>2. Effect(Item("prefix", precedence, 0), a, a, a)
    BY <2>1, Zenon DEF Effect
  <2>. QED BY <1>2, <2>2, PathOne
<1>12. Plains(s) /\ Plains(u) /\ Plains(end)
  <2>1. Plain(m)
    <3>1. Simples(<<Error>>) /\ Simples(<<>>)
      BY SimpleItems, SimpleLists, Zenon
    <3>. QED BY <1>4, <3>1, MatchBySimple
  <2>2. Plains(<<m>>) /\ Plains(<<>>)
    BY <2>1, PlainLists, Zenon
  <2>3. end = <<m>> \/ end = <<>>
    BY <1>5, Zenon
  <2>. QED BY <1>1, <1>3, <2>2, <2>3, SimpleItems, PlainOfSimple, PlainLists, Zenon
<1>13. Path(s, a, a, a) /\ Path(u, a, a, a) /\ Path(end, a, a, a)
  BY <1>12, PlainPath
<1>14. Path(middle, a, a, a)
  BY <1>9, <1>11, <1>13, PathJoined
<1>15. Path(first, a, a, a)
  BY <1>10, <1>13, <1>14, PathJoined
<1>16. Path(first \o end, a, a, a)
  BY <1>13, <1>15, PathJoined
<1>17. first \o end # <<>>
  <2>1. List(first) /\ List(end) /\ first # <<>>
    BY <1>6, <1>13, <1>15 DEF Path
  <2>. QED BY <2>1, FullJoined
<1>. QED BY <1>7, <1>16, <1>17, Zenon


\* Every procedure that is called comes back to the level at which it began.
LEMMA CalledBody == \A p \in Called : Body(Procedure(p))
<1>1. \A t : Plains(t) /\ t # <<>> => Body(t)
  BY PlainBody
<1>2. Body(Procedure("declaration"))
  <2>1. Procedure("declaration") # <<>>
    BY DEF Procedure
  <2>. QED BY <1>1, <2>1, DeclarationPlain, Zenon
<1>3. Body(Procedure("actor_declaration"))
  <2>1. Procedure("actor_declaration") = ActorDeclaration
    BY DEF Procedure
  <2>. QED BY <2>1, ActorBody, Zenon
<1>4. Body(Procedure("message"))
  <2>1. Procedure("message") # <<>>
    BY DEF Procedure
  <2>. QED BY <1>1, <2>1, MessagePlain, Zenon
<1>5. Body(Procedure("message_function")) /\ Body(Procedure("function"))
  <2>1. /\ Procedure("message_function") = Function("message")
        /\ Procedure("function") = Function("function")
    BY DEF Procedure
  <2>2. Body(Function("message")) /\ Body(Function("function"))
    BY FunctionBody
  <2>. QED BY <2>1, <2>2, Zenon
<1>6. Body(Procedure("fun_declaration")) /\ Body(Procedure("var_declaration"))
  <2>1. PICK t : t = <<Call("function"), Do("define")>>
    BY Zenon
  <2>2. PICK u : u = <<Match("=", <<Expression>>, <<Emit("nil")>>), Consume(";"), Do("define")>>
    BY Zenon
  <2>3. List(t) /\ List(u)
    BY <2>1, <2>2, ListOfTwo, ListOfThree
  <2>4. Procedure("fun_declaration") = ParseVariable \o t
    BY <2>1 DEF Procedure
  <2>5. Procedure("var_declaration") = ParseVariable \o u
    BY <2>2 DEF Procedure
  <2>6. List(ParseVariable)
    BY ParseVariablePlain DEF Plains
  <2>7. ParseVariable \o t # <<>> /\ ParseVariable \o u # <<>>
    BY <2>3, <2>6, ParseVariablePlain, FullJoined
  <2>8. Procedure("fun_declaration") # <<>> /\ Procedure("var_declaration") # <<>>
    BY <2>4, <2>5, <2>7, Zenon
  <2>. QED BY <1>1, <2>8, FunDeclarationPlain, VarDeclarationPlain, Zenon
<1>7. /\ Body(Procedure("expression_statement")) /\ Body(Procedure("print"))
      /\ Body(Procedure("block"))
  <2>1. Procedure("expression_statement") # <<>>
    BY DEF Procedure
  <2>2. Procedure("print") # <<>>
    BY DEF Procedure
  <2>3. Procedure("block") # <<>>
    BY DEF Procedure
  <2>. QED BY <1>1, <2>1, <2>2, <2>3, ShortPlain, Zenon
<1>8. Body(Procedure("for"))
  <2>1. Procedure("for") = ForStatement
    BY DEF Procedure
  <2>. QED BY <2>1, ForBody, Zenon
<1>9. Body(Procedure("if"))
  <2>1. Procedure("if") = IfStatement /\ IfStatement # <<>>
    BY DEF Procedure, IfStatement
  <2>. QED BY <1>1, <2>1, IfPlain, Zenon
<1>10. Body(Procedure("while"))
  <2>1. Procedure("while") = WhileStatement /\ WhileStatement # <<>>
    BY DEF Procedure, WhileStatement
  <2>. QED BY <1>1, <2>1, WhilePlain, Zenon
<1>11. Body(Procedure("return"))
  <2>1. Procedure("return") = ReturnStatement /\ ReturnStatement # <<>>
    BY DEF Procedure, ReturnStatement
  <2>. QED BY <1>1, <2>1, ReturnPlain, Zenon
<1>. QED
  BY <1>2, <1>3, <1>4, <1>5, <1>6, <1>7, <1>8, <1>9, <1>10, <1>11, StatementBody, Zenon DEF Called

LEMMA RepeatedPlain == \A p \in Repeated : Plains(Procedure(p))
BY LoopsPlain, Zenon DEF Repeated

-----------------------------------------------------------------------------
(***************************************************************************)
(* The frames.  Every procedure but compile() returns at the level at      *)
(* which its caller goes on, and what compile() has to do is done at the   *)
(* level of the script.                                                    *)
(***************************************************************************)

IsFrame(f) == f = [todo |-> f.todo, place |-> f.place, name |-> f.name, count |-> f.count]

\* What is left to do in a procedure leads from a to b, where it returns.
Good(f, a, b) == IsFrame(f) /\ f.todo # <<>> /\ Path(f.todo, a, b, b)

Turn == <<Call("declaration"), Repeat("compile")>>
Again == <<Repeat("compile")>>
Finish == <<Do("end_compiler")>>
OfCompile(t) == t \in {Procedure("compile"), Turn, Again, Finish}
AtTop(f) == IsFrame(f) /\ OfCompile(f.todo)

\* The levels of the frames.
Chained(fs, h) ==
  /\ h \in [1..Len(fs) -> AnyLevel] /\ h[1] = Base /\ AtTop(fs[1])
  /\ \A k \in 2..Len(fs) : Good(fs[k], h[k], h[k - 1])
ChainTo(fs, a) == List(fs) /\ fs # <<>> /\ \E h : Chained(fs, h) /\ h[Len(fs)] = a

LEMMA FrontIs ==
  ASSUME NEW t, List(t), t # <<>>
  PROVE  /\ List(Front(t)) /\ Len(t) \in Nat /\ Len(t) >= 1 /\ Len(Front(t)) = Len(t) - 1
         /\ Last(t) = t[Len(t)] /\ \A i \in 1..(Len(t) - 1) : Front(t)[i] = t[i]
<1>1. PICK S : t \in Seq(S)
  BY DEF List
<1>2. Len(t) \in Nat /\ Len(t) >= 1 /\ Len(t) - 1 \in 0..Len(t)
  BY <1>1
<1>3. PICK u : u = SubSeq(t, 1, Len(t) - 1)
  BY Zenon
<1>4. u \in Seq(S) /\ Len(u) = Len(t) - 1 /\ \A i \in 1..(Len(t) - 1) : u[i] = t[i]
  BY <1>1, <1>2, <1>3, PrefixIs
<1>. QED BY <1>2, <1>3, <1>4 DEF List, Front, Last

LEMMA AppendIs ==
  ASSUME NEW t, List(t), NEW x
  PROVE  /\ List(Append(t, x)) /\ Len(t) \in Nat /\ Len(Append(t, x)) = Len(t) + 1
         /\ Append(t, x)[Len(t) + 1] = x /\ \A i \in 1..Len(t) : Append(t, x)[i] = t[i]
<1>1. PICK S : t \in Seq(S)
  BY DEF List
<1>2. t \in Seq(S \union {x})
  <2>1. S \subseteq S \union {x}
    OBVIOUS
  <2>. QED BY <1>1, <2>1, SeqOfMore
<1>3. PICK u : u = Append(t, x)
  BY Zenon
<1>4. /\ u \in Seq(S \union {x}) /\ Len(t) \in Nat /\ Len(u) = Len(t) + 1
      /\ u[Len(t) + 1] = x /\ \A i \in 1..Len(t) : u[i] = t[i]
  BY <1>2, <1>3
<1>. QED BY <1>3, <1>4, Zenon DEF List

LEMMA ListsEqual ==
  ASSUME NEW s, List(s), NEW t, List(t), Len(s) = Len(t), \A i \in 1..Len(s) : s[i] = t[i]
  PROVE  s = t
<1>1. PICK S : s \in Seq(S)
  BY DEF List
<1>2. PICK T : t \in Seq(T)
  BY DEF List
<1>. QED BY <1>1, <1>2, SameSeq

\* The frames with another innermost one.
LEMMA LastReplaced ==
  ASSUME NEW t, List(t), t # <<>>, NEW x
  PROVE  [t EXCEPT ![Len(t)] = x] = Append(Front(t), x)
<1>1. PICK S : t \in Seq(S)
  BY DEF List
<1>2. PICK n \in Nat : n = Len(t) /\ n >= 1
  BY <1>1
<1>3. PICK u : u = [t EXCEPT ![n] = x]
  BY Zenon
<1>4. PICK v : v = Append(Front(t), x)
  BY Zenon
<1>5. t \in Seq(S \union {x})
  <2>1. S \subseteq S \union {x}
    OBVIOUS
  <2>. QED BY <1>1, <2>1, SeqOfMore
<1>6. List(u) /\ Len(u) = n /\ u[n] = x /\ \A i \in 1..(n - 1) : u[i] = t[i]
  <2>1. u \in Seq(S \union {x})
    BY <1>2, <1>3, <1>5
  <2>2. Len(u) = n /\ u[n] = x /\ \A i \in 1..(n - 1) : u[i] = t[i]
    BY <1>2, <1>3, <1>5
  <2>. QED BY <2>1, <2>2 DEF List
<1>7. /\ List(Front(t)) /\ Len(Front(t)) = n - 1 /\ \A i \in 1..(n - 1) : Front(t)[i] = t[i]
  BY <1>2, FrontIs
<1>8. /\ List(v) /\ Len(v) = (n - 1) + 1 /\ v[(n - 1) + 1] = x
      /\ \A i \in 1..(n - 1) : v[i] = Front(t)[i]
  <2>1. /\ List(v) /\ Len(v) = Len(Front(t)) + 1 /\ v[Len(Front(t)) + 1] = x
        /\ \A i \in 1..Len(Front(t)) : v[i] = Front(t)[i]
    BY <1>4, <1>7, AppendIs
  <2>. QED BY <1>7, <2>1
<1>9. Len(u) = Len(v) /\ \A i \in 1..Len(u) : u[i] = v[i]
  BY <1>2, <1>6, <1>7, <1>8
<1>10. u = v
  BY <1>6, <1>8, <1>9, ListsEqual
<1>. QED BY <1>2, <1>3, <1>4, <1>10, Zenon

LEMMA ChainPop ==
  ASSUME NEW fs, NEW a, ChainTo(fs, a), Len(fs) # 1
  PROVE  \E b \in AnyLevel : ChainTo(Front(fs), b) /\ Good(Last(fs), a, b)
<1>1. List(fs) /\ fs # <<>>
  BY DEF ChainTo
<1>2. PICK h : Chained(fs, h) /\ h[Len(fs)] = a
  BY DEF ChainTo
<1>3. PICK n \in Nat : n = Len(fs)
  BY <1>1, ListLength
<1>4. PICK t : t = Front(fs)
  BY Zenon
<1>5. /\ List(t) /\ n >= 2 /\ Len(t) = n - 1 /\ Last(fs) = fs[n]
      /\ \A i \in 1..(n - 1) : t[i] = fs[i]
  <2>1. /\ List(t) /\ n >= 1 /\ Len(t) = n - 1 /\ Last(fs) = fs[n]
        /\ \A i \in 1..(n - 1) : t[i] = fs[i]
    BY <1>1, <1>3, <1>4, FrontIs
  <2>2. n # 1
    BY <1>3
  <2>. QED BY <2>1, <2>2
<1>6. PICK g : g = [i \in 1..(n - 1) |-> h[i]]
  BY Zenon
<1>7. /\ h \in [1..n -> AnyLevel] /\ h[1] = Base /\ AtTop(fs[1])
      /\ \A k \in 2..n : Good(fs[k], h[k], h[k - 1])
  BY <1>2, <1>3, Zenon DEF Chained
<1>8. /\ n - 1 \in 1..(n - 1) /\ n - 1 \in 1..n /\ 1 \in 1..(n - 1) /\ n \in 2..n
      /\ \A k \in 2..(n - 1) : /\ k \in 1..(n - 1) /\ k - 1 \in 1..(n - 1) /\ k \in 2..n
  BY <1>5
<1>9. g \in [1..(n - 1) -> AnyLevel] /\ g[1] = Base /\ \A i \in 1..(n - 1) : g[i] = h[i]
  BY <1>6, <1>7, <1>8
<1>10. \A k \in 2..(n - 1) : Good(t[k], g[k], g[k - 1])
  BY <1>5, <1>7, <1>8, <1>9
<1>11. Chained(t, g)
  BY <1>5, <1>7, <1>8, <1>9, <1>10 DEF Chained
<1>12. t # <<>>
  BY <1>5, EmptyList
<1>13. ChainTo(t, h[n - 1])
  BY <1>5, <1>8, <1>9, <1>11, <1>12 DEF ChainTo
<1>14. Good(fs[n], h[n], h[n - 1]) /\ h[n - 1] \in AnyLevel
  BY <1>7, <1>8
<1>15. Good(Last(fs), a, h[n - 1])
  BY <1>2, <1>3, <1>5, <1>14
<1>. QED BY <1>4, <1>13, <1>14, <1>15, Zenon

LEMMA ChainPush ==
  ASSUME NEW fs, NEW b, ChainTo(fs, b), NEW f, NEW a \in AnyLevel, Good(f, a, b)
  PROVE  ChainTo(Append(fs, f), a)
<1>1. List(fs) /\ fs # <<>>
  BY DEF ChainTo
<1>2. PICK h : Chained(fs, h) /\ h[Len(fs)] = b
  BY DEF ChainTo
<1>3. PICK n \in Nat : n = Len(fs)
  BY <1>1, ListLength
<1>4. PICK t : t = Append(fs, f)
  BY Zenon
<1>5. List(t) /\ Len(t) = n + 1 /\ t[n + 1] = f /\ \A i \in 1..n : t[i] = fs[i]
  BY <1>1, <1>3, <1>4, AppendIs
<1>6. n >= 1
  BY <1>1, <1>3, FrontIs
<1>7. PICK g : g = [i \in 1..(n + 1) |-> IF i <= n THEN h[i] ELSE a]
  BY Zenon
<1>8. /\ h \in [1..n -> AnyLevel] /\ h[1] = Base /\ AtTop(fs[1])
      /\ \A k \in 2..n : Good(fs[k], h[k], h[k - 1])
  BY <1>2, <1>3, Zenon DEF Chained
<1>9. /\ g \in [1..(n + 1) -> AnyLevel] /\ g[n + 1] = a /\ g[1] = Base
      /\ \A i \in 1..n : g[i] = h[i]
  BY <1>6, <1>7, <1>8
<1>10. ASSUME NEW k \in 2..(n + 1) PROVE Good(t[k], g[k], g[k - 1])
  <2>1. CASE k \in 2..n
    <3>1. k \in 1..n /\ k - 1 \in 1..n
      BY <2>1
    <3>2. t[k] = fs[k] /\ g[k] = h[k] /\ g[k - 1] = h[k - 1]
      BY <1>5, <1>9, <3>1
    <3>. QED BY <1>8, <2>1, <3>2
  <2>2. CASE k = n + 1
    <3>1. k - 1 = n /\ n \in 1..n
      BY <1>6, <2>2
    <3>2. t[k] = f /\ g[k] = a /\ g[k - 1] = b
      BY <1>2, <1>3, <1>5, <1>9, <2>2, <3>1
    <3>. QED BY <3>2
  <2>. QED BY <2>1, <2>2
<1>11. Chained(t, g)
  <2>1. t[1] = fs[1]
    BY <1>5, <1>6
  <2>. QED BY <1>5, <1>8, <1>9, <1>10, <2>1 DEF Chained
<1>12. t # <<>>
  BY <1>5, EmptyList
<1>. QED BY <1>4, <1>5, <1>9, <1>11, <1>12 DEF ChainTo

\* A chain of one frame.
LEMMA ChainOfOne ==
  ASSUME NEW f, AtTop(f)
  PROVE  ChainTo(<<f>>, Base)
<1>1. PICK t : t = <<f>>
  BY Zenon
<1>2. List(t) /\ Len(t) = 1 /\ t[1] = f
  BY <1>1, ListOfOne
<1>3. PICK h : h = [i \in 1..1 |-> Base]
  BY Zenon
<1>4. h \in [1..1 -> AnyLevel] /\ h[1] = Base
  BY <1>3, BaseLevel
<1>5. \A k \in 2..Len(t) : FALSE
  BY <1>2
<1>6. Chained(t, h)
  BY <1>2, <1>4, <1>5 DEF Chained
<1>7. t # <<>>
  BY <1>2, EmptyList
<1>. QED BY <1>1, <1>2, <1>4, <1>6, <1>7 DEF ChainTo

LEMMA ChainIs ==
  ASSUME NEW fs, NEW a, ChainTo(fs, a)
  PROVE  /\ List(fs) /\ fs # <<>> /\ a \in AnyLevel
         /\ Len(fs) = 1 => a = Base /\ AtTop(fs[1])
<1>1. List(fs) /\ fs # <<>>
  BY DEF ChainTo
<1>2. PICK h : Chained(fs, h) /\ h[Len(fs)] = a
  BY DEF ChainTo
<1>3. Len(fs) \in Nat /\ Len(fs) >= 1
  BY <1>1, FrontIs
<1>4. Len(fs) \in 1..Len(fs)
  BY <1>3
<1>. QED BY <1>1, <1>2, <1>4 DEF Chained


-----------------------------------------------------------------------------
(***************************************************************************)
(* The compilers.                                                          *)
(***************************************************************************)

CompilerRecords ==
  [type : {"script", "function", "message"}, depth : Nat, arity : Nat, locals : Seq(Nat)]

\* The locals are in the order of their depths, and only the one that init_compiler makes
\* has depth 0.
Fits(c) ==
  /\ c.locals # <<>> /\ c.locals[1] = 0
  /\ \A i \in 2..Len(c.locals) : c.locals[i] \in 1..c.depth
  /\ \A i, j \in 1..Len(c.locals) : i <= j => c.locals[i] <= c.locals[j]

FittingCompilers(cs) ==
  /\ cs \in Seq(CompilerRecords) /\ cs # <<>>
  /\ cs[1].type = "script" /\ cs[1].arity = 0
  /\ \A i \in 1..Len(cs) : Fits(cs[i])

LevelOf(n, cs) == [actors |-> n, depths |-> [i \in 1..Len(cs) |-> cs[i].depth]]

\* The level at which the parser is.
Level == LevelOf(actors, compilers)

\* While the parser is at work, what is left to do in all the frames leads from where it is
\* back to the level of the script.
IInv ==
  frames # <<>> =>
    /\ actors \in Nat /\ FittingCompilers(compilers)
    /\ ChainTo(frames, Level)

LEMMA LastCompiler ==
  ASSUME NEW cs, FittingCompilers(cs)
  PROVE  /\ Last(cs) \in CompilerRecords /\ Fits(Last(cs)) /\ Last(cs) = cs[Len(cs)]
         /\ Len(cs) \in Nat /\ Len(cs) >= 1
         /\ Last(cs) = [type |-> Last(cs).type, depth |-> Last(cs).depth,
                        arity |-> Last(cs).arity, locals |-> Last(cs).locals]
<1>1. cs \in Seq(CompilerRecords) /\ cs # <<>> /\ \A i \in 1..Len(cs) : Fits(cs[i])
  BY DEF FittingCompilers
<1>2. Len(cs) \in Nat /\ Len(cs) >= 1 /\ Len(cs) \in 1..Len(cs)
  BY <1>1
<1>3. cs[Len(cs)] \in CompilerRecords /\ Fits(cs[Len(cs)])
  BY <1>1, <1>2
<1>4. \A c \in CompilerRecords : c = [type |-> c.type, depth |-> c.depth, arity |-> c.arity,
                                      locals |-> c.locals]
  BY DEF CompilerRecords
<1>. QED BY <1>2, <1>3, <1>4, Zenon DEF Last

LEMMA LevelFields ==
  ASSUME NEW n, NEW cs, FittingCompilers(cs)
  PROVE  /\ LevelOf(n, cs).actors = n /\ Len(LevelOf(n, cs).depths) = Len(cs)
         /\ \A i \in 1..Len(cs) : LevelOf(n, cs).depths[i] = cs[i].depth
         /\ LevelOf(n, cs).depths \in Seq(Nat)
<1>1. cs \in Seq(CompilerRecords)
  BY DEF FittingCompilers
<1>2. PICK m \in Nat : m = Len(cs)
  BY <1>1
<1>3. \A i \in 1..m : cs[i].depth \in Nat
  <2>1. \A c \in CompilerRecords : c.depth \in Nat
    BY DEF CompilerRecords
  <2>2. \A i \in 1..m : cs[i] \in CompilerRecords
    BY <1>1, <1>2
  <2>. QED BY <2>1, <2>2
<1>4. PICK d : d = [i \in 1..m |-> cs[i].depth]
  BY Zenon
<1>5. d \in Seq(Nat) /\ Len(d) = m /\ \A i \in 1..m : d[i] = cs[i].depth
  BY <1>3, <1>4
<1>6. LevelOf(n, cs) = [actors |-> n, depths |-> d]
  BY <1>2, <1>4, Zenon DEF LevelOf
<1>. QED BY <1>2, <1>5, <1>6

\* Another compiler in the place of the innermost.
LEMMA Updated ==
  ASSUME NEW cs, FittingCompilers(cs), NEW c \in CompilerRecords, Fits(c),
         Len(cs) = 1 => c.type = "script" /\ c.arity = 0,
         NEW n, NEW new, new = [cs EXCEPT ![Len(cs)] = c]
  PROVE  /\ FittingCompilers(new) /\ Len(new) = Len(cs)
         /\ LevelOf(n, new) = [actors |-> n,
                               depths |-> [LevelOf(n, cs).depths EXCEPT ![Len(cs)] = c.depth]]
<1>1. cs \in Seq(CompilerRecords) /\ cs # <<>> /\ \A i \in 1..Len(cs) : Fits(cs[i])
  BY DEF FittingCompilers
<1>2. PICK m \in Nat : m = Len(cs) /\ m >= 1
  BY <1>1
<1>3. PICK u : u = [cs EXCEPT ![m] = c]
  BY Zenon
<1>4. /\ u \in Seq(CompilerRecords) /\ Len(u) = m /\ u[m] = c
      /\ \A i \in 1..m : i # m => u[i] = cs[i]
  BY <1>1, <1>2, <1>3
<1>5. u # <<>>
  BY <1>2, <1>4
<1>6. \A i \in 1..m : Fits(u[i])
  BY <1>1, <1>2, <1>4
<1>7. u[1].type = "script" /\ u[1].arity = 0
  <2>1. cs[1].type = "script" /\ cs[1].arity = 0
    BY DEF FittingCompilers
  <2>2. CASE m = 1
    BY <1>2, <1>4, <2>2
  <2>3. CASE m # 1
    <3>1. u[1] = cs[1]
      BY <1>2, <1>4, <2>3
    <3>. QED BY <2>1, <3>1
  <2>. QED BY <2>2, <2>3
<1>8. FittingCompilers(u)
  BY <1>4, <1>5, <1>6, <1>7 DEF FittingCompilers
<1>9. PICK d : d = LevelOf(n, cs).depths
  BY Zenon
<1>10. d \in Seq(Nat) /\ Len(d) = m /\ \A i \in 1..m : d[i] = cs[i].depth
  BY <1>2, <1>9, LevelFields
<1>11. PICK e : e = [d EXCEPT ![m] = c.depth]
  BY Zenon
<1>12. c.depth \in Nat
  BY DEF CompilerRecords
<1>13. e \in Seq(Nat) /\ Len(e) = m /\ e[m] = c.depth /\ \A i \in 1..m : i # m => e[i] = d[i]
  BY <1>2, <1>10, <1>11, <1>12
<1>14. \A i \in 1..m : e[i] = u[i].depth
  BY <1>4, <1>10, <1>13
<1>15. PICK v : v = [i \in 1..m |-> u[i].depth]
  BY Zenon
<1>16. v \in Seq(Nat) /\ Len(v) = m /\ \A i \in 1..m : v[i] = u[i].depth
  <2>1. \A i \in 1..m : u[i].depth \in Nat
    <3>1. \A r \in CompilerRecords : r.depth \in Nat
      BY DEF CompilerRecords
    <3>2. \A i \in 1..m : u[i] \in CompilerRecords
      BY <1>4
    <3>. QED BY <3>1, <3>2
  <2>. QED BY <1>15, <2>1
<1>17. v = e
  <2>1. \A i \in 1..Len(v) : v[i] = e[i]
    BY <1>14, <1>16
  <2>. QED BY <1>13, <1>16, <2>1, SameSeq
<1>18. LevelOf(n, u) = [actors |-> n, depths |-> e]
  BY <1>4, <1>15, <1>17, Zenon DEF LevelOf
<1>19. new = u
  BY <1>2, <1>3, Zenon
<1>. QED BY <1>2, <1>4, <1>8, <1>9, <1>11, <1>18, <1>19, Zenon

\* init_compiler and end_compiler.
LEMMA OneMore ==
  ASSUME NEW cs, FittingCompilers(cs), NEW type \in {"function", "message"},
         NEW n, NEW new, new = Append(cs, NewCompiler(type))
  PROVE  FittingCompilers(new) /\ LevelOf(n, new) = InFunction(LevelOf(n, cs))
<1>1. /\ cs \in Seq(CompilerRecords) /\ cs # <<>> /\ \A i \in 1..Len(cs) : Fits(cs[i])
      /\ cs[1].type = "script" /\ cs[1].arity = 0
  BY DEF FittingCompilers
<1>2. PICK m \in Nat : m = Len(cs) /\ m >= 1
  BY <1>1
<1>3. PICK c : c = NewCompiler(type)
  BY Zenon
<1>4. c \in CompilerRecords /\ Fits(c) /\ c.depth = 0
  <2>1. c = [type |-> type, depth |-> 0, arity |-> 0, locals |-> <<0>>]
    BY <1>3 DEF NewCompiler
  <2>2. PICK l : l = <<0>>
    BY Zenon
  <2>3. l \in Seq(Nat) /\ Len(l) = 1 /\ l[1] = 0 /\ l # <<>>
    BY <2>2
  <2>4. c.locals = l /\ c.depth = 0 /\ c \in CompilerRecords
    BY <2>1, <2>2, <2>3 DEF CompilerRecords
  <2>5. Fits(c)
    <3>1. \A i \in 2..Len(l) : l[i] \in 1..0
      BY <2>3
    <3>2. \A i, j \in 1..Len(l) : i <= j => l[i] <= l[j]
      <4>1. \A i \in 1..Len(l) : i = 1
        BY <2>3
      <4>2. \A i \in 1..Len(l) : l[i] = 0
        BY <2>3, <4>1
      <4>. QED BY <4>2
    <3>. QED BY <2>3, <2>4, <3>1, <3>2, Zenon DEF Fits
  <2>. QED BY <2>4, <2>5
<1>5. PICK u : u = Append(cs, c)
  BY Zenon
<1>6. /\ u \in Seq(CompilerRecords) /\ Len(u) = m + 1 /\ u[m + 1] = c
      /\ \A i \in 1..m : u[i] = cs[i]
  BY <1>1, <1>2, <1>4, <1>5
<1>7. FittingCompilers(u)
  <2>1. u # <<>>
    BY <1>2, <1>6
  <2>2. u[1] = cs[1]
    BY <1>2, <1>6
  <2>3. \A i \in 1..(m + 1) : i = m + 1 \/ i \in 1..m
    OBVIOUS
  <2>4. \A i \in 1..Len(u) : Fits(u[i])
    BY <1>1, <1>2, <1>4, <1>6, <2>3
  <2>. QED BY <1>1, <1>6, <2>1, <2>2, <2>4 DEF FittingCompilers
<1>8. PICK d : d = LevelOf(n, cs).depths
  BY Zenon
<1>9. d \in Seq(Nat) /\ Len(d) = m /\ \A i \in 1..m : d[i] = cs[i].depth
  BY <1>2, <1>8, LevelFields
<1>10. PICK e : e = Append(d, 0)
  BY Zenon
<1>11. e \in Seq(Nat) /\ Len(e) = m + 1 /\ e[m + 1] = 0 /\ \A i \in 1..m : e[i] = d[i]
  BY <1>9, <1>10
<1>12. PICK v : v = LevelOf(n, u).depths
  BY Zenon
<1>13. v \in Seq(Nat) /\ Len(v) = m + 1 /\ \A i \in 1..(m + 1) : v[i] = u[i].depth
  BY <1>6, <1>7, <1>12, LevelFields
<1>14. v = e
  <2>1. ASSUME NEW i \in 1..(m + 1) PROVE v[i] = e[i]
    <3>1. CASE i = m + 1
      BY <1>4, <1>6, <1>11, <1>13, <3>1
    <3>2. CASE i \in 1..m
      BY <1>6, <1>9, <1>11, <1>13, <3>2
    <3>. QED BY <3>1, <3>2
  <2>2. Len(v) = Len(e) /\ \A i \in 1..Len(v) : v[i] = e[i]
    BY <1>11, <1>13, <2>1
  <2>. QED BY <1>11, <1>13, <2>2, SameSeq
<1>15. LevelOf(n, u) = [actors |-> n, depths |-> v]
  BY <1>12 DEF LevelOf
<1>16. InFunction(LevelOf(n, cs)) = [actors |-> n, depths |-> e]
  <2>1. LevelOf(n, cs).actors = n
    BY DEF LevelOf
  <2>. QED BY <1>8, <1>10, <2>1, Zenon DEF InFunction
<1>17. new = u
  BY <1>3, <1>5
<1>. QED BY <1>7, <1>14, <1>15, <1>16, <1>17, Zenon

LEMMA OneLess ==
  ASSUME NEW cs, FittingCompilers(cs), Len(cs) > 1, NEW n
  PROVE  FittingCompilers(Front(cs)) /\ LevelOf(n, Front(cs)) = Outside(LevelOf(n, cs))
<1>1. /\ cs \in Seq(CompilerRecords) /\ cs # <<>> /\ \A i \in 1..Len(cs) : Fits(cs[i])
      /\ cs[1].type = "script" /\ cs[1].arity = 0
  BY DEF FittingCompilers
<1>2. PICK m \in Nat : Len(cs) = m + 1 /\ m >= 1
  <2>1. Len(cs) \in Nat
    BY <1>1
  <2>2. Len(cs) - 1 \in Nat /\ Len(cs) = (Len(cs) - 1) + 1 /\ Len(cs) - 1 >= 1
    BY <2>1
  <2>. QED BY <2>2
<1>3. PICK u : u = SubSeq(cs, 1, m)
  BY Zenon
<1>4. u \in Seq(CompilerRecords) /\ Len(u) = m /\ \A i \in 1..m : u[i] = cs[i]
  <2>1. m \in 0..Len(cs)
    BY <1>2
  <2>. QED BY <1>1, <1>3, <2>1, PrefixIs
<1>5. FittingCompilers(u)
  <2>1. u # <<>>
    BY <1>2, <1>4
  <2>2. u[1] = cs[1] /\ \A i \in 1..m : i \in 1..Len(cs)
    BY <1>2, <1>4
  <2>. QED BY <1>1, <1>4, <2>1, <2>2 DEF FittingCompilers
<1>6. PICK d : d = LevelOf(n, cs).depths
  BY Zenon
<1>7. d \in Seq(Nat) /\ Len(d) = m + 1 /\ \A i \in 1..(m + 1) : d[i] = cs[i].depth
  BY <1>2, <1>6, LevelFields
<1>8. PICK e : e = SubSeq(d, 1, m)
  BY Zenon
<1>9. e \in Seq(Nat) /\ Len(e) = m /\ \A i \in 1..m : e[i] = d[i]
  <2>1. m \in 0..Len(d)
    BY <1>7
  <2>. QED BY <1>7, <1>8, <2>1, PrefixIs
<1>10. PICK v : v = LevelOf(n, u).depths
  BY Zenon
<1>11. v \in Seq(Nat) /\ Len(v) = m /\ \A i \in 1..m : v[i] = u[i].depth
  BY <1>4, <1>5, <1>10, LevelFields
<1>12. v = e
  <2>1. \A i \in 1..m : i \in 1..(m + 1)
    BY <1>2
  <2>2. \A i \in 1..m : v[i] = e[i]
    BY <1>4, <1>7, <1>9, <1>11, <2>1, Zenon
  <2>3. \A i \in 1..Len(v) : v[i] = e[i]
    BY <1>11, <2>2, Zenon
  <2>. QED BY <1>9, <1>11, <2>3, SameSeq
<1>13. (m + 1) - 1 = m
  OBVIOUS
<1>14. Front(cs) = u /\ Front(d) = e
  BY <1>2, <1>3, <1>7, <1>8, <1>13, Zenon DEF Front
<1>15. LevelOf(n, u) = [actors |-> n, depths |-> v]
  BY <1>10 DEF LevelOf
<1>16. Outside(LevelOf(n, cs)) = [actors |-> n, depths |-> e]
  <2>1. LevelOf(n, cs).actors = n
    BY DEF LevelOf
  <2>. QED BY <1>6, <1>14, <2>1, Zenon DEF Outside
<1>. QED BY <1>5, <1>12, <1>14, <1>15, <1>16, Zenon


-----------------------------------------------------------------------------
(***************************************************************************)
(* What each kind of item does.                                            *)
(***************************************************************************)

LEMMA Kinds ==
  /\ \A x : Plain(x) => \/ x[1] \in SimpleKinds \/ x[1] = "choose" \/ x[1] = "check"
                        \/ x[1] = "call" /\ x[2] \in Called
                        \/ x[1] = "repeat" /\ x[2] \in Repeated
  /\ StatementChoice[1] = "choose"
  /\ FirstParameters[1] = "check" /\ MoreParameters[1] = "choose"
  /\ Repeat("parameters")[1] = "repeat" /\ Repeat("parameters")[2] = "parameters"
<1>1. \A x : Plain(x) => \/ x[1] \in SimpleKinds \/ x[1] = "choose" \/ x[1] = "check"
                         \/ x[1] = "call" /\ x[2] \in Called
                         \/ x[1] = "repeat" /\ x[2] \in Repeated
  BY Zenon DEF Plain, Level1, Simple, Choice
<1>2. StatementChoice[1] = "choose"
  BY DEF StatementChoice, Choose, Item
<1>3. FirstParameters[1] = "check"
  BY DEF FirstParameters, Check, Item
<1>4. MoreParameters[1] = "choose"
  BY DEF MoreParameters, Match, Choose, Item
<1>5. Repeat("parameters")[1] = "repeat" /\ Repeat("parameters")[2] = "parameters"
  BY DEF Repeat, Item
<1>. QED BY <1>1, <1>2, <1>3, <1>4, <1>5, Zenon

LEMMA KindOfParameters ==
  \A x : OfParameters(x) =>
    \/ x[1] = "arity"
    \/ x[1] = "check" /\ x = FirstParameters
    \/ x[1] = "choose" /\ x = MoreParameters
    \/ x[1] = "repeat" /\ x[2] = "parameters"
BY Kinds, Zenon DEF OfParameters

LEMMA SimpleEffect ==
  ASSUME NEW x, NEW a, NEW b, NEW r, Effect(x, a, b, r), x[1] \in SimpleKinds
  PROVE  b = a
BY DEF Effect, SimpleKinds

LEMMA CallEffect ==
  ASSUME NEW x, NEW a, NEW b, NEW r, Effect(x, a, b, r), x[1] = "call"
  PROVE  b = a /\ x[2] \in Called
BY Kinds, KindOfParameters DEF Effect, SimpleKinds

LEMMA ScopeEffect ==
  ASSUME NEW x, NEW a, NEW b, NEW r, Effect(x, a, b, r)
  PROVE  /\ x[1] = "begin_scope" => b = Deeper(a, 1)
         /\ x[1] = "end_scope" => b = Deeper(a, -1)
         /\ x[1] = "enter_actor" => b = InActor(a, 1)
         /\ x[1] = "leave_actor" => b = InActor(a, -1)
         /\ x[1] = "init_compiler" => x[2] \in {"function", "message"} /\ b = InFunction(a)
         /\ x[1] = "end_compiler" => Len(a.depths) > 1 /\ b = Outside(a)
         /\ x[1] = "prefix" => b = a /\ a = r
         /\ x[1] = "arity" => b = a /\ Len(a.depths) > 1
BY Kinds, KindOfParameters DEF Effect, SimpleKinds

LEMMA StatementsPath ==
  ASSUME NEW a \in AnyLevel, NEW r
  PROVE  /\ \A t \in DOMAIN StatementChoice[2] : Path(StatementChoice[2][t], a, a, r)
         /\ Path(StatementChoice[3], a, a, r)
<1>1. PICK t : t = <<Call("expression_statement")>>
  BY Zenon
<1>2. StatementChoice[2] = StatementOf /\ StatementChoice[3] = t
  BY <1>1 DEF StatementChoice, Choose, Item
<1>3. Plains(t)
  BY <1>1, SimpleCalls, PlainOfSimple, PlainLists, Zenon
<1>4. Path(t, a, a, r)
  BY <1>3, PlainPath
<1>5. \A x \in DOMAIN StatementOf : Path(StatementOf[x], a, a, r)
  BY StatementPath
<1>. QED BY <1>2, <1>4, <1>5, Zenon

LEMMA ParametersTurn ==
  ASSUME NEW a \in AnyLevel, Len(a.depths) > 1, NEW r
  PROVE  Path(<<Repeat("parameters")>>, a, a, r) /\ Path(<<>>, a, a, r)
<1>1. Effect(Repeat("parameters"), a, a, r)
  BY Zenon DEF Effect, OfParameters
<1>. QED BY <1>1, PathOne, PathNone

\* Every branch of a choice leads where the choice does.
LEMMA ChooseEffect ==
  ASSUME NEW x, NEW a \in AnyLevel, NEW b, NEW r, Effect(x, a, b, r), x[1] = "choose"
  PROVE  b = a /\ (\A t \in DOMAIN x[2] : Path(x[2][t], a, a, r)) /\ Path(x[3], a, a, r)
<1>1. b = a /\ (Plain(x) \/ x = StatementChoice \/ (x = MoreParameters /\ Len(a.depths) > 1))
  BY KindOfParameters DEF Effect
<1>2. \A t : Plains(t) => Path(t, a, a, r)
  BY PlainPath
<1>3. CASE Plain(x)
  <2>1. x[1] \notin SimpleKinds /\ x[1] # "check" /\ x[1] # "call" /\ x[1] # "repeat"
    BY DEF SimpleKinds
  <2>2. (\A t \in DOMAIN x[2] : Levels1(x[2][t])) /\ Levels1(x[3])
    BY <1>3, <2>1, PlainsOfLevels, Zenon DEF Plain, Level1, Simple, Choice
  <2>. QED BY <1>1, <1>2, <2>2, PlainsOfLevels, Zenon
<1>4. CASE x = StatementChoice
  BY <1>1, <1>4, StatementsPath
<1>5. CASE x = MoreParameters /\ Len(a.depths) > 1
  <2>1. PICK t : t = <<Repeat("parameters")>>
    BY Zenon
  <2>2. x[2] = [u \in {","} |-> t] /\ x[3] = <<>>
    BY <1>5, <2>1 DEF MoreParameters, Match, Choose, Item
  <2>3. Path(t, a, a, r) /\ Path(<<>>, a, a, r)
    BY <1>5, <2>1, ParametersTurn
  <2>. QED BY <1>1, <2>2, <2>3
<1>. QED BY <1>1, <1>3, <1>4, <1>5

LEMMA CheckEffect ==
  ASSUME NEW x, NEW a \in AnyLevel, NEW b, NEW r, Effect(x, a, b, r), x[1] = "check"
  PROVE  b = a /\ Path(x[3][1], a, a, r) /\ Path(x[3][2], a, a, r)
<1>1. b = a /\ (Plain(x) \/ (x = FirstParameters /\ Len(a.depths) > 1))
  BY Kinds, KindOfParameters DEF Effect
<1>2. \A t : Plains(t) => Path(t, a, a, r)
  BY PlainPath
<1>3. CASE Plain(x)
  <2>1. x[1] \notin SimpleKinds /\ x[1] # "choose" /\ x[1] # "call" /\ x[1] # "repeat"
    BY DEF SimpleKinds
  <2>2. Levels1(x[3][1]) /\ Levels1(x[3][2])
    BY <1>3, <2>1, PlainsOfLevels, Zenon DEF Plain, Level1, Simple, Choice
  <2>. QED BY <1>1, <1>2, <2>2, PlainsOfLevels, Zenon
<1>4. CASE x = FirstParameters /\ Len(a.depths) > 1
  <2>1. PICK t : t = <<Repeat("parameters")>>
    BY Zenon
  <2>2. x[3][1] = <<>> /\ x[3][2] = t
    BY <1>4, <2>1 DEF FirstParameters, Check, Item
  <2>3. Path(t, a, a, r) /\ Path(<<>>, a, a, r)
    BY <1>4, <2>1, ParametersTurn
  <2>. QED BY <1>1, <2>2, <2>3
<1>. QED BY <1>1, <1>3, <1>4

LEMMA RepeatEffect ==
  ASSUME NEW x, NEW a \in AnyLevel, NEW b, NEW r, Effect(x, a, b, r), x[1] = "repeat"
  PROVE  b = a /\ Path(Procedure(x[2]), a, a, r)
<1>1. b = a /\ (x[2] \in Repeated \/ (x[2] = "parameters" /\ Len(a.depths) > 1))
  BY Kinds, KindOfParameters DEF Effect, SimpleKinds
<1>2. CASE x[2] \in Repeated
  <2>1. Plains(Procedure(x[2]))
    BY <1>2, RepeatedPlain
  <2>. QED BY <1>1, <2>1, PlainPath
<1>3. CASE x[2] = "parameters" /\ Len(a.depths) > 1
  BY <1>1, <1>3, ParametersPath
<1>. QED BY <1>1, <1>2, <1>3


-----------------------------------------------------------------------------
(***************************************************************************)
(* The frames after a step.                                                *)
(***************************************************************************)

LEMMA Replaced ==
  ASSUME NEW f, IsFrame(f), NEW items, NEW g, g = [f EXCEPT !.todo = items \o Tail(@)]
  PROVE  IsFrame(g) /\ g.todo = items \o Tail(f.todo)
<1>1. PICK t : t = items \o Tail(f.todo)
  BY Zenon
<1>2. g = [f EXCEPT !.todo = t]
  BY <1>1, Zenon
<1>3. f = [todo |-> f.todo, place |-> f.place, name |-> f.name, count |-> f.count]
  BY DEF IsFrame
<1>4. g = [todo |-> t, place |-> f.place, name |-> f.name, count |-> f.count]
  BY <1>2, <1>3
<1>. QED BY <1>1, <1>4 DEF IsFrame

LEMMA NewFrameIs == \A body : IsFrame(NewFrame(body)) /\ NewFrame(body).todo = body
BY DEF IsFrame, NewFrame

LEMMA Resumed ==
  ASSUME List(frames), frames # <<>>, NEW a \in AnyLevel, NEW b, ChainTo(Front(frames), b),
         NEW f, IsFrame(f), Path(f.todo, a, b, b)
  PROVE  ChainTo(Continue(f), a)
<1>1. CASE f.todo = <<>>
  <2>1. b = a
    BY <1>1, PathNone
  <2>2. Continue(f) = Front(frames)
    BY <1>1 DEF Continue
  <2>. QED BY <2>1, <2>2
<1>2. CASE f.todo # <<>>
  <2>1. Continue(f) = [frames EXCEPT ![Len(frames)] = f]
    BY <1>2 DEF Continue
  <2>2. [frames EXCEPT ![Len(frames)] = f] = Append(Front(frames), f)
    BY LastReplaced
  <2>3. Good(f, a, b)
    BY <1>2 DEF Good
  <2>4. ChainTo(Append(Front(frames), f), a)
    BY <2>3, ChainPush
  <2>. QED BY <2>1, <2>2, <2>4, Zenon
<1>. QED BY <1>1, <1>2

LEMMA TopListsFull ==
  /\ Procedure("compile") # <<>> /\ Turn # <<>> /\ Again # <<>> /\ Finish # <<>>
<1>1. Procedure("compile") # <<>>
  BY DEF Procedure
<1>. QED BY <1>1 DEF Turn, Again, Finish

LEMMA ResumedAtTop ==
  ASSUME List(frames), Len(frames) = 1, NEW f, AtTop(f)
  PROVE  ChainTo(Continue(f), Base)
<1>1. f.todo # <<>>
  BY TopListsFull, Zenon DEF AtTop, OfCompile
<1>2. PICK t : t = [frames EXCEPT ![Len(frames)] = f]
  BY Zenon
<1>3. Continue(f) = t
  BY <1>1, <1>2 DEF Continue
<1>4. frames # <<>>
  BY EmptyList
<1>5. t = Append(Front(frames), f)
  BY <1>2, <1>4, LastReplaced
<1>6. List(Front(frames)) /\ Len(Front(frames)) = 0
  BY <1>4, FrontIs
<1>7. List(t) /\ Len(t) = 1 /\ t[1] = f
  <2>1. /\ List(t) /\ Len(t) = Len(Front(frames)) + 1 /\ t[Len(Front(frames)) + 1] = f
    BY <1>5, <1>6, AppendIs
  <2>. QED BY <1>6, <2>1
<1>8. PICK u : u = <<f>>
  BY Zenon
<1>9. List(u) /\ Len(u) = 1 /\ u[1] = f
  BY <1>8, ListOfOne
<1>10. t = u
  <2>1. \A i \in 1..Len(t) : i = 1
    BY <1>7
  <2>2. \A i \in 1..Len(t) : t[i] = u[i]
    BY <1>7, <1>9, <2>1, Zenon
  <2>3. Len(t) = Len(u)
    BY <1>7, <1>9
  <2>. QED BY <1>7, <1>9, <2>2, <2>3, ListsEqual
<1>. QED BY <1>3, <1>8, <1>10, ChainOfOne, Zenon

\* Where the innermost procedure is, if it is not compile().
LEMMA TopParts ==
  ASSUME IInv, frames # <<>>, Len(frames) # 1
  PROVE  /\ List(frames) /\ IsFrame(Top) /\ Level \in AnyLevel
         /\ actors \in Nat /\ FittingCompilers(compilers)
         /\ \E a \in AnyLevel, b \in AnyLevel :
              /\ ChainTo(Front(frames), b)
              /\ Effect(It, Level, a, b) /\ Path(Tail(Top.todo), a, b, b)
<1>1. ChainTo(frames, Level) /\ actors \in Nat /\ FittingCompilers(compilers)
  BY DEF IInv
<1>2. List(frames) /\ Level \in AnyLevel
  BY <1>1, ChainIs
<1>3. PICK b \in AnyLevel : ChainTo(Front(frames), b) /\ Good(Last(frames), Level, b)
  BY <1>1, ChainPop
<1>4. IsFrame(Top) /\ Top.todo # <<>> /\ Path(Top.todo, Level, b, b)
  BY <1>3 DEF Good, Top
<1>5. PICK a \in AnyLevel : Effect(Head(Top.todo), Level, a, b) /\ Path(Tail(Top.todo), a, b, b)
  BY <1>4, PathHead
<1>. QED BY <1>1, <1>2, <1>3, <1>4, <1>5 DEF It

\* Where compile() is.
LEMMA AtTopIs ==
  ASSUME IInv, Len(frames) = 1
  PROVE  /\ List(frames) /\ frames # <<>> /\ IsFrame(Top) /\ Level = Base
         /\ actors \in Nat /\ FittingCompilers(compilers)
         /\ \/ /\ It[1] = "choose" /\ Tail(Top.todo) = <<>>
               /\ (\A t \in DOMAIN It[2] : It[2][t] = Finish) /\ It[3] = Turn
            \/ It[1] = "call" /\ It[2] = "declaration" /\ Tail(Top.todo) = Again
            \/ It[1] = "repeat" /\ It[2] = "compile" /\ Tail(Top.todo) = <<>>
            \/ It[1] = "end_compiler" /\ Tail(Top.todo) = <<>>
<1>1. frames # <<>>
  BY EmptyList
<1>2. ChainTo(frames, Level) /\ actors \in Nat /\ FittingCompilers(compilers)
  BY <1>1 DEF IInv
<1>3. List(frames) /\ Level = Base /\ AtTop(frames[1])
  BY <1>2, ChainIs
<1>4. Top = frames[1]
  BY DEF Top, Last
<1>5. IsFrame(Top) /\ Top.todo \in {Procedure("compile"), Turn, Again, Finish}
  BY <1>3, <1>4 DEF AtTop, OfCompile
<1>6. PICK t : t = Top.todo
  BY Zenon
<1>7. CASE t = Procedure("compile")
  <2>1. PICK m : m = Match("eof", Finish, Turn)
    BY Zenon
  <2>2. t = <<m>>
    BY <1>7, <2>1 DEF Procedure, Finish, Turn
  <2>3. Head(t) = m /\ Tail(t) = <<>>
    BY <2>2
  <2>4. m[1] = "choose" /\ m[2] = [x \in {"eof"} |-> Finish] /\ m[3] = Turn
    BY <2>1 DEF Match, Choose, Item
  <2>5. \A x \in DOMAIN m[2] : m[2][x] = Finish
    BY <2>4
  <2>6. It = m
    BY <1>6, <2>3 DEF It
  <2>. QED BY <1>1, <1>2, <1>3, <1>5, <1>6, <2>3, <2>4, <2>5, <2>6, Zenon
<1>8. CASE t = Turn
  <2>1. Head(t) = Call("declaration") /\ Tail(t) = Again
    BY <1>8 DEF Turn, Again
  <2>2. It[1] = "call" /\ It[2] = "declaration"
    BY <1>6, <2>1 DEF It, Call, Item
  <2>. QED BY <1>1, <1>2, <1>3, <1>5, <1>6, <2>1, <2>2, Zenon
<1>9. CASE t = Again
  <2>1. Head(t) = Repeat("compile") /\ Tail(t) = <<>>
    BY <1>9 DEF Again
  <2>2. It[1] = "repeat" /\ It[2] = "compile"
    BY <1>6, <2>1 DEF It, Repeat, Item
  <2>. QED BY <1>1, <1>2, <1>3, <1>5, <1>6, <2>1, <2>2, Zenon
<1>10. CASE t = Finish
  <2>1. Head(t) = Do("end_compiler") /\ Tail(t) = <<>>
    BY <1>10 DEF Finish
  <2>2. It[1] = "end_compiler"
    BY <1>6, <2>1 DEF It, Do, Item
  <2>. QED BY <1>1, <1>2, <1>3, <1>5, <1>6, <2>1, <2>2, Zenon
<1>. QED BY <1>5, <1>6, <1>7, <1>8, <1>9, <1>10, Zenon

\* The invariant after a step.
LEMMA Arrived ==
  ASSUME NEW a, NEW fs, ChainTo(fs, a), frames' = fs,
         actors' \in Nat, FittingCompilers(compilers'), LevelOf(actors', compilers') = a
  PROVE  IInv'
BY DEF IInv, Level

\* A step in a procedure that is not compile() and goes to level a.
LEMMA Stepped ==
  ASSUME List(frames), frames # <<>>, NEW a \in AnyLevel, NEW b, ChainTo(Front(frames), b),
         NEW f, IsFrame(f), Path(f.todo, a, b, b), frames' = Continue(f),
         actors' \in Nat, FittingCompilers(compilers'), LevelOf(actors', compilers') = a
  PROVE  IInv'
<1>1. ChainTo(Continue(f), a)
  BY Resumed
<1>. QED BY <1>1, Arrived

LEMMA ThenChain ==
  ASSUME List(frames), frames # <<>>, IsFrame(Top), NEW a \in AnyLevel, NEW b,
         ChainTo(Front(frames), b), NEW c, NEW items, Path(items, a, c, b),
         Path(Tail(Top.todo), c, b, b)
  PROVE  ChainTo(Then(items), a)
<1>1. PICK f : f = [Top EXCEPT !.todo = items \o Tail(@)]
  BY Zenon
<1>2. IsFrame(f) /\ f.todo = items \o Tail(Top.todo)
  BY <1>1, Replaced
<1>3. Path(items \o Tail(Top.todo), a, b, b)
  BY PathJoined
<1>4. Then(items) = Continue(f)
  BY <1>1 DEF Then
<1>5. Path(f.todo, a, b, b)
  BY <1>2, <1>3
<1>6. ChainTo(Continue(f), a)
  BY <1>2, <1>5, Resumed
<1>. QED BY <1>4, <1>6, Zenon


-----------------------------------------------------------------------------
(***************************************************************************)
(* The actions.                                                            *)
(***************************************************************************)

\* Steps that leave the compilers and the actors alone.
Quiet == UNCHANGED <<compilers, actors>>

LEMMA QuietStep ==
  ASSUME IInv, frames # <<>>, It[1] \in SimpleKinds, Quiet,
         NEW f, IsFrame(f), NEW items, Plains(items), f.todo = items \o Tail(Top.todo),
         frames' = Continue(f)
  PROVE  IInv'
<1>1. Len(frames) # 1
  BY AtTopIs DEF SimpleKinds
<1>2. /\ List(frames) /\ Level \in AnyLevel /\ actors \in Nat /\ FittingCompilers(compilers)
  BY <1>1, TopParts
<1>3. PICK a \in AnyLevel, b \in AnyLevel :
        ChainTo(Front(frames), b) /\ Effect(It, Level, a, b) /\ Path(Tail(Top.todo), a, b, b)
  BY <1>1, TopParts
<1>4. a = Level
  BY <1>3, SimpleEffect
<1>5. Path(items, a, a, b)
  BY PlainPath
<1>6. Path(items \o Tail(Top.todo), a, b, b)
  BY <1>3, <1>5, PathJoined
<1>7. Path(f.todo, a, b, b)
  BY <1>6
<1>8. actors' \in Nat /\ FittingCompilers(compilers') /\ LevelOf(actors', compilers') = a
  BY <1>2, <1>4 DEF Quiet, Level
<1>. QED BY <1>2, <1>3, <1>7, <1>8, Stepped

LEMMA QuietThen ==
  ASSUME IInv, frames # <<>>, It[1] \in SimpleKinds, Quiet,
         NEW items, Plains(items), frames' = Then(items)
  PROVE  IInv'
<1>1. IsFrame(Top)
  <2>1. Len(frames) # 1
    BY AtTopIs DEF SimpleKinds
  <2>. QED BY <2>1, TopParts
<1>2. PICK f : f = [Top EXCEPT !.todo = items \o Tail(@)]
  BY Zenon
<1>3. IsFrame(f) /\ f.todo = items \o Tail(Top.todo)
  BY <1>1, <1>2, Replaced
<1>4. frames' = Continue(f)
  BY <1>2 DEF Then
<1>. QED BY <1>3, <1>4, QuietStep

\* The item is done, and the procedure has stored something.
Stored(f, g) ==
  g = [todo |-> Tail(f.todo), place |-> g.place, name |-> g.name, count |-> g.count]

LEMMA QuietStore ==
  ASSUME IInv, frames # <<>>, It[1] \in SimpleKinds, Quiet,
         NEW g, Stored(Top, g), frames' = Continue(g)
  PROVE  IInv'
<1>1. Len(frames) # 1
  BY AtTopIs DEF SimpleKinds
<1>2. PICK t : t = Tail(Top.todo)
  BY Zenon
<1>3. List(t)
  <2>1. PICK a, b : Path(t, a, b, b)
    BY <1>1, <1>2, TopParts
  <2>. QED BY <2>1 DEF Path
<1>4. IsFrame(g) /\ g.todo = t
  BY <1>2 DEF Stored, IsFrame
<1>5. t = <<>> \o t
  BY <1>3 DEF List
<1>6. Plains(<<>>)
  BY PlainLists
<1>. QED BY <1>2, <1>4, <1>5, <1>6, QuietStep

LEMMA StoredIs ==
  ASSUME NEW f, IsFrame(f)
  PROVE  /\ \A p, v : Stored(f, [f EXCEPT !.todo = Tail(@), !.place[p] = v])
         /\ \A v : Stored(f, [f EXCEPT !.todo = Tail(@), !.name = v])
         /\ Stored(f, [f EXCEPT !.todo = Tail(@), !.count = @ + 1])
<1>1. PICK t : t = Tail(f.todo)
  BY Zenon
<1>2. f = [todo |-> f.todo, place |-> f.place, name |-> f.name, count |-> f.count]
  BY DEF IsFrame
<1>3. ASSUME NEW p, NEW v PROVE Stored(f, [f EXCEPT !.todo = Tail(@), !.place[p] = v])
  <2>1. PICK g : g = [f EXCEPT !.todo = Tail(@), !.place[p] = v]
    BY Zenon
  <2>2. g = [todo |-> t, place |-> [f.place EXCEPT ![p] = v], name |-> f.name, count |-> f.count]
    BY <1>1, <1>2, <2>1
  <2>. QED BY <1>1, <2>1, <2>2 DEF Stored
<1>4. ASSUME NEW v PROVE Stored(f, [f EXCEPT !.todo = Tail(@), !.name = v])
  <2>1. PICK g : g = [f EXCEPT !.todo = Tail(@), !.name = v]
    BY Zenon
  <2>2. g = [todo |-> t, place |-> f.place, name |-> v, count |-> f.count]
    BY <1>1, <1>2, <2>1
  <2>. QED BY <1>1, <2>1, <2>2 DEF Stored
<1>5. Stored(f, [f EXCEPT !.todo = Tail(@), !.count = @ + 1])
  <2>1. PICK g : g = [f EXCEPT !.todo = Tail(@), !.count = @ + 1]
    BY Zenon
  <2>2. g = [todo |-> t, place |-> f.place, name |-> f.name, count |-> f.count + 1]
    BY <1>1, <1>2, <2>1
  <2>. QED BY <1>1, <2>1, <2>2 DEF Stored
<1>. QED BY <1>3, <1>4, <1>5

\* The frame of an item that is not one of compile()'s.
LEMMA SimpleTop ==
  ASSUME IInv, frames # <<>>, It[1] \in SimpleKinds
  PROVE  IsFrame(Top)
<1>1. Len(frames) # 1
  BY AtTopIs DEF SimpleKinds
<1>. QED BY <1>1, TopParts

\* Items that are done without a trace in the frame.
LEMMA ThenSteps ==
  ASSUME IInv,
         \/ DoAdvance \/ DoConsume \/ DoError \/ DoSynchronize \/ DoEmit \/ DoPatch
         \/ DoPatchExit \/ DoLoop \/ DoDefine
  PROVE  IInv'
<1>1. Plains(<<>>)
  BY PlainLists
<1>2. ASSUME DoAdvance PROVE IInv'
  <2>1. frames # <<>> /\ It[1] \in SimpleKinds /\ frames' = Then(<<>>) /\ Quiet
    BY <1>2 DEF DoAdvance, At, SimpleKinds, SameOutput, Quiet
  <2>. QED BY <1>1, <2>1, QuietThen
<1>3. ASSUME DoConsume PROVE IInv'
  <2>1. frames # <<>> /\ It[1] \in SimpleKinds /\ frames' = Then(<<>>) /\ Quiet
    BY <1>3 DEF DoConsume, At, SimpleKinds, SameOutput, Quiet
  <2>. QED BY <1>1, <2>1, QuietThen
<1>4. ASSUME DoError PROVE IInv'
  <2>1. frames # <<>> /\ It[1] \in SimpleKinds /\ frames' = Then(<<>>) /\ Quiet
    BY <1>4 DEF DoError, At, SimpleKinds, SameOutput, Quiet
  <2>. QED BY <1>1, <2>1, QuietThen
<1>5. ASSUME DoSynchronize PROVE IInv'
  <2>1. frames # <<>> /\ It[1] \in SimpleKinds /\ Quiet
    BY <1>5 DEF DoSynchronize, At, SimpleKinds, SameOutput, Quiet
  <2>2. PICK items : items = IF panic THEN <<Do("skip")>> ELSE <<>>
    BY Zenon
  <2>3. frames' = Then(items)
    BY <1>5, <2>2 DEF DoSynchronize
  <2>4. Plains(<<Do("skip")>>)
    BY SimpleDone, PlainOfSimple, PlainLists, Zenon
  <2>5. Plains(items)
    BY <1>1, <2>2, <2>4
  <2>. QED BY <2>1, <2>3, <2>5, QuietThen
<1>6. ASSUME DoEmit PROVE IInv'
  <2>1. frames # <<>> /\ It[1] \in SimpleKinds /\ frames' = Then(<<>>) /\ Quiet
    BY <1>6 DEF DoEmit, Emitted, At, SimpleKinds, Quiet
  <2>. QED BY <1>1, <2>1, QuietThen
<1>7. ASSUME DoPatch PROVE IInv'
  <2>1. frames # <<>> /\ It[1] \in SimpleKinds /\ frames' = Then(<<>>) /\ Quiet
    BY <1>7 DEF DoPatch, At, SimpleKinds, Quiet
  <2>. QED BY <1>1, <2>1, QuietThen
<1>8. ASSUME DoPatchExit PROVE IInv'
  <2>1. frames # <<>> /\ It[1] \in SimpleKinds /\ Quiet
    BY <1>8 DEF DoPatchExit, At, SimpleKinds, SameOutput, Quiet
  <2>2. PICK items : items = IF Top.place["exit_jump"] = NoJump THEN <<>>
                             ELSE <<Patch("exit_jump"), Emit("POP")>>
    BY Zenon
  <2>3. frames' = Then(items)
    BY <1>8, <2>2 DEF DoPatchExit
  <2>4. Plains(<<Patch("exit_jump"), Emit("POP")>>)
    BY SimpleItems, PlainOfSimple, PlainLists, Zenon
  <2>5. Plains(items)
    BY <1>1, <2>2, <2>4
  <2>. QED BY <2>1, <2>3, <2>5, QuietThen
<1>9. ASSUME DoLoop PROVE IInv'
  <2>1. frames # <<>> /\ It[1] \in SimpleKinds /\ frames' = Then(<<>>) /\ Quiet
    BY <1>9 DEF DoLoop, At, SimpleKinds, Quiet
  <2>. QED BY <1>1, <2>1, QuietThen
<1>10. ASSUME DoDefine PROVE IInv'
  <2>1. frames # <<>> /\ It[1] \in SimpleKinds /\ frames' = Then(<<>>) /\ Quiet
    BY <1>10 DEF DoDefine, Emitted, At, SimpleKinds, Quiet
  <2>. QED BY <1>1, <2>1, QuietThen
<1>. QED BY <1>2, <1>3, <1>4, <1>5, <1>6, <1>7, <1>8, <1>9, <1>10

\* Items that leave something in the frame.
LEMMA StoreSteps ==
  ASSUME IInv, DoCount \/ DoJump \/ DoMark \/ DoName
  PROVE  IInv'
<1>1. frames # <<>> /\ It[1] \in SimpleKinds /\ Quiet
  BY DEF DoCount, DoJump, DoMark, DoName, At, SimpleKinds, SameOutput, Quiet
<1>2. IsFrame(Top)
  BY <1>1, SimpleTop
<1>3. \/ \E p, v : frames' = Continue([Top EXCEPT !.todo = Tail(@), !.place[p] = v])
      \/ \E v : frames' = Continue([Top EXCEPT !.todo = Tail(@), !.name = v])
      \/ frames' = Continue([Top EXCEPT !.todo = Tail(@), !.count = @ + 1])
  BY Zenon DEF DoCount, DoJump, DoMark, DoName, SetPlace
<1>4. PICK g : Stored(Top, g) /\ frames' = Continue(g)
  BY <1>2, <1>3, StoredIs, Zenon
<1>. QED BY <1>1, <1>4, QuietStore

\* Skipping goes on, or ends.
LEMMA SkipStep ==
  ASSUME IInv, DoSkip
  PROVE  IInv'
<1>1. frames # <<>> /\ It[1] \in SimpleKinds /\ Quiet
  BY DEF DoSkip, At, SimpleKinds, SameOutput, Quiet
<1>2. frames' = Then(<<>>) \/ UNCHANGED frames
  BY DEF DoSkip
<1>3. CASE frames' = Then(<<>>)
  BY <1>1, <1>3, PlainLists, QuietThen
<1>4. CASE UNCHANGED frames
  BY <1>1, <1>4 DEF IInv, Level, Quiet
<1>. QED BY <1>2, <1>3, <1>4


LEMMA ThenAtTop ==
  ASSUME IInv, Len(frames) = 1, NEW items,
         OfCompile(items \o Tail(Top.todo))
  PROVE  ChainTo(Then(items), Level)
<1>1. List(frames) /\ IsFrame(Top) /\ Level = Base
  BY AtTopIs
<1>2. PICK f : f = [Top EXCEPT !.todo = items \o Tail(@)]
  BY Zenon
<1>3. IsFrame(f) /\ f.todo = items \o Tail(Top.todo)
  BY <1>1, <1>2, Replaced
<1>4. AtTop(f)
  BY <1>3 DEF AtTop
<1>5. Then(items) = Continue(f)
  BY <1>2 DEF Then
<1>6. ChainTo(Continue(f), Base)
  BY <1>1, <1>4, ResumedAtTop
<1>. QED BY <1>1, <1>5, <1>6, Zenon

\* The invariant after a step that leaves the level as it is.
LEMMA Stayed ==
  ASSUME IInv, frames # <<>>, Quiet, NEW fs, ChainTo(fs, Level), frames' = fs
  PROVE  IInv'
<1>1. actors \in Nat /\ FittingCompilers(compilers)
  BY DEF IInv
<1>2. actors' \in Nat /\ FittingCompilers(compilers') /\ LevelOf(actors', compilers') = Level
  BY <1>1 DEF Quiet, Level
<1>. QED BY <1>2, Arrived

\* A choice goes on with one of its branches.
LEMMA ChooseStep ==
  ASSUME IInv, DoChoose
  PROVE  IInv'
<1>1. frames # <<>> /\ It[1] = "choose" /\ Quiet
  BY DEF DoChoose, At, SameOutput, Quiet
<1>2. PICK items : /\ frames' = Then(items)
                   /\ items = It[3] \/ \E t \in DOMAIN It[2] : items = It[2][t]
  BY Zenon DEF DoChoose
<1>3. CASE Len(frames) = 1
  <2>1. Tail(Top.todo) = <<>> /\ (items = Turn \/ items = Finish)
    BY <1>1, <1>2, <1>3, AtTopIs, Zenon
  <2>2. items \o <<>> = items
    BY <2>1 DEF Turn, Finish
  <2>3. OfCompile(items \o Tail(Top.todo))
    BY <2>1, <2>2, Zenon DEF OfCompile
  <2>4. ChainTo(Then(items), Level)
    BY <1>3, <2>3, ThenAtTop
  <2>. QED BY <1>1, <1>2, <2>4, Stayed
<1>4. CASE Len(frames) # 1
  <2>1. List(frames) /\ IsFrame(Top) /\ Level \in AnyLevel
    BY <1>1, <1>4, TopParts
  <2>2. PICK a \in AnyLevel, b \in AnyLevel :
          ChainTo(Front(frames), b) /\ Effect(It, Level, a, b) /\ Path(Tail(Top.todo), a, b, b)
    BY <1>1, <1>4, TopParts
  <2>3. /\ a = Level /\ \A t \in DOMAIN It[2] : Path(It[2][t], Level, Level, b)
        /\ Path(It[3], Level, Level, b)
    BY <1>1, <2>1, <2>2, ChooseEffect
  <2>4. Path(items, a, a, b)
    BY <1>2, <2>3, Zenon
  <2>5. ChainTo(Then(items), a)
    BY <1>1, <2>1, <2>2, <2>4, ThenChain
  <2>. QED BY <1>1, <1>2, <2>3, <2>5, Stayed
<1>. QED BY <1>3, <1>4

LEMMA CheckStep ==
  ASSUME IInv, DoCheck
  PROVE  IInv'
<1>1. frames # <<>> /\ It[1] = "check" /\ Quiet
  BY DEF DoCheck, At, SameOutput, Quiet
<1>2. PICK items : frames' = Then(items) /\ (items = It[3][1] \/ items = It[3][2])
  BY DEF DoCheck
<1>3. Len(frames) # 1
  BY <1>1, AtTopIs
<1>4. List(frames) /\ IsFrame(Top) /\ Level \in AnyLevel
  BY <1>1, <1>3, TopParts
<1>5. PICK a \in AnyLevel, b \in AnyLevel :
        ChainTo(Front(frames), b) /\ Effect(It, Level, a, b) /\ Path(Tail(Top.todo), a, b, b)
  BY <1>1, <1>3, TopParts
<1>6. a = Level /\ Path(It[3][1], Level, Level, b) /\ Path(It[3][2], Level, Level, b)
  BY <1>1, <1>4, <1>5, CheckEffect
<1>7. Path(items, Level, Level, b)
  BY <1>2, <1>6, Zenon
<1>8. ChainTo(Then(items), Level)
  BY <1>1, <1>4, <1>5, <1>6, <1>7, ThenChain
<1>. QED BY <1>1, <1>2, <1>8, Stayed

\* A procedure is entered: its caller goes on after the item.
LEMMA EnterStep ==
  ASSUME IInv, frames # <<>>, Quiet, NEW body, body # <<>>, Path(body, Level, Level, Level),
         NEW fs, ChainTo(fs, Level), frames' = Append(fs, NewFrame(body))
  PROVE  IInv'
<1>1. PICK f : f = NewFrame(body)
  BY Zenon
<1>2. IsFrame(f) /\ f.todo = body
  BY <1>1, NewFrameIs
<1>3. Good(f, Level, Level)
  BY <1>2 DEF Good
<1>4. Level \in AnyLevel
  BY PathEnds
<1>5. ChainTo(Append(fs, f), Level)
  BY <1>3, <1>4, ChainPush
<1>6. frames' = Append(fs, f)
  BY <1>1
<1>. QED BY <1>5, <1>6, Stayed

\* What is left of the caller.
LEMMA Caller ==
  ASSUME IInv, frames # <<>>, Len(frames) # 1, It[1] \in SimpleKinds \union {"call", "prefix"}
  PROVE  ChainTo(Then(<<>>), Level)
<1>1. List(frames) /\ IsFrame(Top) /\ Level \in AnyLevel
  BY TopParts
<1>2. PICK a \in AnyLevel, b \in AnyLevel :
        ChainTo(Front(frames), b) /\ Effect(It, Level, a, b) /\ Path(Tail(Top.todo), a, b, b)
  BY TopParts
<1>3. a = Level
  BY <1>2, SimpleEffect, CallEffect, ScopeEffect
<1>4. Path(<<>>, a, a, b)
  BY PathNone
<1>5. ChainTo(Then(<<>>), a)
  BY <1>1, <1>2, <1>4, ThenChain
<1>. QED BY <1>3, <1>5

LEMMA CallStep ==
  ASSUME IInv, DoCall
  PROVE  IInv'
<1>1. frames # <<>> /\ Quiet
  BY DEF DoCall, At, SameOutput, Quiet
<1>2. Level \in AnyLevel
  BY <1>1, ChainIs DEF IInv
<1>3. CASE At("call") /\ Enter(Procedure(It[2]))
  <2>1. It[1] = "call"
    BY <1>3 DEF At
  <2>2. It[2] \in Called /\ ChainTo(Then(<<>>), Level)
    <3>1. CASE Len(frames) = 1
      <4>1. It[2] = "declaration" /\ Tail(Top.todo) = Again
        BY <2>1, <3>1, AtTopIs
      <4>2. OfCompile(<<>> \o Tail(Top.todo))
        <5>1. <<>> \o Again = Again
          BY DEF Again
        <5>. QED BY <4>1, <5>1, Zenon DEF OfCompile
      <4>3. ChainTo(Then(<<>>), Level)
        BY <3>1, <4>2, ThenAtTop
      <4>. QED BY <4>1, <4>3 DEF Called
    <3>2. CASE Len(frames) # 1
      <4>1. PICK a, b : Effect(It, Level, a, b)
        BY <1>1, <3>2, TopParts
      <4>2. It[2] \in Called
        BY <2>1, <4>1, CallEffect
      <4>. QED BY <1>1, <2>1, <3>2, <4>2, Caller
    <3>. QED BY <3>1, <3>2
  <2>3. PICK body : body = Procedure(It[2])
    BY Zenon
  <2>4. body # <<>> /\ Path(body, Level, Level, Level)
    BY <1>2, <2>2, <2>3, CalledBody, Zenon DEF Body
  <2>5. frames' = Append(Then(<<>>), NewFrame(body))
    BY <1>3, <2>3 DEF Enter
  <2>. QED BY <1>1, <2>2, <2>4, <2>5, EnterStep
<1>4. CASE At("parse") /\ Enter(ParsePrecedence(It[2]))
  <2>1. It[1] = "parse"
    BY <1>4 DEF At
  <2>2. Len(frames) # 1
    BY <2>1, AtTopIs
  <2>3. ChainTo(Then(<<>>), Level)
    BY <1>1, <2>1, <2>2, Caller DEF SimpleKinds
  <2>4. PICK body : body = ParsePrecedence(It[2])
    BY Zenon
  <2>5. body # <<>> /\ Path(body, Level, Level, Level)
    BY <1>2, <2>4, PrecedencePath
  <2>6. frames' = Append(Then(<<>>), NewFrame(body))
    BY <1>4, <2>4 DEF Enter
  <2>. QED BY <1>1, <2>3, <2>5, <2>6, EnterStep
<1>5. CASE At("repeat") /\ frames' = Then(Procedure(It[2]))
  <2>1. It[1] = "repeat"
    BY <1>5 DEF At
  <2>2. PICK items : items = Procedure(It[2])
    BY Zenon
  <2>3. ChainTo(Then(items), Level)
    <3>1. CASE Len(frames) = 1
      <4>1. It[2] = "compile" /\ Tail(Top.todo) = <<>>
        BY <2>1, <3>1, AtTopIs
      <4>2. Procedure("compile") \o <<>> = Procedure("compile")
        BY DEF Procedure
      <4>3. OfCompile(items \o Tail(Top.todo))
        BY <2>2, <4>1, <4>2, Zenon DEF OfCompile
      <4>. QED BY <3>1, <4>3, ThenAtTop
    <3>2. CASE Len(frames) # 1
      <4>1. List(frames) /\ IsFrame(Top)
        BY <1>1, <3>2, TopParts
      <4>2. PICK a \in AnyLevel, b \in AnyLevel :
              /\ ChainTo(Front(frames), b) /\ Effect(It, Level, a, b)
              /\ Path(Tail(Top.todo), a, b, b)
        BY <1>1, <3>2, TopParts
      <4>3. a = Level /\ Path(items, Level, Level, b)
        BY <1>2, <2>1, <2>2, <4>2, RepeatEffect
      <4>. QED BY <1>1, <4>1, <4>2, <4>3, ThenChain
    <3>. QED BY <3>1, <3>2
  <2>. QED BY <1>1, <1>5, <2>2, <2>3, Stayed
<1>. QED BY <1>3, <1>4, <1>5 DEF DoCall

\* Without a prefix rule parse_precedence returns at once, at the level of its caller.
LEMMA PrefixStep ==
  ASSUME IInv, DoPrefix
  PROVE  IInv'
<1>1. frames # <<>> /\ Quiet /\ It[1] = "prefix"
  BY DEF DoPrefix, At, SameOutput, Quiet
<1>2. Len(frames) # 1
  BY <1>1, AtTopIs
<1>3. Level \in AnyLevel
  BY <1>1, <1>2, TopParts
<1>4. CASE Enter(Prefix(previous, It[2] <= PrecAssignment))
  <2>1. ChainTo(Then(<<>>), Level)
    BY <1>1, <1>2, Caller
  <2>2. PICK body : body = Prefix(previous, It[2] <= PrecAssignment)
    BY Zenon
  <2>3. body # <<>> /\ Path(body, Level, Level, Level)
    <3>1. Body(body)
      BY <2>2, PrefixBody
    <3>. QED BY <1>3, <3>1, Zenon DEF Body
  <2>4. frames' = Append(Then(<<>>), NewFrame(body))
    BY <1>4, <2>2 DEF Enter
  <2>. QED BY <1>1, <2>1, <2>3, <2>4, EnterStep
<1>5. CASE frames' = Front(frames)
  <2>1. PICK a, b : ChainTo(Front(frames), b) /\ Effect(It, Level, a, b)
    BY <1>1, <1>2, TopParts
  <2>2. b = Level
    BY <1>1, <2>1, ScopeEffect
  <2>. QED BY <1>1, <1>5, <2>1, <2>2, Stayed
<1>. QED BY <1>4, <1>5 DEF DoPrefix

LEMMA InfixStep ==
  ASSUME IInv, DoInfix
  PROVE  IInv'
<1>1. frames # <<>> /\ Quiet /\ It[1] = "infix"
  BY DEF DoInfix, At, SameOutput, Quiet
<1>2. ChainTo(frames, Level)
  BY <1>1 DEF IInv
<1>3. CASE frames' = Append(frames, NewFrame(Infix(current, It[2] <= PrecAssignment)))
  <2>1. PICK body : body = Infix(current, It[2] <= PrecAssignment)
    BY Zenon
  <2>2. body # <<>> /\ Path(body, Level, Level, Level)
    <3>1. Body(body)
      BY <2>1, InfixBody
    <3>2. Level \in AnyLevel
      BY <1>2, ChainIs
    <3>. QED BY <3>1, <3>2, Zenon DEF Body
  <2>3. frames' = Append(frames, NewFrame(body))
    BY <1>3, <2>1
  <2>. QED BY <1>1, <1>2, <2>2, <2>3, EnterStep
<1>4. CASE frames' = Then(<<>>)
  <2>1. It[1] \in SimpleKinds
    BY <1>1 DEF SimpleKinds
  <2>. QED BY <1>1, <1>4, <2>1, PlainLists, QuietThen
<1>. QED BY <1>3, <1>4 DEF DoInfix


-----------------------------------------------------------------------------
(***************************************************************************)
(* Scopes, functions and actors.                                           *)
(***************************************************************************)

\* After an item that begins or ends something, the parser is where the item leads.
LEMMA Beyond ==
  ASSUME IInv, frames # <<>>, Len(frames) # 1
  PROVE  \E a \in AnyLevel, b \in AnyLevel : Effect(It, Level, a, b) /\ ChainTo(Then(<<>>), a)
<1>1. List(frames) /\ IsFrame(Top)
  BY TopParts
<1>2. PICK a \in AnyLevel, b \in AnyLevel :
        ChainTo(Front(frames), b) /\ Effect(It, Level, a, b) /\ Path(Tail(Top.todo), a, b, b)
  BY TopParts
<1>3. Path(<<>>, a, a, b)
  BY PathNone
<1>4. ChainTo(Then(<<>>), a)
  BY <1>1, <1>2, <1>3, ThenChain
<1>. QED BY <1>2, <1>4

LEMMA DeeperIs ==
  ASSUME NEW cs, FittingCompilers(cs), NEW n, NEW d
  PROVE  Deeper(LevelOf(n, cs), d)
           = [actors |-> n,
              depths |-> [LevelOf(n, cs).depths EXCEPT ![Len(cs)] = Last(cs).depth + d]]
<1>1. PICK s : s = LevelOf(n, cs).depths
  BY Zenon
<1>2. Len(s) = Len(cs) /\ LevelOf(n, cs).actors = n /\ s[Len(cs)] = Last(cs).depth
  <2>1. Len(s) = Len(cs) /\ \A i \in 1..Len(cs) : s[i] = cs[i].depth
    BY <1>1, LevelFields
  <2>2. Len(cs) \in 1..Len(cs) /\ Last(cs) = cs[Len(cs)]
    BY LastCompiler
  <2>. QED BY <2>1, <2>2 DEF LevelOf
<1>. QED BY <1>1, <1>2, Zenon DEF Deeper

\* The innermost compiler changes.
LEMMA CompilerStep ==
  ASSUME IInv, frames # <<>>, NEW c \in CompilerRecords, Fits(c), Update(c),
         Len(compilers) = 1 => c.type = Current.type /\ c.arity = Current.arity,
         UNCHANGED actors
  PROVE  /\ actors' \in Nat /\ FittingCompilers(compilers')
         /\ \A d : c.depth = Current.depth + d
                     => LevelOf(actors', compilers') = Deeper(Level, d)
<1>1. actors \in Nat /\ FittingCompilers(compilers)
  BY DEF IInv
<1>2. PICK cs : cs = compilers
  BY Zenon
<1>3. FittingCompilers(cs) /\ Current = Last(cs)
  BY <1>1, <1>2 DEF Current
<1>4. Last(cs) = cs[Len(cs)] /\ cs[1].type = "script" /\ cs[1].arity = 0
  BY <1>3, LastCompiler DEF FittingCompilers
<1>5. Len(cs) = 1 => c.type = "script" /\ c.arity = 0
  BY <1>2, <1>3, <1>4
<1>6. PICK new : new = [cs EXCEPT ![Len(cs)] = c]
  BY Zenon
<1>7. /\ FittingCompilers(new)
      /\ LevelOf(actors, new) = [actors |-> actors,
                                 depths |-> [LevelOf(actors, cs).depths EXCEPT ![Len(cs)] = c.depth]]
  <2>1. FittingCompilers(cs) /\ c \in CompilerRecords /\ Fits(c)
    BY <1>3
  <2>. QED BY <2>1, <1>5, <1>6, Updated, Zenon
<1>8. compilers' = new /\ actors' = actors
  BY <1>2, <1>6 DEF Update
<1>9. ASSUME NEW d, c.depth = Current.depth + d
      PROVE  LevelOf(actors, new) = Deeper(LevelOf(actors, cs), d)
  <2>1. Deeper(LevelOf(actors, cs), d)
          = [actors |-> actors,
             depths |-> [LevelOf(actors, cs).depths EXCEPT ![Len(cs)] = Last(cs).depth + d]]
    BY <1>3, DeeperIs
  <2>. QED BY <1>3, <1>7, <1>9, <2>1, Zenon
<1>. QED BY <1>1, <1>2, <1>7, <1>8, <1>9, Zenon DEF Level

\* A level that is neither higher nor lower.
LEMMA NotDeeper ==
  ASSUME NEW a \in AnyLevel
  PROVE  Deeper(a, 0) = a
<1>1. /\ a.depths \in Seq(Nat) /\ Len(a.depths) \in Nat /\ Len(a.depths) >= 1
      /\ a = [actors |-> a.actors, depths |-> a.depths]
  BY LevelIs
<1>2. PICK s \in Seq(Nat) : s = a.depths
  BY <1>1
<1>3. PICK n \in Nat : n = Len(s) /\ n >= 1
  BY <1>1, <1>2
<1>4. s[n] \in Nat /\ s[n] + 0 = s[n]
  <2>1. s[n] \in Nat
    BY <1>3
  <2>. QED BY <2>1
<1>5. PICK u : u = [s EXCEPT ![n] = s[n]]
  BY Zenon
<1>6. u \in Seq(Nat) /\ Len(u) = n /\ \A i \in 1..n : u[i] = s[i]
  BY <1>3, <1>4, <1>5
<1>7. u = s
  BY <1>3, <1>6, SameSeq
<1>8. Deeper(a, 0) = [actors |-> a.actors, depths |-> [s EXCEPT ![n] = s[n] + 0]]
  BY <1>2, <1>3, Zenon DEF Deeper
<1>. QED BY <1>1, <1>2, <1>4, <1>5, <1>7, <1>8, Zenon

LEMMA CurrentIs ==
  ASSUME IInv, frames # <<>>
  PROVE  /\ Fits(Current) /\ FittingCompilers(compilers) /\ actors \in Nat
         /\ Current.type \in {"script", "function", "message"} /\ Current.depth \in Nat
         /\ Current.arity \in Nat /\ Current.locals \in Seq(Nat)
         /\ Current = [type |-> Current.type, depth |-> Current.depth, arity |-> Current.arity,
                       locals |-> Current.locals]
<1>1. FittingCompilers(compilers) /\ actors \in Nat
  BY DEF IInv
<1>2. PICK c : c = Current
  BY Zenon
<1>3. c \in CompilerRecords /\ Fits(c)
  BY <1>1, <1>2, LastCompiler DEF Current
<1>4. /\ c.type \in {"script", "function", "message"} /\ c.depth \in Nat /\ c.arity \in Nat
      /\ c.locals \in Seq(Nat)
      /\ c = [type |-> c.type, depth |-> c.depth, arity |-> c.arity, locals |-> c.locals]
  BY <1>3 DEF CompilerRecords
<1>. QED BY <1>1, <1>2, <1>3, <1>4, Zenon

LEMMA BeginScopeStep ==
  ASSUME IInv, DoBeginScope
  PROVE  IInv'
<1>1. frames # <<>> /\ It[1] = "begin_scope" /\ frames' = Then(<<>>) /\ UNCHANGED actors
  BY DEF DoBeginScope, At
<1>2. Len(frames) # 1
  BY <1>1, AtTopIs
<1>3. PICK a \in AnyLevel, b \in AnyLevel : Effect(It, Level, a, b) /\ ChainTo(Then(<<>>), a)
  BY <1>1, <1>2, Beyond
<1>4. a = Deeper(Level, 1)
  BY <1>1, <1>3, ScopeEffect
<1>5. PICK o : o = Current
  BY Zenon
<1>6. /\ Fits(o) /\ o.type \in {"script", "function", "message"} /\ o.depth \in Nat
      /\ o.arity \in Nat /\ o.locals \in Seq(Nat)
      /\ o = [type |-> o.type, depth |-> o.depth, arity |-> o.arity, locals |-> o.locals]
  BY <1>1, <1>5, CurrentIs
<1>7. PICK c : c = [o EXCEPT !.depth = @ + 1]
  BY Zenon
<1>8. c = [type |-> o.type, depth |-> o.depth + 1, arity |-> o.arity, locals |-> o.locals]
  BY <1>6, <1>7
<1>9. c \in CompilerRecords /\ Fits(c)
  <2>1. /\ c.type = o.type /\ c.depth = o.depth + 1 /\ c.arity = o.arity /\ c.locals = o.locals
        /\ c \in CompilerRecords
    BY <1>6, <1>8 DEF CompilerRecords
  <2>2. 1..o.depth \subseteq 1..(o.depth + 1)
    BY <1>6
  <2>3. Fits(c)
    BY <1>6, <2>1, <2>2, Zenon DEF Fits
  <2>. QED BY <2>1, <2>3
<1>10. c.type = Current.type /\ c.arity = Current.arity /\ c.depth = Current.depth + 1
  BY <1>5, <1>8
<1>11. Update(c)
  BY <1>5, <1>7 DEF DoBeginScope
<1>12. actors' \in Nat /\ FittingCompilers(compilers') /\ LevelOf(actors', compilers') = Deeper(Level, 1)
  BY <1>1, <1>9, <1>10, <1>11, CompilerStep
<1>. QED BY <1>1, <1>3, <1>4, <1>12, Arrived


\* end_scope drops the locals from the last one that stays.
LEMMA EndScopeStep ==
  ASSUME IInv, DoEndScope
  PROVE  IInv'
<1>1. frames # <<>> /\ It[1] = "end_scope" /\ frames' = Then(<<>>) /\ UNCHANGED actors
  BY DEF DoEndScope, At
<1>2. Len(frames) # 1
  BY <1>1, AtTopIs
<1>3. PICK a \in AnyLevel, b \in AnyLevel : Effect(It, Level, a, b) /\ ChainTo(Then(<<>>), a)
  BY <1>1, <1>2, Beyond
<1>4. a = Deeper(Level, -1)
  BY <1>1, <1>3, ScopeEffect
<1>5. PICK o : o = Current
  BY Zenon
<1>6. /\ Fits(o) /\ o.type \in {"script", "function", "message"} /\ o.depth \in Nat
      /\ o.arity \in Nat /\ o.locals \in Seq(Nat)
      /\ o = [type |-> o.type, depth |-> o.depth, arity |-> o.arity, locals |-> o.locals]
  BY <1>1, <1>5, CurrentIs
<1>7. o.depth - 1 \in Nat
  <2>1. PICK cs : cs = compilers
    BY Zenon
  <2>2. FittingCompilers(cs) /\ o = Last(cs)
    BY <1>1, <1>5, <2>1, CurrentIs DEF Current
  <2>3. PICK d : d = LevelOf(actors, cs).depths
    BY Zenon
  <2>4. d \in Seq(Nat) /\ Len(d) = Len(cs)
    BY <2>2, <2>3, LevelFields
  <2>5. Len(cs) \in Nat /\ Len(cs) >= 1
    BY <2>2, LastCompiler
  <2>6. PICK e : e = [d EXCEPT ![Len(cs)] = o.depth + (-1)]
    BY Zenon
  <2>7. Deeper(Level, -1) = [actors |-> actors, depths |-> e]
    BY <2>1, <2>2, <2>3, <2>6, DeeperIs DEF Level
  <2>8. e \in Seq(Nat)
    BY <1>4, <2>7 DEF AnyLevel
  <2>9. Len(e) = Len(cs) /\ e[Len(cs)] = o.depth + (-1)
    BY <2>4, <2>5, <2>6
  <2>10. o.depth + (-1) \in Nat
    BY <2>5, <2>8, <2>9
  <2>. QED BY <1>6, <2>10
<1>8. PICK l \in Seq(Nat) : l = o.locals
  BY <1>6
<1>9. PICK d \in Nat : d = o.depth /\ d - 1 \in Nat
  BY <1>6, <1>7
<1>10. PICK n \in Nat : n = Len(l) /\ n >= 1
  <2>1. l # <<>>
    BY <1>6, <1>8 DEF Fits
  <2>. QED BY <2>1
<1>11. /\ l[1] = 0 /\ \A i \in 2..n : l[i] \in 1..d
       /\ \A i, j \in 1..n : i <= j => l[i] <= l[j]
  BY <1>6, <1>8, <1>9, <1>10, Zenon DEF Fits
<1>12. PICK staying : staying = {i \in DOMAIN l : l[i] < d}
  BY Zenon
<1>13. staying \in SUBSET (1..n) /\ 1 \in staying
  <2>1. DOMAIN l = 1..n
    BY <1>10
  <2>. QED BY <1>9, <1>10, <1>11, <1>12, <2>1
<1>14. PICK m \in staying : \A j \in staying : m >= j
  <2>1. staying # {}
    BY <1>13
  <2>. QED BY <1>13, <2>1, GreatestElement
<1>15. PICK top : top = Max(staying)
  BY Zenon
<1>16. top \in staying
  BY <1>14, <1>15, Zenon DEF Max
<1>17. top \in 1..n /\ l[top] < d
  BY <1>12, <1>13, <1>16
<1>18. PICK kept : kept = SubSeq(l, 1, top)
  BY Zenon
<1>19. kept \in Seq(Nat) /\ Len(kept) = top /\ \A i \in 1..top : kept[i] = l[i]
  <2>1. top \in 0..Len(l)
    BY <1>10, <1>17
  <2>. QED BY <1>18, <2>1, PrefixIs
<1>20. PICK c : c = [o EXCEPT !.depth = @ - 1, !.locals = kept]
  BY Zenon
<1>21. c = [type |-> o.type, depth |-> d - 1, arity |-> o.arity, locals |-> kept]
  BY <1>6, <1>9, <1>20
<1>22. /\ c.type = o.type /\ c.depth = d - 1 /\ c.arity = o.arity /\ c.locals = kept
       /\ c \in CompilerRecords
  BY <1>6, <1>9, <1>19, <1>21 DEF CompilerRecords
<1>23. Fits(c)
  <2>1. kept # <<>> /\ kept[1] = 0
    BY <1>11, <1>17, <1>19
  <2>2. ASSUME NEW i \in 2..top PROVE kept[i] \in 1..(d - 1)
    <3>1. i \in 1..n /\ i \in 2..n /\ top \in 1..n /\ i <= top /\ i \in 1..top
      BY <1>17
    <3>2. l[i] \in 1..d /\ l[i] <= l[top] /\ l[top] < d
      BY <1>11, <1>17, <3>1
    <3>3. l[top] \in Nat
      BY <1>10, <3>1
    <3>4. l[i] \in 1..(d - 1)
      BY <3>2, <3>3
    <3>. QED BY <1>19, <3>1, <3>4
  <2>3. \A i, j \in 1..top : i <= j => kept[i] <= kept[j]
    <3>1. 1..top \subseteq 1..n
      BY <1>17
    <3>. QED BY <1>11, <1>19, <3>1
  <2>. QED BY <1>19, <1>22, <2>1, <2>2, <2>3 DEF Fits
<1>24. Update(c)
  BY <1>5, <1>8, <1>9, <1>12, <1>15, <1>18, <1>20, Zenon DEF DoEndScope
<1>25. c.type = Current.type /\ c.arity = Current.arity /\ c.depth = Current.depth + (-1)
  <2>1. d - 1 = d + (-1)
    OBVIOUS
  <2>. QED BY <1>5, <1>9, <1>22, <2>1, Zenon
<1>26. actors' \in Nat /\ FittingCompilers(compilers') /\ LevelOf(actors', compilers') = Deeper(Level, -1)
  BY <1>1, <1>22, <1>23, <1>24, <1>25, CompilerStep
<1>. QED BY <1>1, <1>3, <1>4, <1>26, Arrived

\* A local is declared at the depth of its block.
LEMMA DeclareStep ==
  ASSUME IInv, DoDeclare
  PROVE  IInv'
<1>1. frames # <<>> /\ It[1] = "declare" /\ UNCHANGED actors
  BY DEF DoDeclare, At
<1>2. It[1] \in SimpleKinds
  BY <1>1 DEF SimpleKinds
<1>3. Len(frames) # 1
  BY <1>1, AtTopIs
<1>4. /\ List(frames) /\ IsFrame(Top) /\ Level \in AnyLevel
  BY <1>1, <1>3, TopParts
<1>5. PICK a \in AnyLevel, b \in AnyLevel :
        ChainTo(Front(frames), b) /\ Effect(It, Level, a, b) /\ Path(Tail(Top.todo), a, b, b)
  BY <1>1, <1>3, TopParts
<1>6. a = Level
  BY <1>2, <1>5, SimpleEffect
<1>7. PICK g : g = [Top EXCEPT !.todo = Tail(@), !.name = previous]
  BY Zenon
<1>8. IsFrame(g) /\ g.todo = Tail(Top.todo)
  <2>1. Stored(Top, g)
    BY <1>4, <1>7, StoredIs, Zenon
  <2>. QED BY <2>1 DEF Stored, IsFrame
<1>9. Path(g.todo, a, b, b)
  BY <1>5, <1>8
<1>10. frames' = Continue(g)
  BY <1>7 DEF DoDeclare
<1>11. PICK o : o = Current
  BY Zenon
<1>12. /\ Fits(o) /\ o.type \in {"script", "function", "message"} /\ o.depth \in Nat
       /\ o.arity \in Nat /\ o.locals \in Seq(Nat)
       /\ o = [type |-> o.type, depth |-> o.depth, arity |-> o.arity, locals |-> o.locals]
  BY <1>1, <1>11, CurrentIs
<1>13. PICK c : c = IF o.depth = 0 THEN o ELSE [o EXCEPT !.locals = Append(@, o.depth)]
  BY Zenon
<1>14. /\ c \in CompilerRecords /\ Fits(c)
       /\ c.type = o.type /\ c.arity = o.arity /\ c.depth = o.depth
  <2>1. CASE o.depth = 0
    <3>1. c = o
      BY <1>13, <2>1
    <3>2. o \in CompilerRecords
      BY <1>12 DEF CompilerRecords
    <3>. QED BY <1>12, <3>1, <3>2, Zenon
  <2>2. CASE o.depth # 0
    <3>1. PICK d \in Nat : d = o.depth /\ d >= 1
      BY <1>12, <2>2
    <3>2. PICK l \in Seq(Nat) : l = o.locals
      BY <1>12
    <3>3. PICK n \in Nat : n = Len(l) /\ n >= 1
      <4>1. l # <<>>
        BY <1>12, <3>2 DEF Fits
      <4>. QED BY <4>1
    <3>4. /\ l[1] = 0 /\ \A i \in 2..n : l[i] \in 1..d
          /\ \A i, j \in 1..n : i <= j => l[i] <= l[j]
      BY <1>12, <3>1, <3>2, <3>3, Zenon DEF Fits
    <3>5. PICK m : m = Append(l, d)
      BY Zenon
    <3>6. m \in Seq(Nat) /\ Len(m) = n + 1 /\ m[n + 1] = d /\ \A i \in 1..n : m[i] = l[i]
      BY <3>3, <3>5
    <3>7. c = [type |-> o.type, depth |-> d, arity |-> o.arity, locals |-> m]
      <4>1. c = [o EXCEPT !.locals = m]
        BY <1>13, <2>2, <3>1, <3>2, <3>5
      <4>. QED BY <1>12, <3>1, <4>1
    <3>8. /\ c.type = o.type /\ c.depth = d /\ c.arity = o.arity /\ c.locals = m
          /\ c \in CompilerRecords
      BY <1>12, <3>6, <3>7 DEF CompilerRecords
    <3>9. \A i \in 1..n : l[i] <= d
      <4>1. \A i \in 1..n : i = 1 \/ i \in 2..n
        OBVIOUS
      <4>. QED BY <3>1, <3>4, <4>1
    <3>10. Fits(c)
      <4>1. m # <<>> /\ m[1] = 0
        BY <3>3, <3>4, <3>6
      <4>2. ASSUME NEW i \in 2..(n + 1) PROVE m[i] \in 1..d
        <5>1. CASE i = n + 1
          BY <3>1, <3>6, <5>1
        <5>2. CASE i \in 2..n
          <6>1. i \in 1..n
            BY <5>2
          <6>. QED BY <3>4, <3>6, <5>2, <6>1
        <5>. QED BY <5>1, <5>2
      <4>3. ASSUME NEW i \in 1..(n + 1), NEW j \in 1..(n + 1), i <= j PROVE m[i] <= m[j]
        <5>1. CASE j = n + 1
          <6>1. i = n + 1 \/ i \in 1..n
            OBVIOUS
          <6>. QED BY <3>1, <3>6, <3>9, <5>1, <6>1
        <5>2. CASE j \in 1..n
          <6>1. i \in 1..n
            BY <4>3, <5>2
          <6>. QED BY <3>4, <3>6, <4>3, <5>2, <6>1
        <5>. QED BY <5>1, <5>2
      <4>. QED BY <3>6, <3>8, <4>1, <4>2, <4>3 DEF Fits
    <3>. QED BY <3>1, <3>8, <3>10
  <2>. QED BY <2>1, <2>2
<1>15. Update(c)
  BY <1>11, <1>13, Zenon DEF DoDeclare
<1>16. c.type = Current.type /\ c.arity = Current.arity /\ c.depth = Current.depth + 0
  <2>1. o.depth + 0 = o.depth
    BY <1>12
  <2>. QED BY <1>11, <1>14, <2>1, Zenon
<1>17. actors' \in Nat /\ FittingCompilers(compilers') /\ LevelOf(actors', compilers') = Deeper(Level, 0)
  BY <1>1, <1>14, <1>15, <1>16, CompilerStep
<1>18. LevelOf(actors', compilers') = a
  BY <1>4, <1>6, <1>17, NotDeeper
<1>. QED BY <1>1, <1>4, <1>5, <1>8, <1>9, <1>10, <1>17, <1>18, Stepped

\* Only a function counts its parameters.
LEMMA ArityStep ==
  ASSUME IInv, DoArity
  PROVE  IInv'
<1>1. frames # <<>> /\ It[1] = "arity" /\ frames' = Then(<<>>) /\ UNCHANGED actors
  BY DEF DoArity, At
<1>2. Len(frames) # 1
  BY <1>1, AtTopIs
<1>3. PICK a \in AnyLevel, b \in AnyLevel : Effect(It, Level, a, b) /\ ChainTo(Then(<<>>), a)
  BY <1>1, <1>2, Beyond
<1>4. a = Level /\ Len(Level.depths) > 1
  BY <1>1, <1>3, ScopeEffect
<1>5. Len(compilers) # 1
  <2>1. FittingCompilers(compilers)
    BY <1>1, CurrentIs
  <2>2. Len(Level.depths) = Len(compilers)
    BY <2>1, LevelFields DEF Level
  <2>3. PICK m \in Nat : m = Len(compilers)
    BY <2>1, LastCompiler
  <2>4. m > 1
    BY <1>4, <2>2, <2>3
  <2>5. m # 1
    BY <2>4
  <2>. QED BY <2>3, <2>5, Zenon
<1>6. PICK o : o = Current
  BY Zenon
<1>7. /\ Fits(o) /\ o.type \in {"script", "function", "message"} /\ o.depth \in Nat
      /\ o.arity \in Nat /\ o.locals \in Seq(Nat)
      /\ o = [type |-> o.type, depth |-> o.depth, arity |-> o.arity, locals |-> o.locals]
  BY <1>1, <1>6, CurrentIs
<1>8. PICK c : c = [o EXCEPT !.arity = @ + 1]
  BY Zenon
<1>9. c = [type |-> o.type, depth |-> o.depth, arity |-> o.arity + 1, locals |-> o.locals]
  BY <1>7, <1>8
<1>10. c \in CompilerRecords /\ c.depth = o.depth /\ c.locals = o.locals
  BY <1>7, <1>9 DEF CompilerRecords
<1>11. Fits(c)
  BY <1>7, <1>10, Zenon DEF Fits
<1>12. Update(c)
  BY <1>6, <1>8 DEF DoArity
<1>13. c.depth = Current.depth + 0
  BY <1>6, <1>7, <1>10
<1>14. actors' \in Nat /\ FittingCompilers(compilers') /\ LevelOf(actors', compilers') = Deeper(Level, 0)
  BY <1>1, <1>5, <1>10, <1>11, <1>12, <1>13, CompilerStep
<1>15. LevelOf(actors', compilers') = a
  BY <1>3, <1>4, <1>14, NotDeeper
<1>. QED BY <1>1, <1>3, <1>14, <1>15, Arrived

LEMMA InitCompilerStep ==
  ASSUME IInv, DoInitCompiler
  PROVE  IInv'
<1>1. /\ frames # <<>> /\ It[1] = "init_compiler" /\ frames' = Then(<<>>) /\ UNCHANGED actors
      /\ compilers' = Append(compilers, NewCompiler(It[2]))
  BY DEF DoInitCompiler, At
<1>2. Len(frames) # 1
  BY <1>1, AtTopIs
<1>3. PICK a \in AnyLevel, b \in AnyLevel : Effect(It, Level, a, b) /\ ChainTo(Then(<<>>), a)
  BY <1>1, <1>2, Beyond
<1>4. It[2] \in {"function", "message"} /\ a = InFunction(Level)
  BY <1>1, <1>3, ScopeEffect
<1>5. FittingCompilers(compilers) /\ actors \in Nat
  BY <1>1, CurrentIs
<1>6. FittingCompilers(compilers') /\ LevelOf(actors, compilers') = InFunction(LevelOf(actors, compilers))
  BY <1>1, <1>4, <1>5, OneMore
<1>7. actors' \in Nat /\ LevelOf(actors', compilers') = a
  BY <1>1, <1>4, <1>5, <1>6 DEF Level
<1>. QED BY <1>1, <1>3, <1>6, <1>7, Arrived

\* end_compiler leaves a function, or ends the compilation.
LEMMA EndCompilerStep ==
  ASSUME IInv, DoEndCompiler
  PROVE  IInv'
<1>1. /\ frames # <<>> /\ It[1] = "end_compiler" /\ frames' = Then(<<>>) /\ UNCHANGED actors
      /\ compilers' = Front(compilers)
  BY DEF DoEndCompiler, At
<1>2. CASE Len(frames) = 1
  <2>1. List(frames) /\ frames # <<>> /\ IsFrame(Top) /\ Tail(Top.todo) = <<>>
    BY <1>1, <1>2, AtTopIs
  <2>2. PICK f : f = [Top EXCEPT !.todo = <<>> \o Tail(@)]
    BY Zenon
  <2>3. f.todo = <<>> \o <<>>
    BY <2>1, <2>2, Replaced
  <2>4. f.todo = <<>>
    BY <2>3
  <2>5. frames' = Front(frames)
    BY <1>1, <2>2, <2>4 DEF Then, Continue
  <2>6. List(Front(frames)) /\ Len(Front(frames)) = 0
    BY <1>2, <2>1, FrontIs
  <2>7. frames' = <<>>
    <3>1. List(<<>>) /\ Len(<<>>) = 0
      BY EmptyList
    <3>2. Front(frames) = <<>>
      BY <2>6, <3>1, ListsEqual
    <3>. QED BY <2>5, <3>2
  <2>. QED BY <2>7 DEF IInv
<1>3. CASE Len(frames) # 1
  <2>1. PICK a \in AnyLevel, b \in AnyLevel : Effect(It, Level, a, b) /\ ChainTo(Then(<<>>), a)
    BY <1>1, <1>3, Beyond
  <2>2. Len(Level.depths) > 1 /\ a = Outside(Level)
    BY <1>1, <2>1, ScopeEffect
  <2>3. FittingCompilers(compilers) /\ actors \in Nat
    BY <1>1, CurrentIs
  <2>4. Len(compilers) > 1
    <3>1. Len(Level.depths) = Len(compilers)
      BY <2>3, LevelFields DEF Level
    <3>. QED BY <2>2, <3>1
  <2>5. /\ FittingCompilers(Front(compilers))
        /\ LevelOf(actors, Front(compilers)) = Outside(LevelOf(actors, compilers))
    BY <2>3, <2>4, OneLess
  <2>6. actors' \in Nat /\ FittingCompilers(compilers') /\ LevelOf(actors', compilers') = a
    BY <1>1, <2>2, <2>3, <2>5 DEF Level
  <2>. QED BY <1>1, <2>1, <2>6, Arrived
<1>. QED BY <1>2, <1>3

LEMMA ActorStep ==
  ASSUME IInv, DoActor
  PROVE  IInv'
<1>1. /\ frames # <<>> /\ frames' = Then(<<>>) /\ UNCHANGED compilers
      /\ \/ It[1] = "enter_actor" /\ actors' = actors + 1
         \/ It[1] = "leave_actor" /\ actors' = actors + (-1)
  <2>1. actors \in Nat => actors - 1 = actors + (-1)
    OBVIOUS
  <2>2. frames # <<>>
    BY DEF DoActor, At
  <2>3. actors \in Nat
    BY <2>2 DEF IInv
  <2>. QED BY <2>1, <2>3 DEF DoActor, At
<1>2. Len(frames) # 1
  BY <1>1, AtTopIs
<1>3. PICK a \in AnyLevel, b \in AnyLevel : Effect(It, Level, a, b) /\ ChainTo(Then(<<>>), a)
  BY <1>1, <1>2, Beyond
<1>4. PICK n : (n = 1 \/ n = -1) /\ a = InActor(Level, n) /\ actors' = actors + n
  BY <1>1, <1>3, ScopeEffect
<1>5. FittingCompilers(compilers)
  BY <1>1, CurrentIs
<1>6. InActor(Level, n) = LevelOf(actors + n, compilers)
  BY DEF InActor, Level, LevelOf
<1>7. actors + n \in Nat
  <2>1. a.actors = actors + n
    BY <1>4, <1>6 DEF LevelOf
  <2>2. a.actors \in Nat
    BY LevelIs
  <2>. QED BY <2>1, <2>2
<1>8. actors' \in Nat /\ FittingCompilers(compilers') /\ LevelOf(actors', compilers') = a
  BY <1>1, <1>4, <1>5, <1>6, <1>7
<1>. QED BY <1>1, <1>3, <1>8, Arrived


-----------------------------------------------------------------------------
(***************************************************************************)
(* The theorem.                                                            *)
(***************************************************************************)

LEMMA InitIInv == Init => IInv
<1>. SUFFICES ASSUME Init PROVE IInv
  OBVIOUS
<1>1. PICK f : f = NewFrame(Procedure("compile"))
  BY Zenon
<1>2. frames = <<f>> /\ compilers = <<NewCompiler("script")>> /\ actors = 0
  BY <1>1 DEF Init, Begin
<1>3. AtTop(f)
  BY <1>1, NewFrameIs, Zenon DEF AtTop, OfCompile
<1>4. ChainTo(<<f>>, Base)
  BY <1>3, ChainOfOne
<1>5. PICK c : c = NewCompiler("script")
  BY Zenon
<1>6. PICK l : l = <<0>>
  BY Zenon
<1>7. l \in Seq(Nat) /\ Len(l) = 1 /\ l[1] = 0 /\ l # <<>>
  BY <1>6
<1>8. c = [type |-> "script", depth |-> 0, arity |-> 0, locals |-> l]
  BY <1>5, <1>6 DEF NewCompiler
<1>9. /\ c.type = "script" /\ c.depth = 0 /\ c.arity = 0 /\ c.locals = l
      /\ c \in CompilerRecords
  BY <1>7, <1>8 DEF CompilerRecords
<1>10. Fits(c)
  <2>1. \A i \in 2..Len(l) : l[i] \in 1..0
    BY <1>7
  <2>2. \A i, j \in 1..Len(l) : i <= j => l[i] <= l[j]
    <3>1. \A i \in 1..Len(l) : i = 1
      BY <1>7
    <3>2. \A i \in 1..Len(l) : l[i] = 0
      BY <1>7, <3>1
    <3>. QED BY <3>2
  <2>. QED BY <1>7, <1>9, <2>1, <2>2, Zenon DEF Fits
<1>11. PICK cs : cs = <<c>>
  BY Zenon
<1>12. cs \in Seq(CompilerRecords) /\ Len(cs) = 1 /\ cs[1] = c /\ cs # <<>>
  BY <1>9, <1>11
<1>13. FittingCompilers(cs)
  <2>1. \A i \in 1..Len(cs) : Fits(cs[i])
    <3>1. \A i \in 1..Len(cs) : i = 1
      BY <1>12
    <3>. QED BY <1>10, <1>12, <3>1
  <2>. QED BY <1>9, <1>12, <2>1 DEF FittingCompilers
<1>14. LevelOf(0, cs) = Base
  <2>1. PICK d : d = LevelOf(0, cs).depths
    BY Zenon
  <2>2. d \in Seq(Nat) /\ Len(d) = 1 /\ \A i \in 1..1 : d[i] = cs[i].depth
    BY <1>12, <1>13, <2>1, LevelFields
  <2>3. \A i \in 1..Len(d) : d[i] = l[i]
    <3>1. \A i \in 1..Len(d) : i = 1
      BY <2>2
    <3>2. d[1] = 0
      BY <1>9, <1>12, <2>2
    <3>. QED BY <1>7, <3>1, <3>2
  <2>4. d = l
    BY <1>7, <2>2, <2>3, SameSeq
  <2>. QED BY <1>6, <2>1, <2>4, Zenon DEF LevelOf, Base
<1>15. compilers = cs
  BY <1>2, <1>5, <1>11
<1>16. Level = Base
  BY <1>2, <1>14, <1>15 DEF Level
<1>. QED BY <1>2, <1>4, <1>13, <1>15, <1>16 DEF IInv

LEMMA StepIInv == IInv /\ [Next]_vars => IInv'
<1>. SUFFICES ASSUME IInv, [Next]_vars PROVE IInv'
  OBVIOUS
<1>1. CASE UNCHANGED vars
  BY <1>1 DEF vars, output, IInv, Level
<1>2. CASE \/ DoAdvance \/ DoConsume \/ DoError \/ DoSynchronize \/ DoEmit \/ DoPatch
           \/ DoPatchExit \/ DoLoop \/ DoDefine
  BY <1>2, ThenSteps
<1>3. CASE DoCount \/ DoJump \/ DoMark \/ DoName
  BY <1>3, StoreSteps
<1>4. CASE DoSkip
  BY <1>4, SkipStep
<1>5. CASE DoChoose
  BY <1>5, ChooseStep
<1>6. CASE DoCheck
  BY <1>6, CheckStep
<1>7. CASE DoCall
  BY <1>7, CallStep
<1>8. CASE DoPrefix
  BY <1>8, PrefixStep
<1>9. CASE DoInfix
  BY <1>9, InfixStep
<1>10. CASE DoBeginScope
  BY <1>10, BeginScopeStep
<1>11. CASE DoEndScope
  BY <1>11, EndScopeStep
<1>12. CASE DoDeclare
  BY <1>12, DeclareStep
<1>13. CASE DoArity
  BY <1>13, ArityStep
<1>14. CASE DoInitCompiler
  BY <1>14, InitCompilerStep
<1>15. CASE DoEndCompiler
  BY <1>15, EndCompilerStep
<1>16. CASE DoActor
  BY <1>16, ActorStep
<1>. QED BY <1>1, <1>2, <1>3, <1>4, <1>5, <1>6, <1>7, <1>8, <1>9, <1>10, <1>11, <1>12, <1>13,
            <1>14, <1>15, <1>16, Zenon DEF Next

\* At the level of the script there is one compiler, and it has no local variable.
LEMMA AtBase ==
  ASSUME NEW cs, FittingCompilers(cs), NEW n, LevelOf(n, cs) = Base
  PROVE  n = 0 /\ cs = <<NewCompiler("script")>>
<1>1. n = 0 /\ LevelOf(n, cs).depths = <<0>>
  BY DEF LevelOf, Base
<1>2. PICK d : d = <<0>>
  BY Zenon
<1>3. Len(d) = 1 /\ d[1] = 0
  BY <1>2
<1>4. Len(cs) = 1 /\ cs[1].depth = 0
  <2>1. Len(d) = Len(cs) /\ \A i \in 1..Len(cs) : d[i] = cs[i].depth
    BY <1>1, <1>2, LevelFields
  <2>2. Len(cs) = 1
    BY <1>3, <2>1, Zenon
  <2>3. 1 \in 1..1
    OBVIOUS
  <2>4. d[1] = cs[1].depth
    BY <2>1, <2>2, <2>3, Zenon
  <2>. QED BY <1>3, <2>2, <2>4, Zenon
<1>5. PICK c : c = cs[1]
  BY Zenon
<1>6. /\ cs \in Seq(CompilerRecords) /\ c.type = "script" /\ c.arity = 0 /\ c.depth = 0
      /\ Fits(c)
  BY <1>4, <1>5 DEF FittingCompilers
<1>7. c \in CompilerRecords
  BY <1>4, <1>5, <1>6
<1>8. /\ c.locals \in Seq(Nat)
      /\ c = [type |-> c.type, depth |-> c.depth, arity |-> c.arity, locals |-> c.locals]
  BY <1>7 DEF CompilerRecords
<1>9. PICK l \in Seq(Nat) : l = c.locals
  BY <1>8
<1>10. Len(l) = 1 /\ l[1] = 0
  <2>1. l # <<>> /\ l[1] = 0 /\ \A i \in 2..Len(l) : l[i] \in 1..0
    BY <1>6, <1>9, Zenon DEF Fits
  <2>2. PICK m \in Nat : m = Len(l) /\ m >= 1
    BY <2>1
  <2>3. ~(2 \in 2..m)
    <3>1. 2 \in 2..m => l[2] \in 1..0
      BY <2>1, <2>2, Zenon
    <3>. QED BY <3>1
  <2>4. m = 1
    BY <2>2, <2>3
  <2>. QED BY <2>1, <2>2, <2>4, Zenon
<1>11. l = d
  <2>1. d \in Seq(Nat)
    BY <1>2
  <2>2. \A i \in 1..Len(l) : i = 1
    BY <1>10
  <2>3. Len(l) = Len(d) /\ \A i \in 1..Len(l) : l[i] = d[i]
    BY <1>3, <1>10, <2>2
  <2>. QED BY <2>1, <2>3, SameSeq
<1>12. c = NewCompiler("script")
  BY <1>2, <1>6, <1>8, <1>9, <1>11, Zenon DEF NewCompiler
<1>13. PICK u : u = <<c>>
  BY Zenon
<1>14. u \in Seq(CompilerRecords) /\ Len(u) = 1 /\ u[1] = c
  BY <1>7, <1>13
<1>15. cs = u
  <2>1. \A i \in 1..Len(cs) : i = 1
    BY <1>4
  <2>2. Len(cs) = Len(u) /\ \A i \in 1..Len(cs) : cs[i] = u[i]
    BY <1>4, <1>5, <1>14, <2>1
  <2>. QED BY <1>6, <1>14, <2>2, SameSeq
<1>. QED BY <1>1, <1>12, <1>13, <1>15, Zenon

\* Whenever compile() is about to read a declaration of the script, or has read one, what
\* an erroneous declaration had begun has been undone: no actor, function, block or
\* local variable is left of it, for any tokens, sources and scanner.
THEOREM BackBetweenDeclarations == Spec => []BackAtTop
<1>1. IInv => BackAtTop
  <2>. SUFFICES ASSUME IInv, Len(frames) = 1
                PROVE  actors = 0 /\ compilers = <<NewCompiler("script")>>
    BY DEF BackAtTop
  <2>1. Level = Base /\ FittingCompilers(compilers)
    BY AtTopIs
  <2>2. LevelOf(actors, compilers) = Base
    BY <2>1 DEF Level
  <2>. QED BY <2>1, <2>2, AtBase
<1>. QED BY <1>1, InitIInv, StepIInv, PTL DEF Spec

=============================================================================
