-------------------------- MODULE CollectorProofs --------------------------
(***************************************************************************)
(* Proofs about module Collector, for every set of addresses and both      *)
(* builds: the inductive invariant IInv, the safety properties it implies, *)
(* and that the collector implements module ManagedHeap.                   *)
(***************************************************************************)
EXTENDS Collector, SequenceTheorems, TLAPS

-----------------------------------------------------------------------------
(***************************************************************************)
(* Facts about Reachable.  G is the graph, a function to sets of nodes.    *)
(***************************************************************************)

\* The starting nodes are reachable.
LEMMA ReachableContains ==
  ASSUME NEW G, NEW from \in SUBSET DOMAIN G
  PROVE  from \subseteq Reachable(from, G)
BY DEF Reachable

\* What a reachable node points to is reachable.
LEMMA ReachableClosed ==
  ASSUME NEW N, NEW G \in [N -> SUBSET N], NEW from
  PROVE  Closed(Reachable(from, G), G)
<1>1. SUFFICES ASSUME NEW o \in Reachable(from, G), NEW p \in G[o]
               PROVE  p \in Reachable(from, G)
  BY DEF Closed
<1>2. o \in N /\ p \in N
  BY <1>1 DEF Reachable
<1>3. ASSUME NEW S \in SUBSET N, from \subseteq S, Closed(S, G)
      PROVE  p \in S
  <2>1. o \in S
    BY <1>3, DOMAIN G = N DEF Reachable
  <2>2. QED
    BY <2>1, <1>3 DEF Closed
<1>4. QED
  BY <1>2, <1>3 DEF Reachable

\* No closed set that holds the starting nodes is smaller.
LEMMA ReachableLeast ==
  ASSUME NEW N, NEW G \in [N -> SUBSET N], NEW from, NEW S \in SUBSET N,
         from \subseteq S, Closed(S, G)
  PROVE  Reachable(from, G) \subseteq S
BY DEF Reachable

\* Reachable nodes are nodes.
LEMMA ReachableType ==
  ASSUME NEW N, NEW G \in [N -> SUBSET N], NEW from
  PROVE  Reachable(from, G) \in SUBSET N
BY DEF Reachable

\* More starting nodes reach more.
LEMMA ReachableMonotone ==
  ASSUME NEW N, NEW G \in [N -> SUBSET N], NEW from, NEW more, from \subseteq more
  PROVE  Reachable(from, G) \subseteq Reachable(more, G)
BY DEF Reachable

-----------------------------------------------------------------------------
(***************************************************************************)
(* Facts about the list of objects.                                        *)
(***************************************************************************)

\* What a non-empty list holds: its head and the rest.
LEMMA RangeHeadTail ==
  ASSUME NEW S, NEW s \in Seq(S), s # <<>>
  PROVE  /\ Head(s) \in S /\ Tail(s) \in Seq(S)
         /\ Range(s) = {Head(s)} \union Range(Tail(s))
<1>1. /\ Len(s) \in Nat \ {0} /\ DOMAIN s = 1..Len(s)
      /\ Len(Tail(s)) = Len(s) - 1 /\ DOMAIN Tail(s) = 1..(Len(s) - 1)
      /\ Head(s) = s[1] /\ \A i \in 1..(Len(s) - 1) : Tail(s)[i] = s[i + 1]
      /\ Head(s) \in S /\ Tail(s) \in Seq(S)
  OBVIOUS
<1>2. ASSUME NEW i \in 1..Len(s)
      PROVE  s[i] \in {Head(s)} \union Range(Tail(s))
  <2>1. CASE i = 1
    BY <2>1, <1>1
  <2>2. CASE i # 1
    <3>1. i - 1 \in 1..(Len(s) - 1) /\ s[i] = Tail(s)[i - 1]
      BY <2>2, <1>1
    <3>2. QED
      BY <3>1, <1>1 DEF Range
  <2>3. QED
    BY <2>1, <2>2
<1>3. ASSUME NEW i \in 1..(Len(s) - 1)
      PROVE  Tail(s)[i] \in Range(s)
  <2>1. i + 1 \in 1..Len(s) /\ Tail(s)[i] = s[i + 1]
    BY <1>1
  <2>2. QED
    BY <2>1, <1>1 DEF Range
<1>4. Head(s) \in Range(s)
  BY <1>1 DEF Range
<1>5. Range(s) \subseteq {Head(s)} \union Range(Tail(s))
  BY <1>1, <1>2 DEF Range
<1>6. Range(Tail(s)) \subseteq Range(s)
  BY <1>1, <1>3 DEF Range
<1>7. QED
  BY <1>1, <1>4, <1>5, <1>6

\* Appending adds one element; so does putting one in front.
LEMMA RangeAppend ==
  ASSUME NEW S, NEW s \in Seq(S), NEW e \in S
  PROVE  /\ Range(s \o <<e>>) = Range(s) \union {e}
         /\ Range(<<e>> \o s) = {e} \union Range(s)
<1>1. <<e>> \in Seq(S)
  OBVIOUS
<1>2. Range(<<e>>) = {e}
  BY DEF Range
<1>3. Range(s \o <<e>>) = Range(s) \union Range(<<e>>)
  BY <1>1, RangeConcatenation
<1>4. Range(<<e>> \o s) = Range(<<e>>) \union Range(s)
  BY <1>1, RangeConcatenation
<1>5. QED
  BY <1>1, <1>2, <1>3, <1>4

\* Moving the head of the second list to the end of the first keeps the whole.
LEMMA MoveHead ==
  ASSUME NEW S, NEW k \in Seq(S), NEW s \in Seq(S), s # <<>>
  PROVE  Append(k, Head(s)) \o Tail(s) = k \o s
OBVIOUS

\* Unlinking a node from a list without repetitions leaves one.
LEMMA UnlinkInjective ==
  ASSUME NEW S, NEW k \in Seq(S), NEW s \in Seq(S), s # <<>>, IsInjective(k \o s)
  PROVE  IsInjective(k \o Tail(s))
<1> DEFINE old == k \o s
           new == k \o Tail(s)
           at(i) == IF i <= Len(k) THEN i ELSE i + 1
<1>1. /\ Len(k) \in Nat /\ Len(s) \in Nat \ {0} /\ Len(Tail(s)) = Len(s) - 1
      /\ old \in Seq(S) /\ new \in Seq(S)
      /\ Len(old) = Len(k) + Len(s) /\ Len(new) = Len(k) + Len(s) - 1
  OBVIOUS
<1>2. ASSUME NEW i \in 1..Len(new)
      PROVE  at(i) \in 1..Len(old) /\ new[i] = old[at(i)]
  <2>1. CASE i <= Len(k)
    BY <2>1, <1>1
  <2>2. CASE i > Len(k)
    <3>1. new[i] = Tail(s)[i - Len(k)] /\ old[i + 1] = s[i + 1 - Len(k)]
      BY <2>2, <1>1
    <3>2. Tail(s)[i - Len(k)] = s[i - Len(k) + 1]
      BY <2>2, <1>1
    <3>3. QED
      BY <2>2, <3>1, <3>2, <1>1
  <2>3. QED
    BY <2>1, <2>2, <1>1
<1>3. DOMAIN old = 1..Len(old) /\ DOMAIN new = 1..Len(new)
  BY <1>1
<1>4. ASSUME NEW i \in 1..Len(new), NEW j \in 1..Len(new), new[i] = new[j]
      PROVE  i = j
  <2>1. at(i) = at(j)
    BY <1>2, <1>3, <1>4 DEF IsInjective
  <2>2. QED
    BY <2>1, <1>1
<1>5. QED
  BY <1>3, <1>4 DEF IsInjective

\* A node put in front of a list that does not hold it repeats nothing.
LEMMA PrependInjective ==
  ASSUME NEW S, NEW s \in Seq(S), NEW e \in S, e \notin Range(s), IsInjective(s)
  PROVE  IsInjective(<<e>> \o s)
<1> DEFINE new == <<e>> \o s
<1>1. /\ Len(s) \in Nat /\ DOMAIN s = 1..Len(s) /\ DOMAIN new = 1..(Len(s) + 1)
      /\ new[1] = e /\ \A i \in 2..(Len(s) + 1) : new[i] = s[i - 1]
  OBVIOUS
<1>2. ASSUME NEW i \in 2..(Len(s) + 1)
      PROVE  new[i] # e /\ i - 1 \in DOMAIN s
  BY <1>1 DEF Range
<1>3. QED
  BY <1>1, <1>2 DEF IsInjective

-----------------------------------------------------------------------------
(***************************************************************************)
(* Type correctness.  The list is whole outside sweep only because kept is *)
(* empty there, which the parts IdleInv and MarkInv of IInv say.           *)
(***************************************************************************)

\* The initial state has the types.
LEMMA InitTypeOK == Init => TypeOK
<1> SUFFICES ASSUME Init PROVE TypeOK
  OBVIOUS
<1>1. <<>> \o <<>> = <<>> /\ <<>> \in Seq(Obj) /\ IsInjective(<<>>)
  BY DEF IsInjective
<1>2. QED
  BY <1>1 DEF Init, TypeOK, PC

\* Every step keeps the types; only allocation, sweep and free_vm change the list.
LEMMA NextTypeOK == TypeOK /\ IdleInv /\ MarkInv /\ [Next]_vars => TypeOK'
<1> SUFFICES ASSUME TypeOK, IdleInv, MarkInv, [Next]_vars
             PROVE  TypeOK'
  OBVIOUS
<1> USE DEF TypeOK, PC, gcVars, heapVars
<1>1. ASSUME NEW o \in Obj, Root(o)
      PROVE  TypeOK'
  BY <1>1 DEF Root
<1>2. ASSUME NEW o \in Obj, Unroot(o)
      PROVE  TypeOK'
  BY <1>2 DEF Unroot
<1>3. ASSUME NEW o \in Obj, Intern(o)
      PROVE  TypeOK'
  BY <1>3 DEF Intern
<1>4. ASSUME NEW o \in Obj, FindInterned(o)
      PROVE  TypeOK'
  BY <1>4 DEF FindInterned
<1>5. ASSUME NEW a \in Obj, NEW b \in Obj, Link(a, b)
      PROVE  TypeOK'
  BY <1>5 DEF Link
<1>6. ASSUME NEW a \in Obj, NEW b \in Obj, Unlink(a, b)
      PROVE  TypeOK'
  BY <1>6 DEF Unlink
<1>7. CASE FreeVM
  <2>1. kept = <<>> /\ kept' = <<>> /\ objects' = <<>>
    BY <1>7 DEF FreeVM, IdleInv
  <2>2. IsInjective((kept \o objects)')
    BY <2>1 DEF IsInjective
  <2>3. QED
    BY <1>7, <2>1, <2>2 DEF FreeVM
<1>8. CASE Collect
  BY <1>8 DEF Collect
<1>9. CASE SkipCollect
  BY <1>9 DEF SkipCollect
<1>10. ASSUME NEW o \in Obj, MarkRoot(o)
       PROVE  TypeOK'
  BY <1>10 DEF MarkRoot, Mark
<1>11. CASE EndMarkRoots
  BY <1>11 DEF EndMarkRoots
<1>12. ASSUME NEW o \in Obj, Blacken(o)
       PROVE  TypeOK'
  BY <1>12 DEF Blacken, Mark
<1>13. CASE RemoveWhite
  BY <1>13 DEF RemoveWhite
<1>14. CASE SweepKeep
  <2>1. Head(objects) \in Obj /\ Tail(objects) \in Seq(Obj)
    BY <1>14, RangeHeadTail DEF SweepKeep
  <2>2. kept' \o objects' = kept \o objects
    BY <1>14, MoveHead DEF SweepKeep
  <2>3. kept' \in Seq(Obj) /\ objects' \in Seq(Obj)
    BY <1>14, <2>1 DEF SweepKeep
  <2>4. QED
    BY <1>14, <2>2, <2>3 DEF SweepKeep
<1>15. CASE SweepFree
  <2>1. Tail(objects) \in Seq(Obj)
    BY <1>15, RangeHeadTail DEF SweepFree
  <2>2. IsInjective(kept \o Tail(objects))
    BY <1>15, UnlinkInjective DEF SweepFree
  <2>3. QED
    BY <1>15, <2>1, <2>2 DEF SweepFree
<1>16. CASE SweepEnd
  <2>1. kept' \o objects' = kept \o objects
    BY <1>16 DEF SweepEnd
  <2>2. QED
    BY <1>16, <2>1 DEF SweepEnd
<1>17. ASSUME NEW o \in Obj, AllocateObject(o)
       PROVE  TypeOK'
  <2>1. kept = <<>> /\ kept \o objects = objects /\ kept' \o objects' = objects'
    BY <1>17 DEF AllocateObject, IdleInv
  <2>2. o \notin Range(objects)
    BY <1>17 DEF AllocateObject, Live
  <2>3. IsInjective(objects')
    BY <1>17, <2>1, <2>2, PrependInjective DEF AllocateObject
  <2>4. objects' \in Seq(Obj)
    BY <1>17 DEF AllocateObject
  <2>5. QED
    BY <1>17, <2>1, <2>3, <2>4 DEF AllocateObject
<1>18. CASE GrowArray
  BY <1>18 DEF GrowArray
<1>19. CASE OutOfMemory
  BY <1>19 DEF OutOfMemory
<1>20. CASE UNCHANGED vars
  BY <1>20 DEF vars
<1>21. QED
  BY <1>1, <1>2, <1>3, <1>4, <1>5, <1>6, <1>7, <1>8, <1>9, <1>10, <1>11, <1>12,
     <1>13, <1>14, <1>15, <1>16, <1>17, <1>18, <1>19, <1>20
     DEF Next, Mutate, Reallocate

-----------------------------------------------------------------------------
(***************************************************************************)
(* The inductive invariant.                                                *)
(***************************************************************************)

\* What is reachable from the roots alone is accessible.
LEMMA RootsAccessible ==
  TypeOK => /\ Reachable(roots, refs) \subseteq Accessible
            /\ Reachable(roots, refs) \in SUBSET Obj
            /\ roots \subseteq Reachable(roots, refs)
            /\ Closed(Reachable(roots, refs), refs)
BY ReachableMonotone, ReachableType, ReachableContains, ReachableClosed
   DEF TypeOK, Accessible

\* The accessible objects are a closed set of objects.
LEMMA AccessibleClosed ==
  TypeOK => /\ Accessible \in SUBSET Obj
            /\ roots \union fresh \subseteq Accessible
            /\ Closed(Accessible, refs)
BY ReachableType, ReachableContains, ReachableClosed DEF TypeOK, Accessible

\* A step of the mutator has to be shown to keep two things only: it gets at
\* nothing that is not in the list, and it interns nothing that is not.
LEMMA MutatorStep ==
  ASSUME IInv, TypeOK', StringInv', pc = "mutator", pc' = "mutator",
         UNCHANGED gcVars,
         Accessible' \subseteq Range(objects), strings' \subseteq Range(objects)
  PROVE  IInv'
BY DEF IInv, IdleInv, MarkInv, SweepInv, TriColour, gcVars

\* If the accessible objects stay within a closed set of allocated objects, a step
\* that leaves the table alone is such a step.
LEMMA MutatorWithin ==
  ASSUME IInv, TypeOK', pc = "mutator", pc' = "mutator", UNCHANGED <<gcVars, strings>>,
         \A s \in Str : refs'[s] = {},
         NEW S \in SUBSET Obj, S \subseteq Range(objects),
         roots' \union fresh' \subseteq S, Closed(S, refs')
  PROVE  IInv'
<1>1. Accessible' \subseteq S
  BY ReachableLeast DEF TypeOK, Accessible
<1>2. strings' \subseteq Range(objects) /\ StringInv'
  BY DEF IInv, IdleInv, StringInv
<1>3. QED
  BY <1>1, <1>2, MutatorStep

\* The invariant holds initially.
LEMMA InitIInv == Init => IInv
<1> SUFFICES ASSUME Init PROVE IInv
  OBVIOUS
<1>1. TypeOK
  BY InitTypeOK
<1>2. Accessible = {}
  <2>1. roots \union fresh \subseteq {} /\ Closed({}, refs)
    BY DEF Init, Closed
  <2>2. QED
    BY <1>1, <2>1, ReachableLeast DEF TypeOK, Accessible
<1>3. QED
  BY <1>1, <1>2, StrAssumption
     DEF Init, IInv, StringInv, IdleInv, TriColour, MarkInv, SweepInv

\* Every step of the mutator preserves the invariant.
LEMMA MutateIInv == IInv /\ TypeOK' /\ Mutate => IInv'
<1> SUFFICES ASSUME IInv, TypeOK', Mutate
             PROVE  IInv'
  OBVIOUS
<1> USE DEF IInv
<1>1. /\ Accessible \in SUBSET Obj /\ Closed(Accessible, refs)
      /\ roots \union fresh \subseteq Accessible
  BY AccessibleClosed
<1>2. pc = "mutator" /\ (pc' = "mutator" => Accessible \subseteq Range(objects))
  BY DEF Mutate, FreeVM, Root, Unroot, Intern, FindInterned, Link, Unlink, IdleInv
<1>3. ASSUME NEW o \in Obj, Root(o)
      PROVE  IInv'
  <2>1. roots' \union fresh' \subseteq Accessible /\ Closed(Accessible, refs')
    BY <1>1, <1>3 DEF Root
  <2>2. QED
    BY <1>1, <1>2, <1>3, <2>1, MutatorWithin DEF Root, StringInv
<1>4. ASSUME NEW o \in Obj, Unroot(o)
      PROVE  IInv'
  <2>1. roots' \union fresh' \subseteq Accessible /\ Closed(Accessible, refs')
    BY <1>1, <1>4 DEF Unroot
  <2>2. QED
    BY <1>1, <1>2, <1>4, <2>1, MutatorWithin DEF Unroot, StringInv
<1>5. ASSUME NEW s \in Obj, Intern(s)
      PROVE  IInv'
  <2>1. Accessible' = Accessible
    BY <1>5 DEF Intern, heapVars, Accessible
  <2>2. StringInv' /\ strings' \subseteq Range(objects)
    BY <1>2, <1>5 DEF Intern, heapVars, StringInv, IdleInv
  <2>3. pc' = "mutator" /\ UNCHANGED gcVars
    BY <1>5 DEF Intern
  <2>4. QED
    BY <1>2, <2>1, <2>2, <2>3, MutatorStep
<1>6. ASSUME NEW s \in Obj, FindInterned(s)
      PROVE  IInv'
  <2> DEFINE S == Accessible \union {s}
  <2>1. s \in Range(objects) /\ refs[s] = {}
    BY <1>2, <1>6 DEF FindInterned, IdleInv, StringInv
  <2>2. S \in SUBSET Obj /\ S \subseteq Range(objects)
    BY <1>1, <1>2, <1>6, <2>1 DEF FindInterned
  <2>3. roots' \union fresh' \subseteq S /\ Closed(S, refs')
    BY <1>1, <1>6, <2>1 DEF FindInterned, heapVars, Closed
  <2>4. /\ pc' = "mutator" /\ UNCHANGED <<gcVars, strings>>
        /\ \A t \in Str : refs'[t] = {}
    BY <1>6 DEF FindInterned, heapVars, StringInv
  <2>5. QED
    BY ONLY <1>2, <2>2, <2>3, <2>4, IInv, TypeOK', MutatorWithin
<1>7. ASSUME NEW a \in Obj, NEW b \in Obj, Link(a, b)
      PROVE  IInv'
  <2>1. refs' = [refs EXCEPT ![a] = @ \union {b}] /\ a \notin Str
    BY <1>7 DEF Link
  <2>2. Closed(Accessible, refs')
    BY <1>1, <1>7, <2>1 DEF Link, Closed, TypeOK
  <2>3. \A s \in Str : refs'[s] = {}
    BY <2>1 DEF StringInv, TypeOK
  <2>4. QED
    BY <1>1, <1>2, <1>7, <2>2, <2>3, MutatorWithin DEF Link
<1>8. ASSUME NEW a \in Obj, NEW b \in Obj, Unlink(a, b)
      PROVE  IInv'
  <2>1. refs' = [refs EXCEPT ![a] = @ \ {b}]
    BY <1>8 DEF Unlink
  <2>2. Closed(Accessible, refs')
    BY <1>1, <2>1 DEF Closed, TypeOK
  <2>3. \A s \in Str : refs'[s] = {}
    BY <2>1, StrAssumption DEF StringInv, TypeOK
  <2>4. QED
    BY <1>1, <1>2, <1>8, <2>2, <2>3, MutatorWithin DEF Unlink
<1>9. CASE FreeVM
  <2>1. Accessible' = {}
    <3>1. (roots \union fresh)' \subseteq {} /\ Closed({}, refs')
      BY <1>9 DEF FreeVM, Closed
    <3>2. QED
      BY <3>1, ReachableLeast DEF TypeOK, Accessible
  <2>2. /\ kept' = kept /\ marked' = marked /\ gray' = gray /\ pending' = pending
        /\ refs' = refs /\ strings' = {} /\ pc' = "exit"
    BY <1>9 DEF FreeVM
  <2>3. QED
    BY <1>2, <2>1, <2>2 DEF StringInv, IdleInv, MarkInv, SweepInv, TriColour
<1>10. QED
  BY <1>3, <1>4, <1>5, <1>6, <1>7, <1>8, <1>9 DEF Mutate

\* Every step of an allocation preserves the invariant.
LEMMA ReallocateIInv ==
  IInv /\ TypeOK' /\ (Collect \/ SkipCollect \/ Reallocate) => IInv'
<1> SUFFICES ASSUME IInv, TypeOK', Collect \/ SkipCollect \/ Reallocate
             PROVE  IInv'
  OBVIOUS
<1> DEFINE R == Reachable(roots, refs)
<1> USE DEF IInv, gcVars, heapVars
<1>1. /\ R \subseteq Accessible /\ R \in SUBSET Obj
      /\ roots \subseteq R /\ Closed(R, refs)
  BY RootsAccessible
<1>2. UNCHANGED heapVars => R' = R
  OBVIOUS
<1>3. UNCHANGED <<heapVars, fresh>> => Accessible' = Accessible
  BY DEF Accessible
<1>4. CASE Collect
  BY <1>1, <1>2, <1>3, <1>4
     DEF Collect, StringInv, IdleInv, TriColour, MarkInv, SweepInv
<1>5. CASE SkipCollect
  BY <1>3, <1>5 DEF SkipCollect, StringInv, IdleInv, TriColour, MarkInv, SweepInv
<1>6. ASSUME NEW o \in Obj, MarkRoot(o)
      PROVE  IInv'
  <2>1. o \in R /\ marked' = marked \union {o} /\ pending' = pending \ {o}
    BY <1>6 DEF MarkRoot, Mark, MarkInv
  <2>2. TriColour'
    BY <1>6 DEF MarkRoot, Mark, TriColour
  <2>3. MarkInv'
    BY <1>2, <1>3, <1>6, <2>1 DEF MarkRoot, MarkInv
  <2>4. QED
    BY <1>6, <2>2, <2>3 DEF MarkRoot, StringInv, IdleInv, SweepInv
<1>7. CASE EndMarkRoots
  BY <1>2, <1>3, <1>7
     DEF EndMarkRoots, StringInv, IdleInv, TriColour, MarkInv, SweepInv
<1>8. ASSUME NEW o \in Obj, Blacken(o)
      PROVE  IInv'
  <2>1. o \in marked /\ o \in R /\ refs[o] \subseteq R
    BY <1>1, <1>8 DEF Blacken, TriColour, MarkInv, Closed
  <2>2. TriColour'
    BY <1>8, <2>1 DEF Blacken, Mark, TriColour
  <2>3. MarkInv'
    BY <1>2, <1>3, <1>8, <2>1 DEF Blacken, Mark, MarkInv
  <2>4. QED
    BY <1>8, <2>2, <2>3 DEF Blacken, StringInv, IdleInv, SweepInv
<1>9. CASE RemoveWhite
  <2>1. roots \subseteq marked /\ Closed(marked, refs)
    BY <1>9 DEF RemoveWhite, TriColour, MarkInv, Closed
  <2>2. R = marked
    <3>1. R \subseteq marked
      BY <2>1, ReachableLeast DEF TypeOK
    <3>2. QED
      BY <1>9, <3>1 DEF RemoveWhite, MarkInv
  <2>3. R \subseteq Range(objects) /\ kept = <<>>
    BY <1>1, <1>9 DEF RemoveWhite, MarkInv
  <2>4. Range(kept) = {}
    BY <2>3 DEF Range
  <2>5. LiveBar' = R
    BY <1>9, <2>2, <2>3, <2>4 DEF RemoveWhite, LiveBar
  <2>6. SweepInv'
    BY <1>2, <1>9, <2>2, <2>3, <2>4, <2>5 DEF RemoveWhite, SweepInv, MarkInv
  <2>7. QED
    BY <1>9, <2>6 DEF RemoveWhite, StringInv, IdleInv, TriColour, MarkInv
<1>10. CASE SweepKeep
  <2>1. /\ Head(objects) \in Obj
        /\ Range(objects) = {Head(objects)} \union Range(Tail(objects))
    BY <1>10, RangeHeadTail DEF SweepKeep, TypeOK
  <2>2. Range(kept') = Range(kept) \union {Head(objects)}
    <3>1. kept \in Seq(Obj) /\ kept' = Append(kept, Head(objects))
      BY <1>10 DEF SweepKeep, TypeOK
    <3>2. kept' = kept \o <<Head(objects)>>
      BY <2>1, <3>1
    <3>3. ASSUME NEW e \in Obj
          PROVE  Range(kept \o <<e>>) = Range(kept) \union {e}
      BY ONLY <3>1, RangeAppend
    <3>4. Range(kept \o <<Head(objects)>>) = Range(kept) \union {Head(objects)}
      BY ONLY <2>1, <3>3
    <3>5. QED
      BY ONLY <3>2, <3>4
  <2>3. LiveBar' = LiveBar
    BY <1>10, <2>1, <2>2 DEF SweepKeep, LiveBar, SweepInv
  <2>4. SweepInv'
    BY <1>2, <1>10, <2>1, <2>2, <2>3 DEF SweepKeep, SweepInv
  <2>5. QED
    BY <1>10, <2>4 DEF SweepKeep, StringInv, IdleInv, TriColour, MarkInv
<1>11. CASE SweepFree
  <2>1. Range(objects) = {Head(objects)} \union Range(Tail(objects))
    BY <1>11, RangeHeadTail DEF SweepFree, TypeOK
  <2>2. LiveBar' = LiveBar
    BY <1>11, <2>1 DEF SweepFree, LiveBar, SweepInv
  <2>3. SweepInv'
    BY <1>2, <1>11, <2>1, <2>2 DEF SweepFree, SweepInv
  <2>4. QED
    BY <1>11, <2>3 DEF SweepFree, StringInv, IdleInv, TriColour, MarkInv
<1>12. CASE SweepEnd
  <2>1. Range(objects) = {} /\ marked = {}
    BY <1>12 DEF SweepEnd, SweepInv, Range
  <2>2. R = Range(kept) /\ strings \subseteq Range(kept)
    BY <1>12, <2>1 DEF SweepEnd, SweepInv, LiveBar
  <2>3. Accessible' = R
    <3>1. fresh = {}
      BY <1>12 DEF SweepEnd, SweepInv
    <3>2. QED
      BY <1>12, <3>1 DEF SweepEnd, Accessible
  <2>4. IdleInv'
    BY <1>12, <2>1, <2>2, <2>3 DEF SweepEnd, IdleInv, SweepInv
  <2>5. QED
    BY <1>12, <2>4 DEF SweepEnd, StringInv, TriColour, MarkInv, SweepInv
<1>13. ASSUME NEW o \in Obj, AllocateObject(o)
       PROVE  IInv'
  <2> DEFINE S == Accessible \union {o}
  <2>1. o \notin Range(objects) /\ Accessible \subseteq Range(objects)
    BY <1>13 DEF AllocateObject, Live, IdleInv
  <2>2. Range(objects') = {o} \union Range(objects)
    BY <1>13, RangeAppend DEF AllocateObject, TypeOK
  <2>3. refs' = [refs EXCEPT ![o] = {}]
    BY <1>13 DEF AllocateObject
  <2>4. Closed(S, refs')
    BY <2>1, <2>3, AccessibleClosed DEF Closed, TypeOK
  <2>5. (roots \union fresh)' \subseteq S /\ S \in SUBSET Obj
    BY <1>13, AccessibleClosed DEF AllocateObject
  <2>6. Accessible' \subseteq S
    BY <2>4, <2>5, ReachableLeast DEF TypeOK, Accessible
  <2>7. IdleInv'
    BY <1>13, <2>1, <2>2, <2>6 DEF AllocateObject, IdleInv
  <2>8. StringInv'
    BY <1>13, <2>3 DEF AllocateObject, StringInv, TypeOK
  <2>9. QED
    BY <1>13, <2>7, <2>8 DEF AllocateObject, TriColour, MarkInv, SweepInv
<1>14. CASE GrowArray
  BY <1>3, <1>14 DEF GrowArray, StringInv, IdleInv, TriColour, MarkInv, SweepInv
<1>15. CASE OutOfMemory
  BY <1>3, <1>15 DEF OutOfMemory, StringInv, IdleInv, TriColour, MarkInv, SweepInv
<1>16. QED
  BY <1>4, <1>5, <1>6, <1>7, <1>8, <1>9, <1>10, <1>11, <1>12, <1>13, <1>14, <1>15
     DEF Reallocate

\* The invariant is inductive.
LEMMA NextIInv == IInv /\ [Next]_vars => IInv'
<1> SUFFICES ASSUME IInv, [Next]_vars
             PROVE  IInv'
  OBVIOUS
<1>1. TypeOK'
  BY NextTypeOK DEF IInv
<1>2. CASE UNCHANGED vars
  BY <1>2 DEF vars, IInv, TypeOK, PC, StringInv, IdleInv, TriColour, MarkInv, SweepInv,
              Accessible, LiveBar
<1>3. QED
  BY <1>1, <1>2, MutateIInv, ReallocateIInv DEF Next

\* The strengthened invariant of the collector (reallocate and collect_garbage,
\* memory.c:14-40, 221-239) holds in every state of every run, for any number of
\* objects: what is marked is reachable, what is black points to nothing white,
\* and sweep keeps exactly what is reachable.
THEOREM InductiveInvariant == Spec => []IInv
BY InitIInv, NextIInv, PTL DEF Spec

\* Every variable has its type and the list of objects repeats none.
THEOREM TypeCorrect == Spec => []TypeOK
<1>1. IInv => TypeOK
  BY DEF IInv
<1>2. QED
  BY <1>1, InductiveInvariant, PTL

-----------------------------------------------------------------------------
(***************************************************************************)
(* What the invariant implies.                                             *)
(***************************************************************************)

\* Nothing the interpreter can get at has been freed (memory.c:171-239): no use
\* after free, provided C locals are not used across an allocation.
THEOREM NoUseAfterFree == Spec => []HeapSound
<1>1. IInv => HeapSound
  <2> SUFFICES ASSUME IInv PROVE HeapSound
    OBVIOUS
  <2>1. CASE pc # "sweep"
    BY <2>1 DEF IInv, TypeOK, PC, IdleInv, MarkInv, HeapSound, Live
  <2>2. CASE pc = "sweep"
    <3>1. Accessible = LiveBar
      BY <2>2 DEF IInv, SweepInv, Accessible
    <3>2. QED
      BY <2>2, <3>1 DEF HeapSound, Live, LiveBar
  <2>3. QED
    BY <2>1, <2>2
<1>2. QED
  BY <1>1, InductiveInvariant, PTL

\* mark_roots and trace_references keep the tricolour invariant (memory.c:52).
THEOREM TriColourHolds == Spec => []TriColour
<1>1. IInv => TriColour
  BY DEF IInv
<1>2. QED
  BY <1>1, InductiveInvariant, PTL

\* No object stays marked between two collections (memory.c:202-206).
THEOREM NoMarkLeft == Spec => []MarksClear
<1>1. IInv => MarksClear
  BY DEF IInv, IdleInv, MarksClear
<1>2. QED
  BY <1>1, InductiveInvariant, PTL

\* When sweep reaches the end of the list, the objects left in it are exactly the
\* reachable ones (memory.c:197-219): nothing in use is freed, nothing leaks.
THEOREM CollectionIsExact == Spec => []ExactCollection
<1>1. IInv => ExactCollection
  BY DEF IInv, SweepInv, ExactCollection, LiveBar, Range
<1>2. QED
  BY <1>1, InductiveInvariant, PTL

\* The intern table holds no freed string (table.c:133-140, memory.c:229).
THEOREM TableHoldsNoFreedString == Spec => []WeakTable
<1>1. IInv => WeakTable
  BY DEF IInv, TypeOK, PC, IdleInv, MarkInv, SweepInv, WeakTable, Live, LiveBar
<1>2. QED
  BY <1>1, InductiveInvariant, PTL

\* A collection does not forget an interned string that the roots lead to, so
\* two equal strings in use are always one object (table_remove_white deletes
\* white keys only, table.c:136).
THEOREM ReachableStaysInterned == Spec => InternedStays
<1>1. ASSUME IInv, Next, pc' # "exit"
      PROVE  (strings \ strings') \intersect Reachable(roots, refs) = {}
  <2>1. CASE RemoveWhite
    <3>1. roots \subseteq marked /\ Closed(marked, refs)
      BY <1>1, <2>1 DEF IInv, RemoveWhite, TriColour, MarkInv, Closed
    <3>2. Reachable(roots, refs) \subseteq marked
      BY <1>1, <3>1, ReachableLeast DEF IInv, TypeOK
    <3>3. QED
      BY <2>1, <3>2 DEF RemoveWhite
  <2>2. CASE ~RemoveWhite
    <3>1. strings \subseteq strings'
      BY <1>1, <2>2
         DEF Next, Mutate, Reallocate, FreeVM, Root, Unroot, Intern, FindInterned,
             Link, Unlink, Collect, SkipCollect, EndMarkRoots, SweepKeep, SweepFree,
             SweepEnd, GrowArray, OutOfMemory, MarkRoot, Blacken, AllocateObject
    <3>2. QED
      BY <3>1
  <2>3. QED
    BY <2>1, <2>2
<1>2. IInv /\ [Next]_vars =>
        [pc' # "exit" => (strings \ strings') \intersect Reachable(roots, refs) = {}]_vars
  BY <1>1
<1>3. QED
  BY <1>2, InductiveInvariant, PTL DEF Spec, InternedStays

-----------------------------------------------------------------------------
(***************************************************************************)
(* Refinement.                                                             *)
(***************************************************************************)

\* The initial heaps correspond.
LEMMA InitHeap == Init => Heap!Init
BY DEF Init, Heap!Init, LiveBar, Range

\* A step of the mutator is the step of the same name.
LEMMA MutateHeap == IInv /\ Mutate => Heap!Next
<1> SUFFICES ASSUME IInv, Mutate
             PROVE  Heap!Next
  OBVIOUS
<1> USE DEF gcVars, heapVars
<1>1. Heap!Accessible = Accessible
  BY DEF Heap!Accessible, Accessible, Heap!Reachable, Reachable, Heap!Closed, Closed
<1>2. UNCHANGED gcVars /\ pc' = pc => LiveBar' = LiveBar
  BY DEF LiveBar
<1>3. ASSUME NEW o \in Obj, Root(o)
      PROVE  Heap!Next
  <2>1. Heap!Root(o)
    BY <1>1, <1>2, <1>3 DEF Root, Heap!Root
  <2>2. QED
    BY <2>1 DEF Heap!Next
<1>4. ASSUME NEW o \in Obj, Unroot(o)
      PROVE  Heap!Next
  <2>1. Heap!Unroot(o)
    BY <1>2, <1>4 DEF Unroot, Heap!Unroot
  <2>2. QED
    BY <2>1 DEF Heap!Next
<1>5. ASSUME NEW s \in Obj, Intern(s)
      PROVE  Heap!Next
  <2>1. Heap!Intern(s)
    BY <1>1, <1>2, <1>5 DEF Intern, Heap!Intern
  <2>2. QED
    BY <2>1 DEF Heap!Next
<1>6. ASSUME NEW s \in Obj, FindInterned(s)
      PROVE  Heap!Next
  <2>1. Heap!FindInterned(s)
    BY <1>2, <1>6 DEF FindInterned, Heap!FindInterned
  <2>2. QED
    BY <2>1 DEF Heap!Next
<1>7. ASSUME NEW a \in Obj, NEW b \in Obj, Link(a, b)
      PROVE  Heap!Next
  <2>1. Heap!Link(a, b)
    BY <1>1, <1>2, <1>7 DEF Link, Heap!Link
  <2>2. QED
    BY <2>1 DEF Heap!Next
<1>8. ASSUME NEW a \in Obj, NEW b \in Obj, Unlink(a, b)
      PROVE  Heap!Next
  <2>1. Heap!Unlink(a, b)
    BY <1>1, <1>2, <1>8 DEF Unlink, Heap!Unlink
  <2>2. QED
    BY <2>1 DEF Heap!Next
<1>9. CASE FreeVM
  <2>1. LiveBar' = {}
    BY <1>9 DEF FreeVM, LiveBar, Range
  <2>2. Heap!FreeAll
    BY <1>9, <2>1 DEF FreeVM, Heap!FreeAll
  <2>3. QED
    BY <2>2 DEF Heap!Next
<1>10. QED
  BY <1>3, <1>4, <1>5, <1>6, <1>7, <1>8, <1>9 DEF Mutate

\* Of the steps of an allocation, the one that begins the sweep is the abstract
\* collection and the last one creates the object; the others change nothing
\* that the mutator can see.
LEMMA ReallocateHeap ==
  IInv /\ IInv' /\ (Collect \/ SkipCollect \/ Reallocate) => [Heap!Next]_(Heap!vars)
<1> SUFFICES ASSUME IInv, IInv', Collect \/ SkipCollect \/ Reallocate
             PROVE  Heap!Next \/ UNCHANGED Heap!vars
  OBVIOUS
<1> USE DEF gcVars, heapVars
<1>1. CASE Collect \/ SkipCollect
  BY <1>1 DEF Collect, SkipCollect, LiveBar, Heap!vars
<1>2. ASSUME NEW o \in Obj, MarkRoot(o) \/ Blacken(o)
      PROVE  UNCHANGED Heap!vars
  BY <1>2 DEF MarkRoot, Blacken, LiveBar, Heap!vars
<1>3. CASE EndMarkRoots \/ GrowArray \/ OutOfMemory
  BY <1>3 DEF EndMarkRoots, GrowArray, OutOfMemory, LiveBar, Heap!vars
<1>4. CASE RemoveWhite
  <2>1. /\ LiveBar' = Reachable(roots, refs)
        /\ strings' \subseteq LiveBar'
    BY <1>4 DEF RemoveWhite, IInv, SweepInv
  <2>2. marked = Reachable(roots, refs)
    <3>1. kept = <<>> /\ Range(kept) = {} /\ marked \subseteq Reachable(roots, refs)
      BY <1>4 DEF RemoveWhite, IInv, MarkInv, Range
    <3>2. LiveBar' = Range(objects) \intersect marked
      BY <1>4, <3>1 DEF RemoveWhite, LiveBar
    <3>3. QED
      BY <2>1, <3>1, <3>2
  <2>3. Heap!Reachable(roots, refs) = Reachable(roots, refs)
    BY DEF Heap!Reachable, Reachable, Heap!Closed, Closed
  <2>4. Heap!Collect
    BY <1>4, <2>1, <2>2, <2>3 DEF RemoveWhite, Heap!Collect
  <2>5. QED
    BY <2>4 DEF Heap!Next
<1>5. CASE SweepKeep \/ SweepFree
  <2>1. LiveBar' = LiveBar
    BY <1>5 DEF SweepKeep, SweepFree, IInv, SweepInv
  <2>2. QED
    BY <1>5, <2>1 DEF SweepKeep, SweepFree, Heap!vars
<1>6. CASE SweepEnd
  <2>1. LiveBar' = LiveBar
    BY <1>6 DEF SweepEnd, LiveBar, Range
  <2>2. QED
    BY <1>6, <2>1 DEF SweepEnd, Heap!vars
<1>7. ASSUME NEW o \in Obj, AllocateObject(o)
      PROVE  Heap!Next
  <2>1. LiveBar = Range(objects) /\ LiveBar' = Range(<<o>> \o objects)
    BY <1>7 DEF AllocateObject, LiveBar
  <2>2. LiveBar' = LiveBar \union {o}
    BY <2>1, RangeAppend DEF IInv, TypeOK
  <2>3. Heap!New(o)
    BY <1>7, <2>1, <2>2 DEF AllocateObject, Live, Heap!New
  <2>4. QED
    BY <2>3 DEF Heap!Next
<1>8. QED
  BY <1>1, <1>2, <1>3, <1>4, <1>5, <1>6, <1>7 DEF Reallocate

\* The mark-and-sweep collector, interrupted nowhere but run in steps, implements
\* the heap where unreachable objects disappear at once (ManagedHeap).
THEOREM CollectorImplementsHeap == Spec => ImplementsHeap
<1>1. IInv /\ IInv' /\ [Next]_vars => [Heap!Next]_(Heap!vars)
  <2> SUFFICES ASSUME IInv, IInv', [Next]_vars
               PROVE  [Heap!Next]_(Heap!vars)
    OBVIOUS
  <2>1. CASE UNCHANGED vars
    BY <2>1 DEF vars, Heap!vars, LiveBar
  <2>2. QED
    BY <2>1, MutateHeap, ReallocateHeap DEF Next
<1>2. QED
  BY InitHeap, <1>1, InductiveInvariant, PTL DEF Spec, ImplementsHeap, Heap!Spec

=============================================================================
