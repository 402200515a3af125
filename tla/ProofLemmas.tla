---------------------------- MODULE ProofLemmas -----------------------------
(***************************************************************************)
(* Facts about numbers and sequences that the proofs about several         *)
(* components need.  Least elements stand in for induction: what fails for *)
(* some number fails for a least one.                                      *)
(***************************************************************************)
EXTENDS Integers, Sequences, FiniteSets, FiniteSetTheorems, TLAPS

\* A set of numbers that has an element has a least one.
LEMMA LeastElement ==
  ASSUME NEW S \in SUBSET Nat, S # {}
  PROVE  \E n \in S : \A m \in S : n <= m
<1>. DEFINE Intervals == {0..n : n \in S}
<1>1. IsWellFoundedOn(StrictSubsetOrdering(Nat), FiniteSubsetsOf(Nat))
  BY FS_StrictSubsetOrderingWellFounded
<1>2. \A n \in Nat : 0..n \in FiniteSubsetsOf(Nat)
  BY FS_Interval DEF FiniteSubsetsOf
<1>3. Intervals \subseteq FiniteSubsetsOf(Nat) /\ Intervals # {}
  BY <1>2
<1>4. PICK a \in Intervals : \A b \in Intervals : ~(<<b, a>> \in StrictSubsetOrdering(Nat))
  <2>. HIDE DEF Intervals
  <2>. QED BY <1>1, <1>3, WFMin
<1>5. PICK n \in S : a = 0..n
  BY <1>4
<1>6. ASSUME NEW m \in S PROVE n <= m
  <2>1. <<0..m, 0..n>> \notin StrictSubsetOrdering(Nat)
    BY <1>4, <1>5
  <2>2. SUFFICES ASSUME m < n PROVE FALSE
    OBVIOUS
  <2>3. 0..m \subseteq 0..n /\ n \in 0..n /\ n \notin 0..m
    BY <2>2
  <2>. QED BY <2>1, <2>3 DEF StrictSubsetOrdering
<1>. QED BY <1>6

\* A set of positions up to n that has an element has a greatest one.
LEMMA GreatestElement ==
  ASSUME NEW n \in Nat, NEW S \in SUBSET (1..n), S # {}
  PROVE  \E i \in S : \A j \in S : i >= j
<1>. DEFINE mirror == {n - i : i \in S}
<1>1. mirror \in SUBSET Nat /\ mirror # {}
  OBVIOUS
<1>2. PICK m \in mirror : \A l \in mirror : m <= l
  <2>. HIDE DEF mirror
  <2>. QED BY <1>1, LeastElement
<1>3. PICK i \in S : m = n - i
  BY <1>2
<1>4. ASSUME NEW j \in S PROVE i >= j
  <2>1. n - i <= n - j /\ i \in Int /\ j \in Int
    BY <1>2, <1>3
  <2>. QED BY <2>1
<1>. QED BY <1>4

\* f takes the value first at a, and at each number up to b what next makes of its
\* value at the one before.
Steps(a, b, S, first, next) ==
  a \in Nat /\ b \in Nat /\ first \in S /\ next \in [a..b -> [S -> S]]
IsRecursion(f, a, b, S, first, next) ==
  /\ f \in [a..b -> S]
  /\ \A m \in a..b : f[m] = IF m = a THEN first ELSE next[m][f[m - 1]]

LEMMA RecursionExists ==
  ASSUME NEW a, NEW b, NEW S, NEW first, NEW next, Steps(a, b, S, first, next)
  PROVE  \E f : IsRecursion(f, a, b, S, first, next)
<1>. USE DEF Steps, IsRecursion
<1>. DEFINE Solves(f, k) ==
              /\ f \in [a..k -> S]
              /\ \A m \in a..k : f[m] = IF m = a THEN first ELSE next[m][f[m - 1]]
            Bad == {k \in Nat : a <= k /\ k <= b /\ ~\E f : Solves(f, k)}
<1>1. ASSUME Bad # {} PROVE FALSE
  <2>1. PICK k \in Bad : \A j \in Bad : k <= j
    <3>1. Bad \in SUBSET Nat
      OBVIOUS
    <3>. HIDE DEF Bad
    <3>. QED BY <1>1, <3>1, LeastElement
  <2>2. k \in Nat /\ a <= k /\ k <= b /\ ~\E f : Solves(f, k)
    OBVIOUS
  <2>3. CASE k = a
    <3>. DEFINE g == [m \in a..k |-> first]
    <3>1. Solves(g, k)
      BY <2>3
    <3>. QED BY <2>2, <3>1
  <2>4. CASE k # a
    <3>1. k - 1 \in Nat /\ a <= k - 1 /\ k - 1 <= b /\ ~(k <= k - 1)
      BY <2>2, <2>4
    <3>2. PICK f : Solves(f, k - 1)
      BY <2>1, <3>1
    <3>. DEFINE g == [m \in a..k |-> IF m = k THEN next[k][f[k - 1]] ELSE f[m]]
    <3>3. f[k - 1] \in S
      BY <3>1, <3>2
    <3>4. next[k][f[k - 1]] \in S
      BY <2>2, <3>3
    <3>5. \A m \in a..k : m = k \/ m \in a..(k - 1)
      BY <2>2
    <3>6. g \in [a..k -> S]
      BY <3>2, <3>4, <3>5
    <3>7. ASSUME NEW m \in a..k PROVE g[m] = IF m = a THEN first ELSE next[m][g[m - 1]]
      <4>1. CASE m = k
        <5>1. g[k - 1] = f[k - 1] /\ g[k] = next[k][f[k - 1]]
          BY <2>2, <3>1
        <5>. QED BY <2>4, <4>1, <5>1
      <4>2. CASE m # k
        <5>1. m \in a..(k - 1) /\ g[m] = f[m]
          BY <2>2, <4>2
        <5>2. m # a => g[m - 1] = f[m - 1]
          BY <2>2, <5>1
        <5>3. f[m] = IF m = a THEN first ELSE next[m][f[m - 1]]
          BY <3>2, <5>1
        <5>. HIDE DEF g
        <5>. QED BY <5>1, <5>2, <5>3
      <4>. QED BY <4>1, <4>2
    <3>8. Solves(g, k)
      BY <3>6, <3>7
    <3>. HIDE DEF g
    <3>. QED BY <2>2, <3>8
  <2>. QED BY <2>3, <2>4
<1>2. CASE a <= b
  <2>1. b \in Nat /\ b <= b
    OBVIOUS
  <2>. HIDE DEF Solves
  <2>2. b \notin Bad
    BY <1>1
  <2>3. \E f : Solves(f, b)
    BY <1>2, <2>1, <2>2
  <2>. QED BY <2>3 DEF Solves
<1>3. CASE ~(a <= b)
  <2>1. a..b = {}
    BY <1>3
  <2>2. [m \in a..b |-> first] \in [a..b -> S]
    OBVIOUS
  <2>. QED BY <2>1, <2>2
<1>. QED BY <1>2, <1>3

\* The positions 1..n begin with a run that belongs to S, which ends at the first
\* one that does not.
LEMMA LeadingRun ==
  ASSUME NEW n \in Nat, NEW S
  PROVE  \E m \in 0..n : (\A i \in 1..m : i \in S) /\ (m < n => m + 1 \notin S)
<1>. DEFINE Stops == {m \in 0..n : m < n => m + 1 \notin S}
<1>1. Stops \in SUBSET Nat /\ n \in Stops
  OBVIOUS
<1>2. PICK m \in Stops : \A l \in Stops : m <= l
  <2>. HIDE DEF Stops
  <2>. QED BY <1>1, LeastElement
<1>3. ASSUME NEW i \in 1..m PROVE i \in S
  <2>1. i - 1 \in 0..n /\ i - 1 < n /\ ~(m <= i - 1) /\ (i - 1) + 1 = i
    BY <1>2
  <2>2. i - 1 \notin Stops
    BY <1>2, <2>1
  <2>. QED BY <2>1, <2>2
<1>. QED BY <1>2, <1>3

\* A sequence over S is one over any set that has more elements.
LEMMA SeqOfMore ==
  ASSUME NEW S, NEW T, S \subseteq T, NEW seq \in Seq(S)
  PROVE  seq \in Seq(T)
<1>1. Len(seq) \in Nat /\ seq = [i \in 1..Len(seq) |-> seq[i]] /\ \A i \in 1..Len(seq) : seq[i] \in S
  OBVIOUS
<1>2. [i \in 1..Len(seq) |-> seq[i]] \in Seq(T)
  BY <1>1
<1>. QED BY <1>1, <1>2

\* Sequences with the same elements at the same places are the same.
LEMMA SameSeq ==
  ASSUME NEW S, NEW s \in Seq(S), NEW T, NEW t \in Seq(T), Len(s) = Len(t),
         \A i \in 1..Len(s) : s[i] = t[i]
  PROVE  s = t
<1>1. s = [i \in 1..Len(s) |-> s[i]]
  OBVIOUS
<1>2. t = [i \in 1..Len(s) |-> t[i]]
  OBVIOUS
<1>3. [i \in 1..Len(s) |-> s[i]] = [i \in 1..Len(s) |-> t[i]]
  OBVIOUS
<1>. QED BY <1>1, <1>2, <1>3, Zenon

\* The first n elements of a sequence, and the others.
LEMMA PrefixIs ==
  ASSUME NEW S, NEW seq \in Seq(S), NEW n \in 0..Len(seq)
  PROVE  /\ SubSeq(seq, 1, n) \in Seq(S) /\ Len(SubSeq(seq, 1, n)) = n
         /\ \A i \in 1..n : SubSeq(seq, 1, n)[i] = seq[i]
OBVIOUS

LEMMA SuffixIs ==
  ASSUME NEW S, NEW seq \in Seq(S), NEW n \in 0..Len(seq)
  PROVE  /\ SubSeq(seq, n + 1, Len(seq)) \in Seq(S)
         /\ Len(SubSeq(seq, n + 1, Len(seq))) = Len(seq) - n
         /\ \A i \in 1..(Len(seq) - n) : SubSeq(seq, n + 1, Len(seq))[i] = seq[n + i]
OBVIOUS

LEMMA ConcatIs ==
  ASSUME NEW S, NEW s \in Seq(S), NEW t \in Seq(S)
  PROVE  /\ s \o t \in Seq(S) /\ Len(s \o t) = Len(s) + Len(t)
         /\ \A i \in 1..Len(s) : (s \o t)[i] = s[i]
         /\ \A i \in 1..Len(t) : (s \o t)[Len(s) + i] = t[i]
OBVIOUS

\* z is x followed by y, element by element.
Joins(x, y, z) ==
  /\ Len(z) = Len(x) + Len(y)
  /\ \A i \in 1..Len(x) : z[i] = x[i]
  /\ \A i \in 1..Len(y) : z[Len(x) + i] = y[i]

LEMMA Joined ==
  ASSUME NEW S, NEW x \in Seq(S), NEW y \in Seq(S), NEW z \in Seq(S), Joins(x, y, z)
  PROVE  x \o y = z
<1>. USE DEF Joins
<1>1. PICK v : v = x \o y
  BY Zenon
<1>2. /\ v \in Seq(S) /\ Len(v) = Len(x) + Len(y)
      /\ \A i \in 1..Len(x) : v[i] = x[i]
      /\ \A i \in 1..Len(y) : v[Len(x) + i] = y[i]
  BY <1>1, ConcatIs
<1>3. ASSUME NEW i \in 1..Len(v) PROVE v[i] = z[i]
  <2>1. CASE i \in 1..Len(x)
    BY <1>2, <2>1
  <2>2. CASE i \notin 1..Len(x)
    <3>1. i - Len(x) \in 1..Len(y) /\ Len(x) + (i - Len(x)) = i
      BY <1>2, <2>2
    <3>. QED BY <1>2, <3>1
  <2>. QED BY <2>1, <2>2
<1>4. v = z
  BY <1>2, <1>3, SameSeq
<1>. QED BY <1>1, <1>4

\* new is seq with the element e put in after the first n.
IsInsertion(seq, n, e, new) ==
  /\ Len(new) = Len(seq) + 1 /\ new[n + 1] = e
  /\ \A i \in 1..n : new[i] = seq[i]
  /\ \A i \in (n + 1)..Len(seq) : new[i + 1] = seq[i]

LEMMA InsertedIs ==
  ASSUME NEW S, NEW seq \in Seq(S), NEW n \in 0..Len(seq), NEW e \in S
  PROVE  \A new : new = SubSeq(seq, 1, n) \o <<e>> \o SubSeq(seq, n + 1, Len(seq)) =>
           new \in Seq(S) /\ IsInsertion(seq, n, e, new)
<1>0. SUFFICES
        ASSUME NEW new, new = SubSeq(seq, 1, n) \o <<e>> \o SubSeq(seq, n + 1, Len(seq))
        PROVE  new \in Seq(S) /\ IsInsertion(seq, n, e, new)
  BY Zenon
<1>1. PICK low \in Seq(S) : low = SubSeq(seq, 1, n)
  BY PrefixIs
<1>2. PICK high \in Seq(S) : high = SubSeq(seq, n + 1, Len(seq))
  BY SuffixIs
<1>3. Len(low) = n /\ \A i \in 1..n : low[i] = seq[i]
  BY <1>1, PrefixIs
<1>4. Len(high) = Len(seq) - n /\ \A i \in 1..(Len(seq) - n) : high[i] = seq[n + i]
  BY <1>2, SuffixIs
<1>5. PICK left \in Seq(S) : left = low \o <<e>>
  <2>1. <<e>> \in Seq(S)
    OBVIOUS
  <2>2. low \o <<e>> \in Seq(S)
    BY <2>1, ConcatIs
  <2>. QED BY <2>2, Zenon
<1>6. Len(left) = n + 1 /\ left[n + 1] = e /\ \A i \in 1..n : left[i] = seq[i]
  BY <1>3, <1>5
<1>7. new = left \o high
  BY <1>0, <1>1, <1>2, <1>5, Zenon
<1>8. /\ new \in Seq(S) /\ Len(new) = Len(left) + Len(high)
      /\ \A i \in 1..Len(left) : new[i] = left[i]
      /\ \A i \in 1..Len(high) : new[Len(left) + i] = high[i]
  BY <1>7, ConcatIs
<1>9. Len(new) = Len(seq) + 1 /\ Len(seq) \in Nat
  BY <1>4, <1>6, <1>8
<1>10. ASSUME NEW i \in (n + 1)..Len(seq) PROVE new[i + 1] = seq[i]
  <2>1. i - n \in 1..Len(high) /\ Len(left) + (i - n) = i + 1 /\ n + (i - n) = i
    BY <1>4, <1>6
  <2>2. i - n \in 1..(Len(seq) - n)
    BY <1>9
  <2>3. high[i - n] = seq[n + (i - n)] /\ new[Len(left) + (i - n)] = high[i - n]
    BY <1>4, <1>8, <2>1, <2>2, Zenon
  <2>. QED BY <2>1, <2>3, Zenon
<1>11. ASSUME NEW i \in 1..(n + 1) PROVE new[i] = left[i]
  BY <1>6, <1>8
<1>12. new[n + 1] = e /\ \A i \in 1..n : new[i] = seq[i]
  BY <1>6, <1>11
<1>. QED BY <1>8, <1>9, <1>10, <1>12, Zenon DEF IsInsertion

\* The parts of a sequence that is not empty.
LEMMA SeqParts ==
  ASSUME NEW S, NEW seq \in Seq(S), seq # <<>>
  PROVE  /\ Len(seq) \in Nat /\ Len(seq) >= 1 /\ seq[1] \in S
         /\ Tail(seq) \in Seq(S) /\ (Len(seq) # 1 => Tail(seq) # <<>>)
<1>1. Len(seq) \in Nat /\ Len(seq) >= 1
  OBVIOUS
<1>2. seq[1] \in S
  BY <1>1
<1>3. Tail(seq) \in Seq(S)
  BY <1>1
<1>4. Len(Tail(seq)) = Len(seq) - 1
  BY <1>1
<1>5. ASSUME Tail(seq) = <<>> PROVE Len(seq) = 1
  <2>1. Len(<<>>) = 0
    OBVIOUS
  <2>2. Len(Tail(seq)) = Len(<<>>)
    BY <1>5, Zenon
  <2>3. Len(seq) - 1 = 0
    BY <1>4, <2>1, <2>2, Zenon
  <2>. QED BY <1>1, <2>3
<1>. QED BY <1>1, <1>2, <1>3, <1>5

=============================================================================
