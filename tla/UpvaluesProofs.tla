--------------------------- MODULE UpvaluesProofs ---------------------------
(***************************************************************************)
(* For any values, closures, addresses and bounds: the types of Upvalues,  *)
(* the windows of the calls, the order of the open upvalues and where each *)
(* upvalue points; and, for a stack that stays where it is and a program   *)
(* without runtime errors, that captured variables can always be used and  *)
(* that Upvalues implements LexicalScope.                                  *)
(***************************************************************************)
EXTENDS Upvalues, ProofLemmas

\* The slot at which the call of frame fr begins when the stack is at b.
SlotOf(fr, b) == fr.slots - b + 1

\* The windows of the calls fs in the stack st at b: the first begins at the
\* bottom, each after the variables of those below it; each begins with the
\* closure, which nothing captures, and its variables are in the stack.
WindowsOf(b, st, fs) ==
  /\ fs = <<>> => st = <<>>
  /\ fs # <<>> => SlotOf(fs[1], b) = 1
  /\ \A k \in 1..Len(fs) :
       /\ SlotOf(fs[k], b) >= 1
       /\ Len(fs[k].locals) >= 1 /\ fs[k].locals[1] = FALSE
       /\ SlotOf(fs[k], b) + Len(fs[k].locals) - 1 <= Len(st)
       /\ st[SlotOf(fs[k], b)] = fs[k].closure
       /\ \A j \in 1..(k - 1) : SlotOf(fs[j], b) + Len(fs[j].locals) <= SlotOf(fs[k], b)

\* Slot p holds a variable that some closure captures.
IsCaptured(b, fs, p) ==
  \E k \in 1..Len(fs) : \E i \in 1..Len(fs[k].locals) :
    p = SlotOf(fs[k], b) + i - 1 /\ fs[k].locals[i] = TRUE

\* What an open upvalue points to, unless the stack has left it behind.
OpenCaptured == \A u \in Range(open) \ stale : IsCaptured(base, frames, SlotAt(loc[u]))
OpenAddresses == \A u \in Range(open) : loc[u] \in Nat

\* An upvalue that is neither closed nor in the list was there when the stack
\* moved or was freed; without runtime errors, there is none.
OpenListed ==
  \A u \in Created : loc[u] = Closed \/ u \in Range(open) \/ (u \in stale /\ Errors)

\* The closure whose captures are in progress is on top.
CapturesPending == todo > 0 => frames # <<>> /\ Top \in Clo

FaultNeedsStale == fault => stale # {}

\* The stack stays where it is: only clear_stack leaves open upvalues behind.
OneBase == \A b, c \in Bases : b = c
StaleLeft == OneBase => Range(open) \intersect stale = {} /\ (Errors = FALSE => stale = {})

Order == OpenDescending /\ OpenAddresses /\ OpenCaptured /\ OpenListed /\ StaleLeft

IInv ==
  /\ TypeOK /\ Len(stack) <= MaxStack
  /\ WindowsOf(base, stack, frames)
  /\ Order
  /\ CapturesPending /\ FaultNeedsStale

-----------------------------------------------------------------------------
(***************************************************************************)
(* The open list.                                                          *)
(***************************************************************************)

\* A list that descends from neighbour to neighbour descends from end to end: the
\* least position out of order would have a neighbour out of order.
LEMMA Descends ==
  ASSUME NEW list \in Seq(Up), NEW at \in [Up -> Int],
         \A i \in 1..(Len(list) - 1) : at[list[i]] > at[list[i + 1]],
         NEW i \in 1..Len(list), NEW j \in 1..Len(list), i < j
  PROVE  at[list[i]] > at[list[j]]
<1>. DEFINE Wrong == {m \in 1..Len(list) : i < m /\ ~(at[list[i]] > at[list[m]])}
<1>1. Len(list) \in Nat /\ \A m \in 1..Len(list) : at[list[m]] \in Int
  OBVIOUS
<1>2. SUFFICES ASSUME Wrong # {} PROVE FALSE
  OBVIOUS
<1>3. Wrong \in SUBSET Nat
  BY <1>1
<1>4. PICK m \in Wrong : \A l \in Wrong : m <= l
  <2>. HIDE DEF Wrong
  <2>. QED BY <1>2, <1>3, LeastElement
<1>5. m \in 1..Len(list) /\ i < m /\ m - 1 \in 1..(Len(list) - 1) /\ m - 1 \notin Wrong
  BY <1>1, <1>4
<1>6. at[list[m - 1]] > at[list[(m - 1) + 1]]
  BY <1>5
<1>7. (m - 1) + 1 = m
  BY <1>5
<1>8. i = m - 1 \/ at[list[i]] > at[list[m - 1]]
  BY <1>1, <1>5
<1>. QED BY <1>1, <1>4, <1>5, <1>6, <1>7, <1>8

LEMMA OrderedThroughout ==
  ASSUME TypeOK, OpenDescending,
         NEW i \in 1..Len(open), NEW j \in 1..Len(open), i < j
  PROVE  loc[open[i]] > loc[open[j]]
BY Descends DEF TypeOK, OpenDescending

\* Above and AtOrAbove cut the list in two: the loops of capture_upvalue and
\* close_upvalues find every upvalue on their side of the address, although they
\* stop at the first that is not.
LEMMA AboveCuts ==
  ASSUME TypeOK, OpenDescending, NEW a \in Int
  PROVE  /\ Above(a) \in 0..Len(open)
         /\ \A i \in 1..Above(a) : loc[open[i]] > a
         /\ \A i \in (Above(a) + 1)..Len(open) : loc[open[i]] <= a
<1>. DEFINE Higher == {i \in 1..Len(open) : loc[open[i]] > a}
<1>1. Len(open) \in Nat /\ \A m \in 1..Len(open) : loc[open[m]] \in Int
  BY DEF TypeOK
<1>2. PICK n \in 0..Len(open) :
        (\A i \in 1..n : i \in Higher) /\ (n < Len(open) => n + 1 \notin Higher)
  <2>. HIDE DEF Higher
  <2>. QED BY <1>1, LeadingRun
<1>3. (\A i \in 1..n : loc[open[i]] > a) /\ (n < Len(open) => ~(loc[open[n + 1]] > a))
  BY <1>1, <1>2
<1>4. /\ Above(a) \in 0..Len(open)
      /\ \A i \in 1..Above(a) : loc[open[i]] > a
      /\ Above(a) < Len(open) => ~(loc[open[Above(a) + 1]] > a)
  BY <1>3 DEF Above, LeadingOpen
<1>. QED BY <1>1, <1>4, OrderedThroughout

LEMMA AtOrAboveCuts ==
  ASSUME TypeOK, OpenDescending, NEW a \in Int
  PROVE  /\ AtOrAbove(a) \in 0..Len(open)
         /\ \A i \in 1..AtOrAbove(a) : loc[open[i]] >= a
         /\ \A i \in (AtOrAbove(a) + 1)..Len(open) : loc[open[i]] < a
<1>. DEFINE NotLower == {i \in 1..Len(open) : loc[open[i]] >= a}
<1>1. Len(open) \in Nat /\ \A m \in 1..Len(open) : loc[open[m]] \in Int
  BY DEF TypeOK
<1>2. PICK n \in 0..Len(open) :
        (\A i \in 1..n : i \in NotLower) /\ (n < Len(open) => n + 1 \notin NotLower)
  <2>. HIDE DEF NotLower
  <2>. QED BY <1>1, LeadingRun
<1>3. (\A i \in 1..n : loc[open[i]] >= a) /\ (n < Len(open) => ~(loc[open[n + 1]] >= a))
  BY <1>1, <1>2
<1>4. /\ AtOrAbove(a) \in 0..Len(open)
      /\ \A i \in 1..AtOrAbove(a) : loc[open[i]] >= a
      /\ AtOrAbove(a) < Len(open) => ~(loc[open[AtOrAbove(a) + 1]] >= a)
  BY <1>3 DEF AtOrAbove, LeadingOpen
<1>. QED BY <1>1, <1>4, OrderedThroughout

-----------------------------------------------------------------------------
(***************************************************************************)
(* The windows of the calls.                                               *)
(***************************************************************************)

\* The calls gs of a stack at c are the calls fs of a stack at b, moved.
SameCalls(b, fs, c, gs) ==
  /\ Len(gs) = Len(fs)
  /\ \A k \in 1..Len(fs) :
       /\ gs[k].closure = fs[k].closure /\ gs[k].locals = fs[k].locals
       /\ SlotOf(gs[k], c) = SlotOf(fs[k], b)

LEMMA LocalsType ==
  ASSUME NEW ls
  PROVE  ls \in UNION {[1..n -> BOOLEAN] : n \in 0..MaxStack}
           <=> ls \in Seq(BOOLEAN) /\ Len(ls) <= MaxStack
<1>1. MaxStack \in Nat
  BY NatAssumption
<1>2. ASSUME NEW n \in 0..MaxStack, ls \in [1..n -> BOOLEAN]
      PROVE  ls \in Seq(BOOLEAN) /\ Len(ls) <= MaxStack
  BY <1>1, <1>2
<1>3. ASSUME ls \in Seq(BOOLEAN), Len(ls) <= MaxStack
      PROVE  Len(ls) \in 0..MaxStack /\ ls \in [1..Len(ls) -> BOOLEAN]
  BY <1>1, <1>3
<1>. QED BY <1>2, <1>3

LEMMA FrameFields ==
  ASSUME NEW fs \in Seq(FrameType), NEW k \in 1..Len(fs)
  PROVE  /\ fs[k] \in FrameType /\ fs[k].closure \in Clo \union {Script}
         /\ fs[k].slots \in Int /\ fs[k].arity \in 0..MaxArity
         /\ fs[k].locals \in Seq(BOOLEAN) /\ Len(fs[k].locals) \in 0..MaxStack
<1>1. fs[k] \in FrameType
  OBVIOUS
<1>2. /\ fs[k].closure \in Clo \union {Script} /\ fs[k].slots \in Int
      /\ fs[k].arity \in 0..MaxArity
      /\ fs[k].locals \in UNION {[1..n -> BOOLEAN] : n \in 0..MaxStack}
  BY <1>1 DEF FrameType
<1>3. MaxStack \in Nat
  BY NatAssumption
<1>. QED BY <1>1, <1>2, <1>3, LocalsType

LEMMA FrameNumbers ==
  ASSUME NEW fs \in Seq(FrameType), NEW b \in Int, NEW k \in 1..Len(fs)
  PROVE  SlotOf(fs[k], b) \in Int /\ Len(fs[k].locals) \in Nat
BY FrameFields DEF SlotOf

\* Calls that move with their stack keep their windows and what is captured.
LEMMA WindowsMove ==
  ASSUME NEW b, NEW c, NEW st, NEW fs \in Seq(FrameType), NEW gs \in Seq(FrameType),
         SameCalls(b, fs, c, gs), WindowsOf(b, st, fs)
  PROVE  WindowsOf(c, st, gs)
<1>1. Len(fs) \in Nat /\ Len(gs) = Len(fs) /\ (fs = <<>> <=> gs = <<>>)
  BY DEF SameCalls
<1>2. fs # <<>> => 1 \in 1..Len(fs)
  BY <1>1
<1>3. /\ fs = <<>> => st = <<>>
      /\ fs # <<>> => SlotOf(fs[1], b) = 1
      /\ \A k \in 1..Len(fs) :
           /\ SlotOf(fs[k], b) >= 1
           /\ Len(fs[k].locals) >= 1 /\ fs[k].locals[1] = FALSE
           /\ SlotOf(fs[k], b) + Len(fs[k].locals) - 1 <= Len(st)
           /\ st[SlotOf(fs[k], b)] = fs[k].closure
           /\ \A j \in 1..(k - 1) : SlotOf(fs[j], b) + Len(fs[j].locals) <= SlotOf(fs[k], b)
  BY DEF WindowsOf
<1>4. /\ gs = <<>> => st = <<>>
      /\ gs # <<>> => SlotOf(gs[1], c) = 1
  BY <1>1, <1>2, <1>3 DEF SameCalls
<1>5. ASSUME NEW k \in 1..Len(gs)
      PROVE  /\ SlotOf(gs[k], c) >= 1
             /\ Len(gs[k].locals) >= 1 /\ gs[k].locals[1] = FALSE
             /\ SlotOf(gs[k], c) + Len(gs[k].locals) - 1 <= Len(st)
             /\ st[SlotOf(gs[k], c)] = gs[k].closure
             /\ \A j \in 1..(k - 1) : SlotOf(gs[j], c) + Len(gs[j].locals) <= SlotOf(gs[k], c)
  <2>1. \A j \in 1..(k - 1) : j \in 1..Len(fs)
    BY <1>1
  <2>. QED BY <1>1, <1>3, <2>1 DEF SameCalls
<1>. QED BY <1>4, <1>5 DEF WindowsOf

LEMMA CapturedMove ==
  ASSUME NEW b, NEW c, NEW fs, NEW gs, SameCalls(b, fs, c, gs), NEW p, IsCaptured(b, fs, p)
  PROVE  IsCaptured(c, gs, p)
BY DEF SameCalls, IsCaptured

\* A variable lies above the closures of its call and of the calls below, and
\* below those above: what it is assigned never overwrites a closure that runs.
LEMMA VariableIsNoClosure ==
  ASSUME NEW b \in Int, NEW st, NEW fs \in Seq(FrameType), WindowsOf(b, st, fs),
         NEW k \in 1..Len(fs), NEW i \in 2..Len(fs[k].locals), NEW j \in 1..Len(fs)
  PROVE  SlotOf(fs[j], b) # SlotOf(fs[k], b) + i - 1
<1>1. /\ SlotOf(fs[j], b) \in Int /\ SlotOf(fs[k], b) \in Int
      /\ Len(fs[j].locals) \in Nat /\ Len(fs[k].locals) \in Nat
  BY FrameNumbers
<1>2. CASE j < k
  <2>1. SlotOf(fs[j], b) + Len(fs[j].locals) <= SlotOf(fs[k], b)
    BY <1>2 DEF WindowsOf
  <2>. QED BY <1>1, <2>1
<1>3. CASE j = k
  BY <1>1, <1>3
<1>4. CASE j > k
  <2>1. SlotOf(fs[k], b) + Len(fs[k].locals) <= SlotOf(fs[j], b)
    BY <1>4 DEF WindowsOf
  <2>. QED BY <1>1, <2>1
<1>. QED BY <1>2, <1>3, <1>4

\* A captured variable is in the stack, and is not the closure of a call.
LEMMA CapturedIsVariable ==
  ASSUME NEW b \in Int, NEW st \in Seq(Value), NEW fs \in Seq(FrameType), WindowsOf(b, st, fs),
         NEW p, IsCaptured(b, fs, p)
  PROVE  p \in 2..Len(st) /\ \A j \in 1..Len(fs) : SlotOf(fs[j], b) # p
<1>0. PICK k \in 1..Len(fs) : \E i \in 1..Len(fs[k].locals) :
        p = SlotOf(fs[k], b) + i - 1 /\ fs[k].locals[i] = TRUE
  BY DEF IsCaptured
<1>1. PICK i \in 1..Len(fs[k].locals) :
        p = SlotOf(fs[k], b) + i - 1 /\ fs[k].locals[i] = TRUE
  BY <1>0
<1>2. /\ SlotOf(fs[k], b) \in Int /\ SlotOf(fs[k], b) >= 1 /\ Len(fs[k].locals) \in Nat
      /\ fs[k].locals[1] = FALSE /\ SlotOf(fs[k], b) + Len(fs[k].locals) - 1 <= Len(st)
  BY FrameFields DEF SlotOf, WindowsOf
<1>3. i # 1
  BY <1>1, <1>2, Zenon
<1>4. i \in 2..Len(fs[k].locals)
  BY <1>2, <1>3
<1>. QED BY <1>1, <1>2, <1>4, VariableIsNoClosure

-----------------------------------------------------------------------------
(***************************************************************************)
(* What push, close_upvalues and capture_upvalue do.                       *)
(***************************************************************************)

LEMMA RebaseMoves ==
  ASSUME NEW fs \in Seq(FrameType), NEW b \in Int, base \in Int
  PROVE  Rebase(fs, b) \in Seq(FrameType) /\ SameCalls(base, fs, b, Rebase(fs, b))
<1>. DEFINE gs == Rebase(fs, b)
<1>1. Len(fs) \in Nat /\ DOMAIN fs = 1..Len(fs)
  OBVIOUS
<1>2. gs = [k \in 1..Len(fs) |-> [fs[k] EXCEPT !.slots = b + (@ - base)]]
  BY <1>1 DEF Rebase
<1>. HIDE DEF gs
<1>3. ASSUME NEW k \in 1..Len(fs)
      PROVE  /\ gs[k] \in FrameType /\ gs[k].slots = b + (fs[k].slots - base)
             /\ gs[k].closure = fs[k].closure /\ gs[k].locals = fs[k].locals
  <2>. DEFINE L == UNION {[1..n -> BOOLEAN] : n \in 0..MaxStack}
  <2>1. FrameType = [closure : Clo \union {Script}, slots : Int, arity : 0..MaxArity, locals : L]
    BY DEF FrameType
  <2>. HIDE DEF L
  <2>2. gs[k] = [fs[k] EXCEPT !.slots = b + (fs[k].slots - base)]
    BY <1>2
  <2>3. fs[k] \in FrameType /\ b + (fs[k].slots - base) \in Int
    BY FrameFields
  <2>. QED BY <2>1, <2>2, <2>3
<1>4. gs \in Seq(FrameType) /\ Len(gs) = Len(fs)
  <2>1. \A k \in 1..Len(fs) : gs[k] \in FrameType
    BY <1>3
  <2>2. DOMAIN gs = 1..Len(fs) /\ gs = [k \in 1..Len(fs) |-> gs[k]]
    BY <1>2
  <2>. QED BY <1>1, <2>1, <2>2
<1>5. ASSUME NEW k \in 1..Len(fs) PROVE SlotOf(gs[k], b) = SlotOf(fs[k], base)
  BY <1>3, FrameFields DEF SlotOf
<1>6. SameCalls(base, fs, b, gs)
  BY <1>3, <1>4, <1>5 DEF SameCalls
<1>. QED BY <1>4, <1>6 DEF gs

\* push: one value more, in a stack that has room for it, and calls whose windows
\* are where they were; a captured variable is left behind if the stack moves.
LEMMA PushEffect ==
  ASSUME TypeOK, NEW n \in 0..Len(stack), NEW fs \in Seq(FrameType), NEW v \in Value,
         Push(n, fs, v)
  PROVE  /\ stack' \in Seq(Value) /\ Len(stack') = n + 1 /\ stack'[n + 1] = v
         /\ \A i \in 1..n : stack'[i] = stack[i]
         /\ base' \in Bases /\ capacity' \in Nat
         /\ Len(stack') <= capacity' /\ Len(stack') <= MaxStack
         /\ frames' \in Seq(FrameType) /\ SameCalls(base, fs, base', frames')
         /\ stale' = IF base' = base THEN stale ELSE stale \union Range(open)
<1>1. /\ base \in Bases /\ base \in Int /\ \A b \in Bases : b \in Int
      /\ capacity \in Nat /\ stack \in Seq(Value) /\ Len(stack) <= capacity
      /\ MaxStack \in Nat /\ MinCapacity \in Nat /\ MinCapacity > 0
  BY NatAssumption DEF TypeOK
<1>2. PICK low \in Seq(Value) : low = SubSeq(stack, 1, n)
  BY <1>1, PrefixIs
<1>3. Len(low) = n /\ \A i \in 1..n : low[i] = stack[i]
  BY <1>1, <1>2, PrefixIs
<1>4. stack' = Append(low, v) /\ n < MaxStack
  BY <1>2 DEF Push
<1>5. /\ stack' \in Seq(Value) /\ Len(stack') = n + 1 /\ stack'[n + 1] = v
      /\ \A i \in 1..n : stack'[i] = stack[i]
  BY <1>3, <1>4
<1>6. CASE n = capacity
  <2>1. /\ capacity' = GrowCapacity(capacity) /\ base' \in Bases /\ frames' = Rebase(fs, base')
        /\ stale' = IF base' = base THEN stale ELSE stale \union Range(open)
    BY <1>6 DEF Push
  <2>2. capacity' \in Nat /\ n + 1 <= capacity'
    BY <1>1, <1>6, <2>1 DEF GrowCapacity
  <2>3. frames' \in Seq(FrameType) /\ SameCalls(base, fs, base', frames')
    BY <1>1, <2>1, RebaseMoves
  <2>. QED BY <1>1, <1>4, <1>5, <2>1, <2>2, <2>3
<1>7. CASE n # capacity
  <2>1. frames' = fs /\ base' = base /\ capacity' = capacity /\ stale' = stale
    BY <1>7 DEF Push
  <2>2. n + 1 <= capacity
    BY <1>1, <1>7
  <2>. QED BY <1>1, <1>4, <1>5, <2>1, <2>2 DEF SameCalls
<1>. QED BY <1>6, <1>7

\* close_upvalues: the upvalues at a or above are closed, and they alone.
LEMMA CloseEffect ==
  ASSUME TypeOK, OpenDescending, NEW a \in Int, CloseFrom(a)
  PROVE  /\ open' \in Seq(Up) /\ IsInjective(open') /\ OpenDescending'
         /\ \A u : u \in Range(open') <=> u \in Range(open) /\ loc[u] < a
         /\ loc' = [u \in Up |-> IF u \in Range(open) /\ loc[u] >= a THEN Closed ELSE loc[u]]
         /\ closed' = [u \in Up |->
                        IF u \in Range(open) /\ loc[u] >= a THEN Deref(u) ELSE closed[u]]
         /\ upvalues' = upvalues
<1>. DEFINE n == AtOrAbove(a)
            closing == {open[i] : i \in 1..n}
<1>1. /\ open \in Seq(Up) /\ Len(open) \in Nat /\ DOMAIN open = 1..Len(open)
      /\ \A i, j \in 1..Len(open) : open[i] = open[j] => i = j
      /\ \A u \in Up : loc[u] \in Int
  BY DEF TypeOK, IsInjective
<1>2. /\ n \in 0..Len(open)
      /\ \A i \in 1..n : loc[open[i]] >= a
      /\ \A i \in (n + 1)..Len(open) : loc[open[i]] < a
  BY AtOrAboveCuts
<1>3. /\ closed' = [u \in Up |-> IF u \in closing THEN Deref(u) ELSE closed[u]]
      /\ loc' = [u \in Up |-> IF u \in closing THEN Closed ELSE loc[u]]
      /\ open' = SubSeq(open, n + 1, Len(open)) /\ upvalues' = upvalues
  BY DEF CloseFrom
<1>. HIDE DEF n
<1>4. \A u : u \in closing <=> u \in Range(open) /\ loc[u] >= a
  BY <1>1, <1>2 DEF Range
<1>5. /\ open' \in Seq(Up) /\ Len(open') = Len(open) - n
      /\ \A i \in 1..(Len(open) - n) : open'[i] = open[n + i]
  BY <1>1, <1>2, <1>3, SuffixIs
<1>6. DOMAIN open' = 1..(Len(open) - n)
  BY <1>5
<1>7. ASSUME NEW u PROVE u \in Range(open') <=> u \in Range(open) /\ loc[u] < a
  <2>1. ASSUME u \in Range(open') PROVE u \in Range(open) /\ loc[u] < a
    <3>1. PICK i \in 1..(Len(open) - n) : u = open'[i]
      BY <1>6, <2>1 DEF Range
    <3>2. n + i \in (n + 1)..Len(open) /\ n + i \in 1..Len(open) /\ u = open[n + i]
      BY <1>1, <1>2, <1>5, <3>1
    <3>. QED BY <1>1, <1>2, <3>2 DEF Range
  <2>2. ASSUME u \in Range(open), loc[u] < a PROVE u \in Range(open')
    <3>1. PICK i \in 1..Len(open) : u = open[i]
      BY <1>1, <2>2 DEF Range
    <3>2. i \notin 1..n
      BY <1>1, <1>2, <2>2, <3>1
    <3>3. i - n \in 1..(Len(open) - n) /\ n + (i - n) = i
      BY <1>1, <1>2, <3>2
    <3>4. open'[i - n] = u
      BY <1>5, <3>1, <3>3
    <3>. QED BY <1>6, <3>3, <3>4 DEF Range
  <2>. QED BY <2>1, <2>2
<1>8. ASSUME NEW i \in 1..(Len(open) - n), NEW j \in 1..(Len(open) - n), open'[i] = open'[j]
      PROVE  i = j
  BY <1>1, <1>2, <1>5, <1>8
<1>9. ASSUME NEW i \in 1..(Len(open') - 1) PROVE loc'[open'[i]] > loc'[open'[i + 1]]
  <2>1. /\ i \in 1..(Len(open) - n) /\ i + 1 \in 1..(Len(open) - n)
        /\ n + i \in (n + 1)..Len(open) /\ n + (i + 1) \in (n + 1)..Len(open)
        /\ n + i \in 1..Len(open) /\ n + (i + 1) \in 1..Len(open) /\ n + i < n + (i + 1)
    BY <1>1, <1>2, <1>5
  <2>2. open'[i] = open[n + i] /\ open'[i + 1] = open[n + (i + 1)]
    BY <1>5, <2>1
  <2>3. loc[open[n + i]] > loc[open[n + (i + 1)]]
    BY <2>1, OrderedThroughout
  <2>4. open[n + i] \notin closing /\ open[n + (i + 1)] \notin closing
    BY <1>1, <1>2, <1>4, <2>1
  <2>5. open[n + i] \in Up /\ open[n + (i + 1)] \in Up
    BY <1>1, <2>1
  <2>. QED BY <1>3, <2>2, <2>3, <2>4, <2>5
<1>10. loc' = [u \in Up |-> IF u \in Range(open) /\ loc[u] >= a THEN Closed ELSE loc[u]]
  BY <1>3, <1>4
<1>11. closed' = [u \in Up |->
                   IF u \in Range(open) /\ loc[u] >= a THEN Deref(u) ELSE closed[u]]
  BY <1>3, <1>4
<1>12. IsInjective(open') /\ OpenDescending'
  BY <1>6, <1>8, <1>9 DEF IsInjective, OpenDescending
<1>. QED BY <1>3, <1>5, <1>7, <1>10, <1>11, <1>12

\* capture_upvalue: the closure has one upvalue more, which is open at a: the one
\* that the list had for that address, or a new one if it had none.
LEMMA CaptureEffect ==
  ASSUME TypeOK, OpenDescending, NEW a \in Nat, NEW f, CaptureAt(f, a)
  PROVE  \E u \in Up :
           /\ upvalues' = [upvalues EXCEPT ![f] = Append(@, u)] /\ loc'[u] = a
           /\ open' \in Seq(Up) /\ IsInjective(open') /\ OpenDescending'
           /\ \A w : w \in Range(open') <=> w \in Range(open) \/ w = u
           /\ \/ u \in Range(open) /\ UNCHANGED <<open, loc, closed, stale>>
              \/ /\ u \notin Created /\ \A w \in Range(open) : loc[w] # a
                 /\ loc' = [loc EXCEPT ![u] = a]
                 /\ closed' = [closed EXCEPT ![u] = Script]
                 /\ stale' = stale \ {u}
<1>. DEFINE n == Above(a)
<1>1. /\ open \in Seq(Up) /\ Len(open) \in Nat /\ DOMAIN open = 1..Len(open)
      /\ \A i, j \in 1..Len(open) : open[i] = open[j] => i = j
      /\ loc \in [Up -> Int] /\ IsInjective(open)
  BY DEF TypeOK, IsInjective
<1>2. /\ n \in 0..Len(open)
      /\ \A i \in 1..n : loc[open[i]] > a
      /\ \A i \in (n + 1)..Len(open) : loc[open[i]] <= a
  BY AboveCuts
<1>3. CASE /\ n < Len(open) /\ loc[open[n + 1]] = a
           /\ upvalues' = [upvalues EXCEPT ![f] = Append(@, open[n + 1])]
           /\ UNCHANGED <<open, loc, closed, stale>>
  <2>. HIDE DEF n
  <2>1. n + 1 \in 1..Len(open)
    BY <1>1, <1>2, <1>3
  <2>2. open[n + 1] \in Up /\ open[n + 1] \in Range(open)
    BY <1>1, <2>1 DEF Range
  <2>3. OpenDescending'
    BY <1>3 DEF OpenDescending
  <2>. QED BY <1>1, <1>3, <2>2, <2>3
<1>4. CASE /\ n < Len(open) => loc[open[n + 1]] # a
           /\ \E u \in Up :
                /\ u \notin Created
                /\ open' = SubSeq(open, 1, n) \o <<u>> \o SubSeq(open, n + 1, Len(open))
                /\ loc' = [loc EXCEPT ![u] = a]
                /\ upvalues' = [upvalues EXCEPT ![f] = Append(@, u)]
                /\ closed' = [closed EXCEPT ![u] = Script]
                /\ stale' = stale \ {u}
  <2>. HIDE DEF n
  <2>1. PICK u \in Up :
          /\ u \notin Created
          /\ open' = SubSeq(open, 1, n) \o <<u>> \o SubSeq(open, n + 1, Len(open))
          /\ loc' = [loc EXCEPT ![u] = a]
          /\ upvalues' = [upvalues EXCEPT ![f] = Append(@, u)]
          /\ closed' = [closed EXCEPT ![u] = Script]
          /\ stale' = stale \ {u}
    BY <1>4
  <2>2. /\ open' \in Seq(Up) /\ Len(open') = Len(open) + 1 /\ open'[n + 1] = u
        /\ \A i \in 1..n : open'[i] = open[i]
        /\ \A i \in (n + 1)..Len(open) : open'[i + 1] = open[i]
    <3>1. open \in Seq(Up) /\ n \in 0..Len(open)
      BY <1>1, <1>2
    <3>2. open' = SubSeq(open, 1, n) \o <<u>> \o SubSeq(open, n + 1, Len(open))
      BY <2>1, Zenon
    <3>3. \A new : new = SubSeq(open, 1, n) \o <<u>> \o SubSeq(open, n + 1, Len(open)) =>
            new \in Seq(Up) /\ IsInsertion(open, n, u, new)
      BY <3>1, InsertedIs, Zenon
    <3>4. open' \in Seq(Up) /\ IsInsertion(open, n, u, open')
      BY <3>2, <3>3, Zenon
    <3>. QED BY <3>4, Zenon DEF IsInsertion
  <2>3. \A i \in 1..Len(open) : open[i] \in Up /\ open[i] # u
    <3>1. u \notin Range(open)
      BY <2>1, Zenon DEF Created
    <3>2. \A i \in 1..Len(open) : open[i] \in Range(open)
      BY <1>1, Zenon DEF Range
    <3>3. \A i \in 1..Len(open) : open[i] \in Up
      BY <1>1
    <3>. QED BY <3>1, <3>2, <3>3, Zenon
  <2>4. \A i \in (n + 1)..Len(open) : loc[open[i]] < a
    <3>1. SUFFICES ASSUME NEW i \in (n + 1)..Len(open) PROVE loc[open[i]] < a
      OBVIOUS
    <3>2. n + 1 \in 1..Len(open) /\ i \in 1..Len(open) /\ n < Len(open)
      BY <1>1, <1>2
    <3>3. loc[open[n + 1]] < a
      BY <1>1, <1>2, <1>4, <3>2
    <3>4. i = n + 1 \/ loc[open[n + 1]] > loc[open[i]]
      BY <1>2, <3>2, OrderedThroughout
    <3>. QED BY <1>1, <3>2, <3>3, <3>4
  <2>5. \A i \in 1..Len(open) : loc[open[i]] # a
    BY <1>1, <1>2, <2>4
  <2>6. loc'[u] = a /\ \A i \in 1..Len(open) : loc'[open[i]] = loc[open[i]]
    BY <1>1, <2>1, <2>3
  <2>7. ASSUME NEW i \in 1..(Len(open') - 1) PROVE loc'[open'[i]] > loc'[open'[i + 1]]
    <3>1. CASE i < n
      <4>1. i \in 1..n /\ i + 1 \in 1..n /\ i \in 1..(Len(open) - 1)
            /\ i \in 1..Len(open) /\ i + 1 \in 1..Len(open)
        BY <1>1, <1>2, <3>1
      <4>2. loc[open[i]] > loc[open[i + 1]]
        BY <4>1 DEF OpenDescending
      <4>. QED BY <2>2, <2>6, <4>1, <4>2
    <3>2. CASE i = n
      <4>1. n \in 1..n /\ n \in 1..Len(open)
        BY <1>2, <2>2, <3>2
      <4>. QED BY <1>2, <2>2, <2>6, <3>2, <4>1
    <3>3. CASE i = n + 1
      <4>1. n + 1 \in (n + 1)..Len(open) /\ n + 1 \in 1..Len(open) /\ i + 1 = (n + 1) + 1
        BY <1>1, <1>2, <2>2, <3>3
      <4>2. open'[i] = u /\ open'[i + 1] = open[n + 1]
        BY <2>2, <3>3, <4>1
      <4>. QED BY <1>1, <2>4, <2>6, <4>1, <4>2
    <3>4. CASE i > n + 1
      <4>1. /\ i - 1 \in (n + 1)..Len(open) /\ i \in (n + 1)..Len(open) /\ (i - 1) + 1 = i
            /\ i - 1 \in 1..Len(open) /\ i \in 1..Len(open) /\ i - 1 \in 1..(Len(open) - 1)
        BY <1>1, <1>2, <2>2, <3>4
      <4>2. loc[open[i - 1]] > loc[open[i]]
        BY <4>1 DEF OpenDescending
      <4>3. open'[i] = open[i - 1] /\ open'[i + 1] = open[i]
        BY <2>2, <4>1
      <4>. QED BY <2>6, <4>1, <4>2, <4>3
    <3>. QED BY <1>2, <3>1, <3>2, <3>3, <3>4
  <2>8. DOMAIN open' = 1..(Len(open) + 1)
    BY <2>2
  <2>9. ASSUME NEW w PROVE w \in Range(open') <=> w \in Range(open) \/ w = u
    <3>1. ASSUME w \in Range(open') PROVE w \in Range(open) \/ w = u
      <4>1. PICK i \in 1..(Len(open) + 1) : w = open'[i]
        BY <2>8, <3>1 DEF Range
      <4>2. i \in 1..n \/ i = n + 1 \/ (i - 1 \in (n + 1)..Len(open) /\ (i - 1) + 1 = i)
        BY <1>1, <1>2
      <4>3. CASE i \in 1..n
        <5>1. open'[i] = open[i] /\ i \in 1..Len(open)
          BY <1>2, <2>2, <4>3
        <5>. QED BY <1>1, <4>1, <5>1 DEF Range
      <4>4. CASE i = n + 1
        BY <2>2, <4>1, <4>4
      <4>5. CASE i - 1 \in (n + 1)..Len(open) /\ (i - 1) + 1 = i
        <5>1. open'[i] = open[i - 1] /\ i - 1 \in 1..Len(open)
          BY <1>2, <2>2, <4>5
        <5>. QED BY <1>1, <4>1, <5>1 DEF Range
      <4>. QED BY <4>2, <4>3, <4>4, <4>5
    <3>2. ASSUME w \in Range(open) PROVE w \in Range(open')
      <4>1. PICK i \in 1..Len(open) : w = open[i]
        BY <1>1, <3>2 DEF Range
      <4>2. i \in 1..n \/ i \in (n + 1)..Len(open)
        BY <1>2
      <4>3. i \in 1..(Len(open) + 1) /\ i + 1 \in 1..(Len(open) + 1)
        BY <1>1
      <4>4. w = open'[i] \/ w = open'[i + 1]
        BY <2>2, <4>1, <4>2
      <4>. QED BY <2>8, <4>3, <4>4 DEF Range
    <3>3. u \in Range(open')
      <4>1. n + 1 \in 1..(Len(open) + 1)
        BY <1>1, <1>2
      <4>. QED BY <2>2, <2>8, <4>1 DEF Range
    <3>. QED BY <3>1, <3>2, <3>3
  <2>10. \A w \in Range(open) : loc[w] # a
    BY <1>1, <2>5 DEF Range
  <2>11. OpenDescending'
    BY <2>7 DEF OpenDescending
  <2>12. IsInjective(open')
    <3>1. open' \in Seq(Up) /\ loc' \in [Up -> Int]
      <4>1. a \in Int
        OBVIOUS
      <4>2. [loc EXCEPT ![u] = a] \in [Up -> Int]
        BY <1>1, <4>1
      <4>. QED BY <2>1, <2>2, <4>2, Zenon
    <3>2. \A i \in 1..(Len(open') - 1) : loc'[open'[i]] > loc'[open'[i + 1]]
      BY <2>7
    <3>3. ASSUME NEW i \in 1..Len(open'), NEW j \in 1..Len(open'), i < j
          PROVE  open'[i] # open'[j]
      <4>1. loc'[open'[i]] > loc'[open'[j]]
        BY <3>1, <3>2, <3>3, Descends
      <4>2. loc'[open'[i]] \in Int
        BY <3>1
      <4>. QED BY <4>1, <4>2
    <3>. QED BY <2>2, <2>8, <3>1, <3>3 DEF IsInjective
  <2>. QED BY <2>1, <2>2, <2>6, <2>9, <2>10, <2>11, <2>12
<1>. QED BY <1>3, <1>4 DEF CaptureAt

-----------------------------------------------------------------------------
(***************************************************************************)
(* What a step does to the windows.                                        *)
(***************************************************************************)

LEMMA WithLocalsEffect ==
  ASSUME frames \in Seq(FrameType), frames # <<>>, NEW ls \in Seq(BOOLEAN), Len(ls) <= MaxStack
  PROVE  LET gs == WithLocals(ls)
             n == Len(frames)
         IN  /\ gs \in Seq(FrameType) /\ Len(gs) = n /\ n \in Nat /\ n >= 1
             /\ \A k \in 1..(n - 1) : gs[k] = frames[k]
             /\ gs[n].closure = frames[n].closure /\ gs[n].slots = frames[n].slots
             /\ gs[n].locals = ls
<1>. DEFINE gs == WithLocals(ls)
            n == Len(frames)
            L == UNION {[1..m -> BOOLEAN] : m \in 0..MaxStack}
<1>1. n \in Nat /\ n >= 1 /\ n \in 1..n /\ DOMAIN frames = 1..n
  OBVIOUS
<1>2. ls \in L
  BY LocalsType
<1>3. FrameType = [closure : Clo \union {Script}, slots : Int, arity : 0..MaxArity, locals : L]
  BY DEF FrameType
<1>4. gs = [frames EXCEPT ![n] = [frames[n] EXCEPT !.locals = ls]]
  BY DEF WithLocals
<1>5. \A k \in 1..n : frames[k] \in FrameType
  BY <1>1
<1>. HIDE DEF gs, L
<1>6. [frames[n] EXCEPT !.locals = ls] \in FrameType
  BY <1>1, <1>2, <1>3, <1>5
<1>7. /\ [frames[n] EXCEPT !.locals = ls].closure = frames[n].closure
      /\ [frames[n] EXCEPT !.locals = ls].slots = frames[n].slots
      /\ [frames[n] EXCEPT !.locals = ls].locals = ls
  BY <1>1, <1>3, <1>5
<1>8. /\ DOMAIN gs = 1..n /\ gs[n] = [frames[n] EXCEPT !.locals = ls]
      /\ \A k \in 1..(n - 1) : gs[k] = frames[k]
  BY <1>1, <1>4
<1>9. \A k \in 1..n : gs[k] \in FrameType
  BY <1>1, <1>5, <1>6, <1>8
<1>10. gs \in Seq(FrameType) /\ Len(gs) = n
  <2>1. gs = [k \in 1..n |-> gs[k]]
    BY <1>4, <1>8
  <2>. QED BY <1>1, <1>8, <1>9, <2>1
<1>. QED BY <1>1, <1>7, <1>8, <1>10 DEF gs

\* The windows stay when the stack keeps what they hold ...
LEMMA WindowsKept ==
  ASSUME NEW b, NEW st, NEW st2, NEW fs, WindowsOf(b, st, fs), fs # <<>>,
         \A k \in 1..Len(fs) : /\ SlotOf(fs[k], b) + Len(fs[k].locals) - 1 <= Len(st2)
                               /\ st2[SlotOf(fs[k], b)] = st[SlotOf(fs[k], b)]
  PROVE  WindowsOf(b, st2, fs)
BY DEF WindowsOf

\* ... which is so when it keeps what is below the top of the last window.
LEMMA WindowsBelow ==
  ASSUME NEW b \in Int, NEW st, NEW fs \in Seq(FrameType), WindowsOf(b, st, fs), fs # <<>>,
         NEW k \in 1..Len(fs)
  PROVE  LET n == Len(fs)
         IN  /\ n \in 1..Len(fs) /\ SlotOf(fs[n], b) \in Int /\ SlotOf(fs[k], b) \in Int
             /\ Len(fs[n].locals) \in Nat /\ Len(fs[k].locals) \in Nat
             /\ 1 <= SlotOf(fs[k], b) /\ SlotOf(fs[k], b) <= SlotOf(fs[n], b)
             /\ SlotOf(fs[k], b) + Len(fs[k].locals) <= SlotOf(fs[n], b) + Len(fs[n].locals)
             /\ k # n => SlotOf(fs[k], b) + Len(fs[k].locals) <= SlotOf(fs[n], b)
<1>. DEFINE n == Len(fs)
<1>1. n \in Nat /\ n \in 1..n
  OBVIOUS
<1>2. /\ SlotOf(fs[n], b) \in Int /\ SlotOf(fs[k], b) \in Int
      /\ Len(fs[n].locals) \in Nat /\ Len(fs[k].locals) \in Nat
  BY <1>1, FrameNumbers
<1>3. /\ 1 <= SlotOf(fs[k], b) /\ Len(fs[k].locals) >= 1
      /\ k # n => SlotOf(fs[k], b) + Len(fs[k].locals) <= SlotOf(fs[n], b)
  BY <1>1 DEF WindowsOf
<1>. QED BY <1>1, <1>2, <1>3

\* The variables of the running call may change, as long as there is room.
LEMMA WindowsWithLocals ==
  ASSUME base \in Int, frames \in Seq(FrameType), frames # <<>>, WindowsOf(base, stack, frames),
         NEW ls \in Seq(BOOLEAN), Len(ls) <= MaxStack, Len(ls) >= 1, ls[1] = FALSE,
         NEW st \in Seq(Value), FirstSlot + Len(ls) - 1 <= Len(st),
         \A i \in 1..FirstSlot : st[i] = stack[i]
  PROVE  WindowsOf(base, st, WithLocals(ls))
<1>. DEFINE gs == WithLocals(ls)
            n == Len(frames)
<1>1. /\ gs \in Seq(FrameType) /\ Len(gs) = n /\ n \in Nat /\ n >= 1 /\ n \in 1..n
      /\ \A k \in 1..(n - 1) : gs[k] = frames[k]
      /\ gs[n].closure = frames[n].closure /\ gs[n].slots = frames[n].slots
      /\ gs[n].locals = ls
  BY WithLocalsEffect
<1>. HIDE DEF gs
<1>2. SlotOf(frames[n], base) = FirstSlot
  BY DEF FirstSlot, SlotAt, SlotOf, Frame
<1>3. \A k \in 1..n : /\ SlotOf(gs[k], base) = SlotOf(frames[k], base)
                     /\ gs[k].closure = frames[k].closure
  <2>1. \A k \in 1..n : k = n \/ k \in 1..(n - 1)
    BY <1>1
  <2>. QED BY <1>1, <2>1 DEF SlotOf
<1>4. ASSUME NEW k \in 1..n
      PROVE  /\ SlotOf(frames[k], base) \in 1..FirstSlot /\ FirstSlot \in Int
             /\ Len(frames[k].locals) \in Nat
             /\ k # n => SlotOf(frames[k], base) + Len(frames[k].locals) <= FirstSlot
  BY <1>2, WindowsBelow
<1>5. ASSUME NEW k \in 1..n
      PROVE  /\ SlotOf(gs[k], base) >= 1
             /\ Len(gs[k].locals) >= 1 /\ gs[k].locals[1] = FALSE
             /\ SlotOf(gs[k], base) + Len(gs[k].locals) - 1 <= Len(st)
             /\ st[SlotOf(gs[k], base)] = gs[k].closure
             /\ \A j \in 1..(k - 1) : SlotOf(gs[j], base) + Len(gs[j].locals) <= SlotOf(gs[k], base)
  <2>1. st[SlotOf(gs[k], base)] = gs[k].closure
    <3>1. stack[SlotOf(frames[k], base)] = frames[k].closure
      BY DEF WindowsOf
    <3>. QED BY <1>3, <1>4, <3>1
  <2>2. \A j \in 1..(k - 1) : SlotOf(gs[j], base) + Len(gs[j].locals) <= SlotOf(gs[k], base)
    <3>1. SUFFICES ASSUME NEW j \in 1..(k - 1)
                   PROVE  SlotOf(gs[j], base) + Len(gs[j].locals) <= SlotOf(gs[k], base)
      OBVIOUS
    <3>2. j \in 1..(n - 1) /\ j \in 1..n
      BY <1>1
    <3>3. SlotOf(frames[j], base) + Len(frames[j].locals) <= SlotOf(frames[k], base)
      BY DEF WindowsOf
    <3>. QED BY <1>1, <1>3, <3>2, <3>3
  <2>3. CASE k = n
    BY <1>1, <1>2, <1>3, <1>4, <2>1, <2>2, <2>3
  <2>4. CASE k # n
    <3>1. k \in 1..(n - 1)
      BY <1>1, <2>4
    <3>2. /\ Len(frames[k].locals) >= 1 /\ frames[k].locals[1] = FALSE
      BY DEF WindowsOf
    <3>3. Len(st) \in Nat /\ Len(ls) \in Nat
      OBVIOUS
    <3>4. gs[k] = frames[k]
      BY <1>1, <3>1
    <3>5. /\ SlotOf(frames[k], base) \in 1..FirstSlot /\ FirstSlot \in Int
          /\ Len(frames[k].locals) \in Nat
          /\ SlotOf(frames[k], base) + Len(frames[k].locals) <= FirstSlot
      BY <1>4, <2>4
    <3>6. SlotOf(frames[k], base) + Len(frames[k].locals) - 1 <= Len(st)
      BY <1>4, <3>3, <3>5
    <3>7. SlotOf(frames[k], base) >= 1
      BY <3>5
    <3>. QED BY <2>1, <2>2, <3>2, <3>4, <3>6, <3>7, Zenon
  <2>. QED BY <2>3, <2>4
<1>6. gs # <<>> /\ SlotOf(gs[1], base) = 1
  <2>1. SlotOf(frames[1], base) = 1
    BY DEF WindowsOf
  <2>. QED BY <1>1, <1>3, <2>1
<1>7. WindowsOf(base, st, gs)
  BY <1>1, <1>5, <1>6 DEF WindowsOf
<1>. QED BY <1>7 DEF gs

-----------------------------------------------------------------------------
(***************************************************************************)
(* What a step does to the order of the upvalues.                          *)
(***************************************************************************)

\* After a push or none: the stack is where it was, or its captures are stale.
StackMoved ==
  /\ base' \in Bases
  /\ stale' = IF base' = base THEN stale ELSE stale \union Range(open)

LEMMA CreatedStays ==
  ASSUME UNCHANGED <<open, upvalues>>
  PROVE  Created' = Created
BY DEF Created

LEMMA CreatedType ==
  ASSUME TypeOK
  PROVE  Created \subseteq Up
<1>1. open \in Seq(Up) /\ upvalues \in [Clo \union {Script} -> Seq(Up)]
  BY DEF TypeOK
<1>. QED BY <1>1 DEF Created, Range

\* A step that neither captures nor closes keeps the order.
LEMMA OrderStays ==
  ASSUME TypeOK, Order, StackMoved, UNCHANGED <<open, loc>>, Created' \subseteq Created,
         \A p : IsCaptured(base, frames, p) => IsCaptured(base', frames', p)
  PROVE  Order'
<1>1. /\ base \in Bases /\ base' \in Bases
      /\ stale' = IF base' = base THEN stale ELSE stale \union Range(open)
  BY DEF TypeOK, StackMoved
<1>2. OpenDescending' /\ OpenAddresses'
  BY DEF Order, OpenDescending, OpenAddresses
<1>3. OpenCaptured'
  <2>1. SUFFICES ASSUME NEW u \in Range(open) \ stale'
                 PROVE  IsCaptured(base', frames', loc[u] - base' + 1)
    BY DEF OpenCaptured, SlotAt
  <2>2. base' = base /\ u \in Range(open) \ stale
    BY <1>1, <2>1
  <2>3. IsCaptured(base, frames, loc[u] - base + 1)
    BY <2>2 DEF Order, OpenCaptured, SlotAt
  <2>. QED BY <2>2, <2>3
<1>4. OpenListed'
  BY <1>1 DEF Order, OpenListed
<1>5. StaleLeft'
  <2>1. OneBase => base' = base
    BY <1>1 DEF OneBase
  <2>. QED BY <1>1, <2>1 DEF Order, StaleLeft, OneBase
<1>. QED BY <1>2, <1>3, <1>4, <1>5 DEF Order

\* A step that closes the upvalues from a on keeps it too.
LEMMA OrderCloses ==
  ASSUME TypeOK, Order, NEW a \in Int, CloseFrom(a), CanCloseFrom(a), StackMoved,
         \A p : IsCaptured(base, frames, p) /\ p < SlotAt(a) => IsCaptured(base', frames', p)
  PROVE  /\ Order' /\ open' \in Seq(Up) /\ IsInjective(open')
         /\ loc' \in [Up -> Int] /\ closed' \in [Up -> Value] /\ upvalues' = upvalues
         /\ \A u : u \in Range(open') <=> u \in Range(open) /\ loc[u] < a
<1>. USE DEF Order
<1>1. /\ base \in Bases /\ base' \in Bases /\ base \in Int
      /\ loc \in [Up -> Int] /\ closed \in [Up -> Value] /\ stack \in Seq(Value)
      /\ open \in Seq(Up) /\ \A u \in Range(open) : u \in Up
      /\ stale' = IF base' = base THEN stale ELSE stale \union Range(open)
  BY NatAssumption DEF TypeOK, StackMoved, Range
<1>2. /\ open' \in Seq(Up) /\ IsInjective(open') /\ OpenDescending'
      /\ \A u : u \in Range(open') <=> u \in Range(open) /\ loc[u] < a
      /\ loc' = [u \in Up |-> IF u \in Range(open) /\ loc[u] >= a THEN Closed ELSE loc[u]]
      /\ closed' = [u \in Up |->
                     IF u \in Range(open) /\ loc[u] >= a THEN Deref(u) ELSE closed[u]]
      /\ upvalues' = upvalues
  BY CloseEffect
<1>3. loc' \in [Up -> Int]
  BY <1>1, <1>2 DEF Closed
<1>4. ASSUME NEW u \in Range(open), loc[u] >= a PROVE Deref(u) \in Value
  <2>1. PICK i \in 1..Len(open) : u = open[i]
    BY <1>1 DEF Range
  <2>2. i \in 1..AtOrAbove(a)
    <3>1. /\ AtOrAbove(a) \in 0..Len(open)
          /\ \A m \in (AtOrAbove(a) + 1)..Len(open) : loc[open[m]] < a
      BY AtOrAboveCuts
    <3>2. loc[open[i]] \in Int /\ loc[open[i]] >= a /\ Len(open) \in Nat
      BY <1>1, <1>4, <2>1
    <3>3. i \notin (AtOrAbove(a) + 1)..Len(open)
      BY <3>1, <3>2
    <3>. QED BY <3>1, <3>2, <3>3
  <2>3. Readable(u)
    BY <2>1, <2>2 DEF CanCloseFrom
  <2>. QED BY <1>1, <2>3 DEF Readable, Deref, InStack
<1>5. closed' \in [Up -> Value]
  BY <1>1, <1>2, <1>4
<1>6. Created' \subseteq Created
  BY <1>2 DEF Created
<1>7. \A u \in Range(open') : loc'[u] = loc[u] /\ u \in Range(open)
  BY <1>1, <1>2
<1>8. OpenAddresses'
  BY <1>7 DEF OpenAddresses
<1>9. OpenCaptured'
  <2>1. SUFFICES ASSUME NEW u \in Range(open') \ stale'
                 PROVE  IsCaptured(base', frames', loc'[u] - base' + 1)
    BY DEF OpenCaptured, SlotAt
  <2>2. base' = base /\ u \in Range(open) \ stale /\ loc'[u] = loc[u] /\ loc[u] < a
    BY <1>1, <1>2, <1>7, <2>1
  <2>3. IsCaptured(base, frames, loc[u] - base + 1)
    BY <2>2 DEF OpenCaptured, SlotAt
  <2>4. loc[u] - base + 1 < SlotAt(a)
    BY <1>1, <2>2 DEF SlotAt
  <2>. QED BY <2>2, <2>3, <2>4
<1>10. OpenListed'
  <2>1. SUFFICES ASSUME NEW u \in Created'
                 PROVE  loc'[u] = Closed \/ u \in Range(open') \/ (u \in stale' /\ Errors)
    BY DEF OpenListed, Closed
  <2>2. u \in Created /\ u \in Up
    BY <1>6, <2>1, CreatedType
  <2>3. loc[u] = Closed \/ u \in Range(open) \/ (u \in stale /\ Errors)
    BY <2>2 DEF OpenListed
  <2>4. ASSUME u \in Range(open) PROVE loc'[u] = Closed \/ u \in Range(open')
    BY <1>1, <1>2, <2>2, <2>4
  <2>5. ASSUME u \notin Range(open) PROVE loc'[u] = loc[u]
    BY <1>2, <2>2, <2>5
  <2>. QED BY <1>1, <2>3, <2>4, <2>5
<1>11. StaleLeft'
  <2>1. OneBase => base' = base
    BY <1>1 DEF OneBase
  <2>. QED BY <1>1, <1>2, <2>1 DEF StaleLeft, OneBase
<1>. QED BY <1>2, <1>3, <1>5, <1>8, <1>9, <1>10, <1>11

\* A step that captures the variable at a keeps it too.
LEMMA OrderCaptures ==
  ASSUME TypeOK, Order, NEW a \in Nat, NEW f \in Clo \union {Script}, CaptureAt(f, a),
         IsCaptured(base, frames, SlotAt(a)), UNCHANGED <<base, stack, frames>>
  PROVE  /\ Order' /\ open' \in Seq(Up) /\ IsInjective(open')
         /\ loc' \in [Up -> Int] /\ closed' \in [Up -> Value]
         /\ upvalues' \in [Clo \union {Script} -> Seq(Up)]
         /\ stale' \in SUBSET Up /\ stale' \subseteq stale
<1>. USE DEF Order
<1>1. /\ loc \in [Up -> Int] /\ closed \in [Up -> Value] /\ stale \in SUBSET Up
      /\ open \in Seq(Up) /\ \A u \in Range(open) : u \in Up
      /\ upvalues \in [Clo \union {Script} -> Seq(Up)]
  BY DEF TypeOK, Range
<1>2. PICK u \in Up :
        /\ upvalues' = [upvalues EXCEPT ![f] = Append(@, u)] /\ loc'[u] = a
        /\ open' \in Seq(Up) /\ IsInjective(open') /\ OpenDescending'
        /\ \A w : w \in Range(open') <=> w \in Range(open) \/ w = u
        /\ \/ u \in Range(open) /\ UNCHANGED <<open, loc, closed, stale>>
           \/ /\ u \notin Created /\ \A w \in Range(open) : loc[w] # a
              /\ loc' = [loc EXCEPT ![u] = a]
              /\ closed' = [closed EXCEPT ![u] = Script]
              /\ stale' = stale \ {u}
  BY CaptureEffect
<1>3. /\ loc' \in [Up -> Int] /\ closed' \in [Up -> Value] /\ stale' \in SUBSET Up
      /\ stale' \subseteq stale
      /\ \A w \in Up : w # u => loc'[w] = loc[w] /\ (w \in stale' <=> w \in stale)
  <2>1. CASE UNCHANGED <<loc, closed, stale>>
    BY <1>1, <2>1
  <2>2. CASE /\ loc' = [loc EXCEPT ![u] = a]
             /\ closed' = [closed EXCEPT ![u] = Script]
             /\ stale' = stale \ {u}
    <3>1. a \in Int /\ Script \in Value
      BY DEF Value
    <3>. QED BY <1>1, <2>2, <3>1
  <2>. QED BY <1>2, <2>1, <2>2
<1>4. upvalues' \in [Clo \union {Script} -> Seq(Up)]
  BY <1>1, <1>2
<1>5. u \in Range(open) \/ (u \notin Range(open) /\ u \notin stale')
  BY <1>2 DEF Created
<1>6. \A w \in Created' : w \in Created \/ w = u
  <2>1. ASSUME NEW g \in DOMAIN upvalues', NEW w \in Range(upvalues'[g])
        PROVE  w \in Created \/ w = u
    <3>1. g \in DOMAIN upvalues /\ upvalues[g] \in Seq(Up)
      BY <1>1, <1>2
    <3>2. CASE upvalues'[g] = upvalues[g]
      BY <2>1, <3>1, <3>2 DEF Created
    <3>3. CASE g = f /\ upvalues'[g] = Append(upvalues[g], u)
      BY <2>1, <3>1, <3>3 DEF Created, Range
    <3>. QED BY <1>1, <1>2, <3>2, <3>3
  <2>2. ASSUME NEW w \in Range(open') PROVE w \in Created \/ w = u
    BY <1>2 DEF Created
  <2>. QED BY <2>1, <2>2 DEF Created
<1>7. OpenAddresses'
  BY <1>1, <1>2, <1>3 DEF OpenAddresses
<1>8. OpenCaptured'
  <2>1. SUFFICES ASSUME NEW w \in Range(open') \ stale'
                 PROVE  IsCaptured(base, frames, loc'[w] - base + 1)
    BY DEF OpenCaptured, SlotAt
  <2>2. CASE w = u
    BY <1>2, <2>2 DEF SlotAt
  <2>3. CASE w # u
    <3>1. w \in Range(open) \ stale /\ loc'[w] = loc[w]
      BY <1>1, <1>2, <1>3, <2>1, <2>3
    <3>. QED BY <3>1 DEF OpenCaptured, SlotAt
  <2>. QED BY <2>2, <2>3
<1>9. OpenListed'
  <2>1. SUFFICES ASSUME NEW w \in Created'
                 PROVE  loc'[w] = Closed \/ w \in Range(open') \/ (w \in stale' /\ Errors)
    BY DEF OpenListed, Closed
  <2>2. CASE w = u
    BY <1>2, <2>2
  <2>3. CASE w # u
    <3>1. w \in Created /\ w \in Up
      BY <1>6, <2>1, <2>3, CreatedType
    <3>. QED BY <1>2, <1>3, <2>3, <3>1 DEF OpenListed
  <2>. QED BY <2>2, <2>3
<1>10. StaleLeft'
  BY <1>2, <1>3, <1>5 DEF StaleLeft, OneBase
<1>. QED BY <1>2, <1>3, <1>4, <1>7, <1>8, <1>9, <1>10

-----------------------------------------------------------------------------
(***************************************************************************)
(* The instructions, one by one.                                           *)
(***************************************************************************)

LEMMA BasicFacts ==
  ASSUME IInv
  PROVE  /\ base \in Bases /\ base \in Nat /\ capacity \in Nat
         /\ stack \in Seq(Value) /\ Len(stack) \in Nat /\ Len(stack) <= capacity
         /\ Len(stack) <= MaxStack /\ MaxStack \in Nat
         /\ frames \in Seq(FrameType) /\ Len(frames) \in Nat /\ Len(frames) <= FramesMax
         /\ TypeOK /\ Order /\ WindowsOf(base, stack, frames)
BY NatAssumption DEF IInv, TypeOK

\* The running call.
LEMMA FrameFacts ==
  ASSUME IInv, frames # <<>>
  PROVE  /\ Frame = frames[Len(frames)] /\ Len(frames) \in Nat /\ Len(frames) >= 1
         /\ Frame \in FrameType /\ Frame.closure \in Clo \union {Script} /\ Frame.arity \in Nat
         /\ Frame.slots \in Nat /\ Frame.slots = base + FirstSlot - 1
         /\ FirstSlot = SlotOf(Frame, base) /\ FirstSlot \in 1..Len(stack)
         /\ Frame.locals \in Seq(BOOLEAN) /\ Len(Frame.locals) \in Nat
         /\ Len(Frame.locals) >= 1 /\ Frame.locals[1] = FALSE
         /\ Operands \in Nat /\ Operands = Len(stack) - FirstSlot + 1 - Len(Frame.locals)
         /\ \A k \in 1..Len(frames) :
              /\ SlotOf(frames[k], base) \in 1..FirstSlot
              /\ Len(frames[k].locals) \in Nat
              /\ SlotOf(frames[k], base) + Len(frames[k].locals) <= FirstSlot + Len(Frame.locals)
<1>. DEFINE n == Len(frames)
<1>1. /\ base \in Nat /\ base \in Int /\ stack \in Seq(Value) /\ Len(stack) \in Nat
      /\ frames \in Seq(FrameType) /\ WindowsOf(base, stack, frames)
  BY BasicFacts
<1>2. n \in Nat /\ n >= 1 /\ n \in 1..n /\ Frame = frames[n]
  BY <1>1 DEF Frame
<1>3. /\ Frame \in FrameType /\ Frame.closure \in Clo \union {Script} /\ Frame.slots \in Int
      /\ Frame.locals \in Seq(BOOLEAN) /\ Len(Frame.locals) \in Nat /\ Frame.arity \in Nat
  BY <1>1, <1>2, FrameFields, NatAssumption
<1>4. /\ FirstSlot = SlotOf(Frame, base) /\ FirstSlot \in Int
      /\ Frame.slots = base + FirstSlot - 1
  BY <1>1, <1>3 DEF FirstSlot, SlotAt, SlotOf
<1>5. /\ SlotOf(frames[n], base) >= 1 /\ Len(frames[n].locals) >= 1 /\ frames[n].locals[1] = FALSE
      /\ SlotOf(frames[n], base) + Len(frames[n].locals) - 1 <= Len(stack)
  BY <1>1, <1>2 DEF WindowsOf
<1>6. /\ FirstSlot >= 1 /\ Len(Frame.locals) >= 1 /\ Frame.locals[1] = FALSE
      /\ FirstSlot + Len(Frame.locals) - 1 <= Len(stack)
  BY <1>2, <1>4, <1>5
<1>7. ASSUME NEW k \in 1..n
      PROVE  /\ SlotOf(frames[k], base) \in 1..FirstSlot
             /\ Len(frames[k].locals) \in Nat
             /\ SlotOf(frames[k], base) + Len(frames[k].locals) <= FirstSlot + Len(Frame.locals)
  BY <1>1, <1>2, <1>4, WindowsBelow
<1>8. /\ Frame.slots \in Nat /\ FirstSlot \in 1..Len(stack)
      /\ Operands \in Nat /\ Operands = Len(stack) - FirstSlot + 1 - Len(Frame.locals)
  <2>1. Operands = Len(stack) - FirstSlot + 1 - Len(Frame.locals)
    BY DEF Operands
  <2>2. Frame.slots \in Nat
    BY <1>1, <1>3, <1>4, <1>6
  <2>3. Len(stack) \in Int /\ Len(Frame.locals) \in Int /\ FirstSlot \in Int
    BY <1>1, <1>3, <1>4
  <2>4. FirstSlot \in 1..Len(stack)
    BY <1>6, <2>3
  <2>5. Operands \in Nat
    BY <1>6, <2>1, <2>3
  <2>. QED BY <2>1, <2>2, <2>4, <2>5
<1>. QED BY <1>2, <1>3, <1>4, <1>6, <1>7, <1>8, Zenon

LEMMA SlotOfLocal ==
  ASSUME IInv, frames # <<>>, NEW i \in 1..Len(Frame.locals)
  PROVE  FirstSlot + i - 1 \in 1..Len(stack) /\ FirstSlot + i - 1 \in FirstSlot..Len(stack)
<1>1. /\ FirstSlot \in 1..Len(stack) /\ Len(Frame.locals) \in Nat /\ Operands \in Nat
      /\ Operands = Len(stack) - FirstSlot + 1 - Len(Frame.locals)
  BY FrameFacts
<1>2. Len(stack) \in Nat
  BY BasicFacts
<1>. QED BY <1>1, <1>2

\* What stays when the upvalues do.
LEMMA StackMovedType ==
  ASSUME TypeOK, StackMoved
  PROVE  base' \in Bases /\ stale' \in SUBSET Up /\ stale \subseteq stale'
BY DEF TypeOK, StackMoved, Range

\* A stack that keeps the windows, and the frames as they are: an operand is
\* pushed or popped, a variable assigned.
LEMMA StackStep ==
  ASSUME IInv, frames # <<>>, NEW st \in Seq(Value),
         FirstSlot + Len(Frame.locals) - 1 <= Len(st),
         \A k \in 1..Len(frames) : st[SlotOf(frames[k], base)] = stack[SlotOf(frames[k], base)]
  PROVE  WindowsOf(base, st, frames)
<1>1. Len(st) \in Nat
  OBVIOUS
<1>2. ASSUME NEW k \in 1..Len(frames)
      PROVE  SlotOf(frames[k], base) + Len(frames[k].locals) - 1 <= Len(st)
  <2>1. /\ SlotOf(frames[k], base) \in 1..FirstSlot /\ FirstSlot \in 1..Len(stack)
        /\ Len(frames[k].locals) \in Nat /\ Len(Frame.locals) \in Nat
        /\ SlotOf(frames[k], base) + Len(frames[k].locals) <= FirstSlot + Len(Frame.locals)
    BY FrameFacts
  <2>. QED BY <1>1, <2>1
<1>. QED BY <1>2, BasicFacts, WindowsKept

LEMMA PushStep ==
  ASSUME IInv, Running, NEW v \in Value, Push(Len(stack), frames, v),
         UNCHANGED <<upVars, todo, glob, fault>>
  PROVE  IInv'
<1>. USE DEF upVars
<1>1. frames # <<>> /\ todo = 0 /\ TypeOK /\ Order
  BY DEF Running, IInv
<1>2. Len(stack) \in 0..Len(stack)
  BY BasicFacts
<1>3. /\ stack' \in Seq(Value) /\ Len(stack') = Len(stack) + 1
      /\ \A i \in 1..Len(stack) : stack'[i] = stack[i]
      /\ base' \in Bases /\ capacity' \in Nat
      /\ Len(stack') <= capacity' /\ Len(stack') <= MaxStack
      /\ frames' \in Seq(FrameType) /\ SameCalls(base, frames, base', frames')
      /\ stale' = IF base' = base THEN stale ELSE stale \union Range(open)
  BY <1>1, <1>2, BasicFacts, PushEffect
<1>4. StackMoved
  BY <1>3 DEF StackMoved
<1>5. WindowsOf(base, stack', frames)
  <2>1. FirstSlot + Len(Frame.locals) - 1 <= Len(stack')
    BY <1>1, <1>3, FrameFacts
  <2>2. \A k \in 1..Len(frames) :
          stack'[SlotOf(frames[k], base)] = stack[SlotOf(frames[k], base)]
    <3>1. \A k \in 1..Len(frames) : SlotOf(frames[k], base) \in 1..FirstSlot
      BY <1>1, FrameFacts
    <3>2. FirstSlot \in 1..Len(stack) /\ Len(stack) \in Nat
      BY <1>1, BasicFacts, FrameFacts
    <3>3. \A k \in 1..Len(frames) : SlotOf(frames[k], base) \in 1..Len(stack)
      BY <3>1, <3>2
    <3>. QED BY <1>3, <3>3
  <2>. QED BY <1>1, <1>3, <2>1, <2>2, StackStep
<1>6. WindowsOf(base', stack', frames')
  BY <1>3, <1>5, BasicFacts, WindowsMove
<1>7. Order'
  <2>1. \A p : IsCaptured(base, frames, p) => IsCaptured(base', frames', p)
    BY <1>3, CapturedMove
  <2>2. Created' \subseteq Created
    BY CreatedStays
  <2>. QED BY <1>1, <1>4, <2>1, <2>2, OrderStays
<1>8. Len(frames') = Len(frames)
  BY <1>3 DEF SameCalls
<1>9. TypeOK'
  BY <1>1, <1>3, <1>4, <1>8, StackMovedType DEF TypeOK
<1>10. CapturesPending' /\ FaultNeedsStale'
  BY <1>1, <1>4, StackMovedType DEF CapturesPending, FaultNeedsStale, IInv
<1>. QED BY <1>3, <1>6, <1>7, <1>9, <1>10 DEF IInv

\* A step that leaves the stack where it is, the open list, and what is captured.
LEMMA InPlaceStep ==
  ASSUME IInv, UNCHANGED <<base, capacity, stale, open, loc, upvalues, fault>>,
         todo' = 0, stack' \in Seq(Value), Len(stack') <= Len(stack),
         frames' \in Seq(FrameType), Len(frames') <= FramesMax,
         closed' \in [Up -> Value], glob' \in Value,
         WindowsOf(base, stack', frames'),
         \A u \in Range(open) \ stale :
           IsCaptured(base, frames, SlotAt(loc[u])) => IsCaptured(base, frames', SlotAt(loc[u]))
  PROVE  IInv'
<1>1. TypeOK' /\ Len(stack') <= MaxStack
  <2>1. Len(stack') \in Nat
    OBVIOUS
  <2>2. 0 \in 0..MaxCaptures
    BY NatAssumption
  <2>. QED BY <2>1, <2>2, BasicFacts DEF TypeOK
<1>2. Order'
  <2>1. /\ OpenDescending' /\ OpenAddresses' /\ Created' = Created
    BY BasicFacts DEF Order, OpenDescending, OpenAddresses, Created
  <2>2. OpenCaptured'
    BY BasicFacts DEF Order, OpenCaptured, SlotAt
  <2>. QED BY <2>1, <2>2, BasicFacts DEF Order, OpenListed, StaleLeft, OneBase
<1>3. CapturesPending' /\ FaultNeedsStale'
  BY DEF CapturesPending, FaultNeedsStale, IInv
<1>. QED BY <1>1, <1>2, <1>3 DEF IInv

\* A variable of the running call, or one that an upvalue stands for, is assigned.
LEMMA AssignStep ==
  ASSUME IInv, Running, Operands > 0, NEW p \in 1..Len(stack),
         \A k \in 1..Len(frames) : SlotOf(frames[k], base) # p,
         stack' = [stack EXCEPT ![p] = Top],
         UNCHANGED <<base, capacity, stale, frames, upVars, todo, glob, fault>>
  PROVE  IInv'
<1>. USE DEF upVars
<1>1. frames # <<>> /\ todo = 0
  BY DEF Running
<1>2. Top \in Value
  BY BasicFacts DEF Top
<1>3. /\ stack' \in Seq(Value) /\ Len(stack') = Len(stack)
      /\ \A i \in 1..Len(stack) : i # p => stack'[i] = stack[i]
  BY <1>2, BasicFacts
<1>4. WindowsOf(base, stack', frames)
  <2>1. FirstSlot + Len(Frame.locals) - 1 <= Len(stack')
    BY <1>1, <1>3, FrameFacts
  <2>2. \A k \in 1..Len(frames) :
          stack'[SlotOf(frames[k], base)] = stack[SlotOf(frames[k], base)]
    <3>1. \A k \in 1..Len(frames) : SlotOf(frames[k], base) \in 1..FirstSlot
      BY <1>1, FrameFacts
    <3>2. FirstSlot \in 1..Len(stack) /\ Len(stack) \in Nat
      BY <1>1, BasicFacts, FrameFacts
    <3>3. \A k \in 1..Len(frames) : SlotOf(frames[k], base) \in 1..Len(stack)
      BY <3>1, <3>2
    <3>. QED BY <1>3, <3>3
  <2>. QED BY <1>1, <1>3, <2>1, <2>2, StackStep
<1>5. closed' \in [Up -> Value] /\ glob' \in Value
  BY BasicFacts DEF TypeOK
<1>. QED BY <1>1, <1>3, <1>4, <1>5, BasicFacts, InPlaceStep

\* An upvalue that the stack has not left behind can be read.
LEMMA ReadableUnlessStale ==
  ASSUME IInv, NEW u \in Created, u \notin stale
  PROVE  /\ Readable(u)
         /\ loc[u] # Closed =>
              /\ u \in Range(open) /\ InStack(loc[u])
              /\ \A k \in 1..Len(frames) : SlotOf(frames[k], base) # SlotAt(loc[u])
<1>1. loc[u] = Closed \/ u \in Range(open)
  BY BasicFacts DEF Order, OpenListed
<1>2. ASSUME loc[u] # Closed
      PROVE  /\ SlotAt(loc[u]) \in 2..Len(stack)
             /\ \A k \in 1..Len(frames) : SlotOf(frames[k], base) # SlotAt(loc[u])
  <2>1. IsCaptured(base, frames, SlotAt(loc[u]))
    BY <1>1, <1>2, BasicFacts DEF Order, OpenCaptured
  <2>2. base \in Int
    BY BasicFacts
  <2>. QED BY <2>1, <2>2, BasicFacts, CapturedIsVariable
<1>3. loc[u] # Closed => InStack(loc[u])
  BY <1>2, BasicFacts DEF InStack
<1>. QED BY <1>1, <1>2, <1>3 DEF Readable

\* The upvalues of the running closure exist.
LEMMA UpvalueOfFrame ==
  ASSUME IInv, frames # <<>>, NEW k \in DOMAIN upvalues[Frame.closure]
  PROVE  /\ upvalues[Frame.closure][k] \in Created
         /\ upvalues[Frame.closure][k] \in Up
<1>1. Frame.closure \in DOMAIN upvalues
  BY BasicFacts, FrameFacts DEF TypeOK
<1>2. upvalues[Frame.closure][k] \in Created
  BY <1>1 DEF Created, Range
<1>. QED BY <1>2, CreatedType, BasicFacts

\* The value that an upvalue stands for.
LEMMA DerefType ==
  ASSUME IInv, NEW u \in Up, Readable(u)
  PROVE  Deref(u) \in Value
BY BasicFacts DEF TypeOK, Readable, Deref, InStack

LEMMA FaultStep ==
  ASSUME IInv, Fault, NEW u \in Created, ~Readable(u)
  PROVE  IInv'
<1>. USE DEF Fault, stackVars, upVars
<1>1. stale # {}
  BY ReadableUnlessStale
<1>2. TypeOK' /\ Len(stack') <= MaxStack
  BY BasicFacts DEF TypeOK
<1>3. WindowsOf(base', stack', frames')
  BY BasicFacts
<1>4. Order'
  BY BasicFacts DEF Order, OpenDescending, OpenAddresses, OpenCaptured, SlotAt, OpenListed,
     Created, StaleLeft, OneBase
<1>5. CapturesPending' /\ FaultNeedsStale'
  BY <1>1 DEF IInv, CapturesPending, Top, FaultNeedsStale
<1>. QED BY <1>2, <1>3, <1>4, <1>5 DEF IInv

LEMMA InterpretStep ==
  ASSUME IInv, Interpret
  PROVE  IInv'
<1>. USE DEF upVars
<1>. DEFINE fr == [closure |-> Script, slots |-> base, arity |-> 0, locals |-> <<FALSE>>]
            fs == <<fr>>
<1>1. /\ frames = <<>> /\ todo = 0 /\ Push(0, fs, Script)
      /\ UNCHANGED <<upVars, todo, glob, fault>>
  BY BasicFacts DEF Interpret, IInv, CapturesPending, TypeOK
<1>2. fr \in FrameType
  <2>1. <<FALSE>> \in Seq(BOOLEAN) /\ Len(<<FALSE>>) = 1 /\ 1 <= MaxStack
    BY NatAssumption
  <2>2. <<FALSE>> \in UNION {[1..n -> BOOLEAN] : n \in 0..MaxStack}
    BY <2>1, LocalsType
  <2>3. base \in Int /\ 0 \in 0..MaxArity /\ Script \in Clo \union {Script}
    BY BasicFacts, NatAssumption
  <2>. QED BY <2>2, <2>3 DEF FrameType
<1>3. /\ fr.closure = Script /\ fr.slots = base /\ fr.locals[1] = FALSE /\ Len(fr.locals) = 1
  OBVIOUS
<1>. HIDE DEF fr
<1>4. fs \in Seq(FrameType) /\ Len(fs) = 1 /\ fs[1] = fr /\ fs # <<>>
  BY <1>2
<1>5. 0 \in 0..Len(stack) /\ Script \in Value
  BY BasicFacts DEF Value
<1>. HIDE DEF fs
<1>6. /\ stack' \in Seq(Value) /\ Len(stack') = 0 + 1 /\ stack'[0 + 1] = Script
      /\ base' \in Bases /\ capacity' \in Nat
      /\ Len(stack') <= capacity' /\ Len(stack') <= MaxStack
      /\ frames' \in Seq(FrameType) /\ SameCalls(base, fs, base', frames')
      /\ stale' = IF base' = base THEN stale ELSE stale \union Range(open)
  BY <1>1, <1>4, <1>5, BasicFacts, PushEffect
<1>7. WindowsOf(base, stack', fs)
  <2>1. SlotOf(fs[1], base) = 1 /\ \A k \in 1..Len(fs) : k = 1
    BY <1>3, <1>4, BasicFacts DEF SlotOf
  <2>2. /\ SlotOf(fs[1], base) >= 1
        /\ Len(fs[1].locals) >= 1 /\ fs[1].locals[1] = FALSE
        /\ SlotOf(fs[1], base) + Len(fs[1].locals) - 1 <= Len(stack')
        /\ stack'[SlotOf(fs[1], base)] = fs[1].closure
    <3>1. /\ fs[1].locals[1] = FALSE /\ Len(fs[1].locals) = 1 /\ fs[1].closure = Script
      BY <1>3, <1>4, Zenon
    <3>2. Len(stack') = 1 /\ stack'[1] = Script
      BY <1>6
    <3>. QED BY <2>1, <3>1, <3>2
  <2>3. \A j \in 1..(1 - 1) : FALSE
    OBVIOUS
  <2>. QED BY <1>4, <2>1, <2>2, <2>3 DEF WindowsOf
<1>8. WindowsOf(base', stack', frames')
  BY <1>4, <1>6, <1>7, WindowsMove
<1>9. StackMoved
  BY <1>6 DEF StackMoved
<1>10. Order'
  <2>1. \A p : ~IsCaptured(base, frames, p)
    BY <1>1 DEF IsCaptured
  <2>2. Created' \subseteq Created
    BY <1>1, CreatedStays
  <2>. QED BY <1>1, <1>9, <2>1, <2>2, BasicFacts, OrderStays
<1>11. TypeOK'
  <2>1. Len(frames') = 1 /\ 1 <= FramesMax
    BY <1>4, <1>6, NatAssumption DEF SameCalls
  <2>. QED BY <1>1, <1>6, <1>9, <2>1, BasicFacts, StackMovedType DEF TypeOK
<1>12. CapturesPending' /\ FaultNeedsStale'
  BY <1>1, <1>9, BasicFacts, StackMovedType DEF CapturesPending, FaultNeedsStale, IInv
<1>. QED BY <1>6, <1>8, <1>10, <1>11, <1>12 DEF IInv

LEMMA ReadStep ==
  ASSUME IInv,
         \/ \E v \in Val : Constant(v)
         \/ \E i \in 1..MaxStack : GetLocal(i)
         \/ \E k \in 1..MaxCaptures : GetUpvalue(k)
         \/ GetGlobal
  PROVE  IInv'
<1>1. ASSUME NEW v \in Val, Constant(v) PROVE IInv'
  BY <1>1, PushStep DEF Constant, Value
<1>2. ASSUME NEW i \in 1..MaxStack, GetLocal(i) PROVE IInv'
  <2>1. frames # <<>> /\ i \in 2..Len(Frame.locals)
    BY <1>2 DEF GetLocal, Running
  <2>2. FirstSlot + i - 1 \in 1..Len(stack)
    <3>1. i \in 1..Len(Frame.locals)
      BY <2>1
    <3>. QED BY <2>1, <3>1, SlotOfLocal
  <2>3. stack[FirstSlot + i - 1] \in Value
    BY <2>2, BasicFacts
  <2>. QED BY <1>2, <2>3, PushStep DEF GetLocal
<1>3. ASSUME NEW k \in 1..MaxCaptures, GetUpvalue(k) PROVE IInv'
  <2>. DEFINE u == upvalues[Frame.closure][k]
  <2>1. Running /\ frames # <<>> /\ k \in DOMAIN upvalues[Frame.closure]
    BY <1>3 DEF GetUpvalue, Running
  <2>2. u \in Created /\ u \in Up
    BY <2>1, UpvalueOfFrame
  <2>3. CASE Readable(u)
    BY <1>3, <2>1, <2>2, <2>3, DerefType, PushStep DEF GetUpvalue
  <2>4. CASE ~Readable(u)
    BY <1>3, <2>2, <2>4, FaultStep DEF GetUpvalue
  <2>. QED BY <2>3, <2>4
<1>4. ASSUME GetGlobal PROVE IInv'
  BY <1>4, BasicFacts, PushStep DEF GetGlobal, TypeOK
<1>. QED BY <1>1, <1>2, <1>3, <1>4

LEMMA AssignmentStep ==
  ASSUME IInv,
         \/ \E i \in 1..MaxStack : SetLocal(i)
         \/ \E k \in 1..MaxCaptures : SetUpvalue(k)
         \/ SetGlobal
  PROVE  IInv'
<1>1. ASSUME NEW i \in 1..MaxStack, SetLocal(i) PROVE IInv'
  <2>1. Running /\ frames # <<>> /\ Operands > 0 /\ i \in 2..Len(Frame.locals)
    BY <1>1 DEF SetLocal, Running
  <2>2. FirstSlot + i - 1 \in 1..Len(stack)
    <3>1. i \in 1..Len(Frame.locals)
      BY <2>1
    <3>. QED BY <2>1, <3>1, SlotOfLocal
  <2>3. \A k \in 1..Len(frames) : SlotOf(frames[k], base) # FirstSlot + i - 1
    <3>1. Len(frames) \in 1..Len(frames) /\ base \in Int
      BY <2>1, BasicFacts, FrameFacts
    <3>2. FirstSlot = SlotOf(frames[Len(frames)], base) /\ Frame = frames[Len(frames)]
      BY <2>1, FrameFacts
    <3>. QED BY <2>1, <3>1, <3>2, BasicFacts, VariableIsNoClosure
  <2>. QED BY <1>1, <2>1, <2>2, <2>3, AssignStep DEF SetLocal
<1>2. ASSUME NEW k \in 1..MaxCaptures, SetUpvalue(k) PROVE IInv'
  <2>. DEFINE u == upvalues[Frame.closure][k]
  <2>1. Running /\ frames # <<>> /\ todo = 0 /\ Operands > 0 /\ k \in DOMAIN upvalues[Frame.closure]
    BY <1>2 DEF SetUpvalue, Running
  <2>2. u \in Created /\ u \in Up
    BY <2>1, UpvalueOfFrame
  <2>3. CASE /\ loc[u] = Closed
             /\ closed' = [closed EXCEPT ![u] = Top]
             /\ UNCHANGED <<stackVars, open, loc, upvalues, todo, glob, fault>>
    <3>1. Top \in Value
      BY <2>1, BasicFacts, FrameFacts DEF Top
    <3>2. closed' \in [Up -> Value] /\ glob' \in Value
      BY <2>3, <3>1, BasicFacts DEF TypeOK
    <3>. QED BY <2>1, <2>3, <3>2, BasicFacts, InPlaceStep DEF stackVars
  <2>4. CASE /\ loc[u] # Closed /\ Readable(u)
             /\ stack' = [stack EXCEPT ![SlotAt(loc[u])] = Top]
             /\ UNCHANGED <<base, capacity, stale, frames, upVars, todo, glob, fault>>
    <3>1. u \notin stale /\ SlotAt(loc[u]) \in 1..Len(stack)
      BY <2>4 DEF Readable, InStack
    <3>2. \A j \in 1..Len(frames) : SlotOf(frames[j], base) # SlotAt(loc[u])
      BY <2>2, <2>4, <3>1, ReadableUnlessStale
    <3>. QED BY <2>1, <2>4, <3>1, <3>2, AssignStep
  <2>5. CASE ~Readable(u) /\ Fault
    BY <2>2, <2>5, FaultStep
  <2>. QED BY <1>2, <2>3, <2>4, <2>5 DEF SetUpvalue
<1>3. ASSUME SetGlobal PROVE IInv'
  <2>1. frames # <<>> /\ todo = 0
    BY <1>3 DEF SetGlobal, Running
  <2>2. Top \in Value
    BY <2>1, BasicFacts, FrameFacts DEF Top
  <2>3. closed' \in [Up -> Value] /\ glob' \in Value
    BY <1>3, <2>2, BasicFacts DEF SetGlobal, upVars, TypeOK
  <2>. QED BY <1>3, <2>1, <2>3, BasicFacts, InPlaceStep DEF SetGlobal, stackVars, upVars
<1>. QED BY <1>1, <1>2, <1>3

\* What the calls have captured stays so when the variables of the running call
\* become ls, if it keeps the captured ones.
LEMMA CapturedWithLocals ==
  ASSUME IInv, frames # <<>>, NEW ls \in Seq(BOOLEAN), Len(ls) <= MaxStack,
         NEW p, IsCaptured(base, frames, p),
         \A i \in 1..Len(Frame.locals) :
           p = FirstSlot + i - 1 /\ Frame.locals[i] = TRUE => i \in 1..Len(ls) /\ ls[i] = TRUE
  PROVE  IsCaptured(base, WithLocals(ls), p)
<1>. DEFINE gs == WithLocals(ls)
            n == Len(frames)
<1>1. /\ Len(gs) = n /\ n \in Nat /\ n >= 1
      /\ \A k \in 1..(n - 1) : gs[k] = frames[k]
      /\ gs[n].slots = frames[n].slots /\ gs[n].locals = ls
  BY BasicFacts, WithLocalsEffect
<1>2. Frame = frames[n] /\ FirstSlot = SlotOf(frames[n], base)
  BY FrameFacts
<1>. HIDE DEF gs
<1>3. PICK k \in 1..n : \E i \in 1..Len(frames[k].locals) :
        p = SlotOf(frames[k], base) + i - 1 /\ frames[k].locals[i] = TRUE
  BY DEF IsCaptured
<1>4. PICK i \in 1..Len(frames[k].locals) :
        p = SlotOf(frames[k], base) + i - 1 /\ frames[k].locals[i] = TRUE
  BY <1>3
<1>5. CASE k = n
  <2>1. i \in 1..Len(ls) /\ ls[i] = TRUE
    BY <1>2, <1>4, <1>5
  <2>2. SlotOf(gs[n], base) = SlotOf(frames[n], base) /\ n \in 1..Len(gs)
    BY <1>1 DEF SlotOf
  <2>3. p = SlotOf(gs[n], base) + i - 1 /\ gs[n].locals[i] = TRUE /\ i \in 1..Len(gs[n].locals)
    BY <1>1, <1>4, <1>5, <2>1, <2>2
  <2>4. IsCaptured(base, gs, p)
    BY <2>2, <2>3 DEF IsCaptured
  <2>. QED BY <2>4 DEF gs
<1>6. CASE k # n
  <2>1. gs[k] = frames[k] /\ k \in 1..Len(gs)
    BY <1>1, <1>6
  <2>2. IsCaptured(base, gs, p)
    BY <1>4, <2>1 DEF IsCaptured
  <2>. QED BY <2>2 DEF gs
<1>. QED BY <1>5, <1>6

LEMMA DeclareStep ==
  ASSUME IInv, NEW captured \in BOOLEAN, DeclareLocal(captured)
  PROVE  IInv'
<1>. DEFINE ls == Append(Frame.locals, captured)
<1>1. /\ frames # <<>> /\ todo = 0 /\ Operands = 1 /\ frames' = WithLocals(ls)
      /\ UNCHANGED <<base, capacity, stale, stack, upVars, todo, glob, fault>>
  BY DEF DeclareLocal, Running
<1>2. /\ FirstSlot \in 1..Len(stack) /\ Frame.locals \in Seq(BOOLEAN) /\ Len(Frame.locals) \in Nat
      /\ Len(Frame.locals) >= 1 /\ Frame.locals[1] = FALSE
      /\ Operands = Len(stack) - FirstSlot + 1 - Len(Frame.locals)
  BY <1>1, FrameFacts
<1>3. /\ ls \in Seq(BOOLEAN) /\ Len(ls) = Len(Frame.locals) + 1
      /\ \A i \in 1..Len(Frame.locals) : ls[i] = Frame.locals[i]
  BY <1>2
<1>. HIDE DEF ls
<1>4. ls[1] = FALSE
  <2>1. 1 \in 1..Len(Frame.locals)
    BY <1>2
  <2>. QED BY <1>2, <1>3, <2>1, Zenon
<1>5. Len(ls) >= 1 /\ Len(ls) <= MaxStack /\ FirstSlot + Len(ls) - 1 <= Len(stack)
  BY <1>1, <1>2, <1>3, BasicFacts
<1>6. WindowsOf(base, stack, WithLocals(ls))
  <2>1. base \in Int /\ \A i \in 1..FirstSlot : stack[i] = stack[i]
    BY BasicFacts
  <2>. QED BY <1>1, <1>3, <1>4, <1>5, <2>1, BasicFacts, WindowsWithLocals
<1>7. frames' \in Seq(FrameType) /\ Len(frames') = Len(frames)
  BY <1>1, <1>3, <1>5, BasicFacts, WithLocalsEffect
<1>8. ASSUME NEW p, IsCaptured(base, frames, p) PROVE IsCaptured(base, frames', p)
  <2>1. \A i \in 1..Len(Frame.locals) :
          Frame.locals[i] = TRUE => i \in 1..Len(ls) /\ ls[i] = TRUE
    BY <1>2, <1>3
  <2>. QED BY <1>1, <1>3, <1>5, <1>8, <2>1, CapturedWithLocals
<1>9. closed' \in [Up -> Value] /\ glob' \in Value
  BY <1>1, BasicFacts DEF TypeOK, upVars
<1>. QED BY <1>1, <1>6, <1>7, <1>8, <1>9, BasicFacts, InPlaceStep DEF upVars

\* pop, where the running call has an operand or a variable on top of its closure.
LEMMA PopEffect ==
  ASSUME IInv, frames # <<>>, Pop
  PROVE  /\ stack' \in Seq(Value) /\ Len(stack') = Len(stack) - 1 /\ Len(stack) >= 1
         /\ \A i \in 1..(Len(stack) - 1) : stack'[i] = stack[i]
<1>1. Len(stack) >= 1 /\ stack \in Seq(Value) /\ Len(stack) \in Nat
  BY BasicFacts, FrameFacts
<1>2. Len(stack) - 1 \in 0..Len(stack)
  BY <1>1
<1>. QED BY <1>1, <1>2, PrefixIs DEF Pop

LEMMA PopStep ==
  ASSUME IInv, PopOperand
  PROVE  IInv'
<1>1. /\ frames # <<>> /\ todo = 0 /\ Operands > 0 /\ Pop
      /\ UNCHANGED <<base, capacity, stale, frames, upVars, todo, glob, fault>>
  BY DEF PopOperand, Running
<1>2. /\ stack' \in Seq(Value) /\ Len(stack') = Len(stack) - 1 /\ Len(stack) >= 1
      /\ \A i \in 1..(Len(stack) - 1) : stack'[i] = stack[i]
  BY <1>1, PopEffect
<1>3. /\ FirstSlot \in 1..(Len(stack) - 1) /\ FirstSlot + Len(Frame.locals) - 1 <= Len(stack')
  <2>. DEFINE n == Len(stack)
              m == Len(Frame.locals)
  <2>1. n \in Int
    BY BasicFacts
  <2>2. m \in Int /\ m >= 1 /\ FirstSlot \in 1..n /\ Operands = n - FirstSlot + 1 - m
    BY <1>1, FrameFacts
  <2>3. Len(stack') = n - 1
    BY <1>2
  <2>4. Operands > 0
    BY <1>1
  <2>. HIDE DEF n, m
  <2>5. FirstSlot + m - 1 <= n - 1 /\ FirstSlot \in 1..(n - 1)
    BY <2>1, <2>2, <2>4
  <2>. QED BY <2>3, <2>5 DEF n, m
<1>4. \A k \in 1..Len(frames) :
        stack'[SlotOf(frames[k], base)] = stack[SlotOf(frames[k], base)]
  <2>1. \A k \in 1..Len(frames) : SlotOf(frames[k], base) \in 1..FirstSlot
    BY <1>1, FrameFacts
  <2>2. \A i \in 1..FirstSlot : i \in 1..(Len(stack) - 1)
    BY <1>2, <1>3, BasicFacts
  <2>. QED BY <1>2, <2>1, <2>2
<1>5. WindowsOf(base, stack', frames)
  BY <1>1, <1>2, <1>3, <1>4, StackStep
<1>6. closed' \in [Up -> Value] /\ glob' \in Value /\ Len(stack') <= Len(stack)
  BY <1>1, <1>2, BasicFacts DEF TypeOK, upVars
<1>. QED BY <1>1, <1>2, <1>5, <1>6, BasicFacts, InPlaceStep DEF upVars

\* The last variable of a block leaves.
LEMMA EndScopeStep ==
  ASSUME IInv, EndScope
  PROVE  IInv'
<1>. DEFINE m == Len(Frame.locals)
            ls == SubSeq(Frame.locals, 1, m - 1)
            address == base + Len(stack) - 1
<1>1. /\ frames # <<>> /\ todo = 0 /\ Operands = 0 /\ m > 1 + Frame.arity
  BY DEF EndScope, Running
<1>2. /\ FirstSlot \in 1..Len(stack) /\ Frame.locals \in Seq(BOOLEAN) /\ m \in Nat
      /\ m >= 1 /\ Frame.locals[1] = FALSE
      /\ Operands = Len(stack) - FirstSlot + 1 - m
      /\ Frame.arity \in Nat /\ base \in Nat /\ Len(stack) \in Nat
      /\ Len(stack) <= MaxStack /\ MaxStack \in Nat
  <2>1. /\ FirstSlot \in 1..Len(stack) /\ Frame.locals \in Seq(BOOLEAN) /\ m \in Nat
        /\ m >= 1 /\ Frame.locals[1] = FALSE
        /\ Operands = Len(stack) - FirstSlot + 1 - m /\ Frame.arity \in Nat
    BY <1>1, FrameFacts
  <2>2. base \in Nat /\ Len(stack) \in Nat /\ Len(stack) <= MaxStack /\ MaxStack \in Nat
    BY BasicFacts
  <2>. QED BY <2>1, <2>2, Zenon
<1>3. m >= 2 /\ m - 1 \in 0..m /\ FirstSlot + m - 1 = Len(stack)
  BY <1>1, <1>2
<1>4. /\ ls \in Seq(BOOLEAN) /\ Len(ls) = m - 1
      /\ \A i \in 1..(m - 1) : ls[i] = Frame.locals[i]
  BY <1>2, <1>3, PrefixIs
<1>. HIDE DEF ls
<1>5. ls[1] = FALSE
  <2>1. 1 \in 1..(m - 1)
    BY <1>3
  <2>. QED BY <1>2, <1>4, <2>1, Zenon
<1>6. /\ Len(ls) >= 1 /\ Len(ls) <= MaxStack /\ FirstSlot + Len(ls) - 1 = Len(stack) - 1
  BY <1>2, <1>3, <1>4
<1>7. ASSUME Pop, frames' = WithLocals(ls)
      PROVE  /\ stack' \in Seq(Value) /\ Len(stack') = Len(stack) - 1
             /\ frames' \in Seq(FrameType) /\ Len(frames') = Len(frames)
             /\ WindowsOf(base, stack', frames')
  <2>1. /\ stack' \in Seq(Value) /\ Len(stack') = Len(stack) - 1
        /\ \A i \in 1..(Len(stack) - 1) : stack'[i] = stack[i]
    BY <1>1, <1>7, PopEffect
  <2>2. \A i \in 1..FirstSlot : stack'[i] = stack[i]
    <3>. DEFINE t == Len(stack)
    <3>1. FirstSlot \in Int /\ m \in Int /\ t \in Int /\ m >= 2 /\ FirstSlot + m - 1 = t
      BY <1>2, <1>3
    <3>. HIDE DEF m, t
    <3>2. \A i \in 1..FirstSlot : i \in 1..(t - 1)
      BY <3>1
    <3>. QED BY <2>1, <3>2 DEF t
  <2>3. WindowsOf(base, stack', WithLocals(ls))
    <3>1. base \in Int /\ FirstSlot + Len(ls) - 1 <= Len(stack')
      BY <1>2, <1>6, <2>1
    <3>. QED BY <1>1, <1>4, <1>5, <1>6, <2>1, <2>2, <3>1, BasicFacts, WindowsWithLocals
  <2>. QED BY <1>1, <1>4, <1>6, <1>7, <2>1, <2>3, BasicFacts, WithLocalsEffect
<1>8. ASSUME frames' = WithLocals(ls), NEW p, IsCaptured(base, frames, p),
             p # Len(stack) \/ Frame.locals[m] = FALSE
      PROVE  IsCaptured(base, frames', p)
  <2>1. ASSUME NEW i \in 1..m, p = FirstSlot + i - 1, Frame.locals[i] = TRUE
        PROVE  i \in 1..Len(ls) /\ ls[i] = TRUE
    <3>1. i # m
      BY <1>2, <1>3, <1>8, <2>1
    <3>. QED BY <1>3, <1>4, <2>1, <3>1
  <2>. QED BY <1>1, <1>4, <1>6, <1>8, <2>1, CapturedWithLocals
<1>9. CASE /\ ~Frame.locals[m]
           /\ UNCHANGED upVars
           /\ Pop
           /\ frames' = WithLocals(ls)
           /\ UNCHANGED <<base, capacity, stale, todo, glob, fault>>
  <2>1. Frame.locals[m] = FALSE
    <3>1. Frame.locals[m] \in BOOLEAN
      BY <1>2, <1>3
    <3>. QED BY <1>9, <3>1
  <2>2. \A p : IsCaptured(base, frames, p) => IsCaptured(base, frames', p)
    BY <1>8, <1>9, <2>1
  <2>3. closed' \in [Up -> Value] /\ glob' \in Value
    BY <1>9, BasicFacts DEF TypeOK, upVars
  <2>4. Len(stack') <= Len(stack) /\ Len(frames') <= FramesMax
    BY <1>2, <1>7, <1>9, BasicFacts
  <2>. QED BY <1>1, <1>7, <1>9, <2>2, <2>3, <2>4, BasicFacts, InPlaceStep DEF upVars
<1>10. CASE /\ Frame.locals[m]
            /\ CanCloseFrom(address)
            /\ CloseFrom(address)
            /\ Pop
            /\ frames' = WithLocals(ls)
            /\ UNCHANGED <<base, capacity, stale, todo, glob, fault>>
  <2>1. address \in Int /\ SlotAt(address) = Len(stack)
    BY <1>2 DEF SlotAt
  <2>2. StackMoved
    BY <1>10, BasicFacts DEF StackMoved
  <2>3. \A p : IsCaptured(base, frames, p) /\ p < SlotAt(address) => IsCaptured(base', frames', p)
    <3>1. \A p : p < Len(stack) => p # Len(stack)
      BY <1>2
    <3>. QED BY <1>8, <1>10, <2>1, <3>1
  <2>. HIDE DEF address
  <2>4. /\ Order' /\ open' \in Seq(Up) /\ IsInjective(open')
        /\ loc' \in [Up -> Int] /\ closed' \in [Up -> Value] /\ upvalues' = upvalues
    BY <1>10, <2>1, <2>2, <2>3, BasicFacts, OrderCloses
  <2>5. TypeOK' /\ Len(stack') <= MaxStack
    BY <1>2, <1>7, <1>10, <2>4, BasicFacts DEF TypeOK
  <2>6. CapturesPending' /\ FaultNeedsStale'
    BY <1>1, <1>10 DEF CapturesPending, FaultNeedsStale, IInv
  <2>. QED BY <1>7, <1>10, <2>4, <2>5, <2>6 DEF IInv
<1>11. CASE ~CanCloseFrom(address) /\ Fault
  <2>1. PICK i \in 1..AtOrAbove(address) : ~Readable(open[i])
    BY <1>11 DEF CanCloseFrom
  <2>2. address \in Int
    BY <1>2
  <2>3. AtOrAbove(address) \in 0..Len(open)
    BY <2>2, BasicFacts, AtOrAboveCuts DEF Order
  <2>4. open[i] \in Created
    BY <2>3, BasicFacts DEF TypeOK, Created, Range
  <2>. QED BY <1>11, <2>1, <2>4, FaultStep
<1>. QED BY <1>9, <1>10, <1>11 DEF EndScope, ls

\* The variables in scope when a function is declared, which may itself be one.
LEMMA MoreLocals ==
  ASSUME IInv, frames # <<>>, Operands = 0, Len(stack) < MaxStack,
         NEW more \in {<<>>, <<TRUE>>, <<FALSE>>}
  PROVE  LET m == Len(Frame.locals)
             ls == Frame.locals \o more
         IN  /\ ls \in Seq(BOOLEAN) /\ Len(ls) >= 1 /\ Len(ls) <= MaxStack /\ ls[1] = FALSE
             /\ FirstSlot + Len(ls) - 1 <= Len(stack) + 1
             /\ \A i \in 1..m : i \in 1..Len(ls) /\ ls[i] = Frame.locals[i]
<1>. DEFINE m == Len(Frame.locals)
            ls == Frame.locals \o more
<1>1. /\ FirstSlot \in 1..Len(stack) /\ Frame.locals \in Seq(BOOLEAN) /\ m \in Nat
      /\ m >= 1 /\ Frame.locals[1] = FALSE
      /\ Operands = Len(stack) - FirstSlot + 1 - m
  BY FrameFacts
<1>2. more \in Seq(BOOLEAN) /\ (Len(more) = 0 \/ Len(more) = 1)
  <2>1. /\ <<>> \in Seq(BOOLEAN) /\ Len(<<>>) = 0
        /\ <<TRUE>> \in Seq(BOOLEAN) /\ Len(<<TRUE>>) = 1
        /\ <<FALSE>> \in Seq(BOOLEAN) /\ Len(<<FALSE>>) = 1
    OBVIOUS
  <2>2. more = <<>> \/ more = <<TRUE>> \/ more = <<FALSE>>
    BY Zenon
  <2>. QED BY <2>1, <2>2, Zenon
<1>3. ls \in Seq(BOOLEAN) /\ Len(ls) = m + Len(more) /\ \A i \in 1..m : ls[i] = Frame.locals[i]
  BY <1>1, <1>2, ConcatIs
<1>4. Len(stack) \in Nat
  BY BasicFacts
<1>. HIDE DEF ls
<1>5. Len(ls) >= 1 /\ Len(ls) <= MaxStack /\ FirstSlot + Len(ls) - 1 <= Len(stack) + 1
  <2>. DEFINE k == Len(ls)
              t == Len(stack)
  <2>1. k \in Int /\ t \in Int /\ (k = m + 0 \/ k = m + 1)
    <3>1. k = m + Len(more)
      BY <1>3
    <3>2. k = m + 0 \/ k = m + 1
      BY <1>2, <3>1, Zenon
    <3>3. k \in Int /\ t \in Int
      BY <1>3, <1>4
    <3>. QED BY <3>2, <3>3, Zenon
  <2>2. t - FirstSlot + 1 - m = 0
    BY <1>1
  <2>3. t < MaxStack /\ MaxStack \in Int
    BY <1>4, BasicFacts
  <2>. HIDE DEF k, t, m
  <2>4. FirstSlot \in Int /\ FirstSlot >= 1 /\ m \in Int /\ m >= 1
    BY <1>1
  <2>5. k >= 1 /\ k <= MaxStack /\ FirstSlot + k - 1 <= t + 1
    BY <2>1, <2>2, <2>3, <2>4
  <2>. QED BY <2>5 DEF k, t
<1>6. ls[1] = FALSE
  <2>1. 1 \in 1..m
    BY <1>1
  <2>. QED BY <1>1, <1>3, <2>1, Zenon
<1>7. \A i \in 1..m : i \in 1..Len(ls) /\ ls[i] = Frame.locals[i]
  <2>1. \A i \in 1..m : ls[i] = Frame.locals[i]
    BY <1>3
  <2>2. \A i \in 1..m : i \in 1..Len(ls)
    BY <1>1, <1>2, <1>3
  <2>. QED BY <2>1, <2>2
<1>8. ls \in Seq(BOOLEAN)
  BY <1>3
<1>. QED BY <1>5, <1>6, <1>7, <1>8, Zenon DEF ls

LEMMA ClosureStep ==
  ASSUME IInv, NEW f \in Clo, NEW n \in 0..MaxCaptures, NEW more \in {<<>>, <<TRUE>>, <<FALSE>>},
         Closure(f, n, more)
  PROVE  IInv'
<1>. DEFINE m == Len(Frame.locals)
            ls == Frame.locals \o more
            fs == WithLocals(ls)
<1>1. /\ frames # <<>> /\ todo = 0 /\ Operands = 0 /\ todo' = n
      /\ upvalues' = [upvalues EXCEPT ![f] = <<>>]
      /\ Push(Len(stack), fs, f)
      /\ UNCHANGED <<open, loc, closed, glob, fault>>
  BY DEF Closure, Running
<1>2. FirstSlot \in 1..Len(stack) /\ base \in Int
  BY <1>1, BasicFacts, FrameFacts
<1>3. /\ Len(stack) \in Nat /\ Len(stack) \in 0..Len(stack) /\ f \in Value
      /\ Len(stack) < MaxStack
  BY <1>1, BasicFacts DEF Value, Push
<1>4. /\ ls \in Seq(BOOLEAN) /\ Len(ls) >= 1 /\ Len(ls) <= MaxStack /\ ls[1] = FALSE
      /\ FirstSlot + Len(ls) - 1 <= Len(stack) + 1
      /\ \A i \in 1..m : i \in 1..Len(ls) /\ ls[i] = Frame.locals[i]
  BY <1>1, <1>3, MoreLocals
<1>. HIDE DEF ls
<1>5. fs \in Seq(FrameType) /\ Len(fs) = Len(frames)
  BY <1>1, <1>4, BasicFacts, WithLocalsEffect
<1>6. /\ stack' \in Seq(Value) /\ Len(stack') = Len(stack) + 1 /\ stack'[Len(stack) + 1] = f
      /\ \A i \in 1..Len(stack) : stack'[i] = stack[i]
      /\ base' \in Bases /\ capacity' \in Nat
      /\ Len(stack') <= capacity' /\ Len(stack') <= MaxStack
      /\ frames' \in Seq(FrameType) /\ SameCalls(base, fs, base', frames')
      /\ stale' = IF base' = base THEN stale ELSE stale \union Range(open)
  BY <1>1, <1>3, <1>5, BasicFacts, PushEffect
<1>7. WindowsOf(base, stack', fs)
  <2>1. base \in Int /\ FirstSlot + Len(ls) - 1 <= Len(stack')
    BY <1>4, <1>6, BasicFacts
  <2>2. \A i \in 1..FirstSlot : stack'[i] = stack[i]
    BY <1>2, <1>3, <1>6
  <2>. QED BY <1>1, <1>4, <1>6, <2>1, <2>2, BasicFacts, WindowsWithLocals
<1>8. \A p : IsCaptured(base, frames, p) => IsCaptured(base, fs, p)
  <2>1. \A i \in 1..m : Frame.locals[i] = TRUE => i \in 1..Len(ls) /\ ls[i] = TRUE
    BY <1>4
  <2>. QED BY <1>1, <1>4, <2>1, CapturedWithLocals
<1>. HIDE DEF fs
<1>9. WindowsOf(base', stack', frames')
  BY <1>5, <1>6, <1>7, BasicFacts, WindowsMove
<1>10. StackMoved
  BY <1>6 DEF StackMoved
<1>11. /\ upvalues' \in [Clo \union {Script} -> Seq(Up)]
       /\ Created' \subseteq Created
  <2>1. upvalues \in [Clo \union {Script} -> Seq(Up)] /\ <<>> \in Seq(Up)
    BY BasicFacts DEF TypeOK
  <2>2. upvalues' \in [Clo \union {Script} -> Seq(Up)]
    BY <1>1, <2>1
  <2>3. ASSUME NEW g \in DOMAIN upvalues', NEW u \in Range(upvalues'[g])
        PROVE  u \in Range(upvalues[g]) /\ g \in DOMAIN upvalues
    BY <1>1, <2>1, <2>3 DEF Range
  <2>4. Created' \subseteq Created
    BY <1>1, <2>3 DEF Created
  <2>. QED BY <2>2, <2>4
<1>12. Order'
  <2>1. \A p : IsCaptured(base, frames, p) => IsCaptured(base', frames', p)
    BY <1>6, <1>8, CapturedMove
  <2>. QED BY <1>1, <1>10, <1>11, <2>1, BasicFacts, OrderStays
<1>13. TypeOK'
  <2>1. Len(frames') = Len(frames) /\ n \in 0..MaxCaptures
    BY <1>5, <1>6 DEF SameCalls
  <2>. QED BY <1>1, <1>6, <1>10, <1>11, <2>1, BasicFacts, StackMovedType DEF TypeOK
<1>14. CapturesPending' /\ FaultNeedsStale'
  <2>1. stack'[Len(stack')] = f /\ Len(frames') = Len(frames)
    BY <1>5, <1>6 DEF SameCalls
  <2>2. frames' # <<>>
    BY <1>1, <1>6, <2>1, BasicFacts
  <2>. QED BY <1>1, <1>10, <2>1, <2>2, BasicFacts, StackMovedType
         DEF CapturesPending, FaultNeedsStale, IInv, Top
<1>. QED BY <1>6, <1>9, <1>12, <1>13, <1>14 DEF IInv

LEMMA CaptureLocalStep ==
  ASSUME IInv, NEW i \in 1..MaxStack, CaptureLocal(i)
  PROVE  IInv'
<1>. DEFINE a == Frame.slots + i - 1
<1>1. /\ todo > 0 /\ ~fault /\ i <= Len(Frame.locals) /\ Frame.locals[i]
      /\ CaptureAt(Top, a) /\ todo' = todo - 1
      /\ UNCHANGED <<base, capacity, stack, frames, glob, fault>>
  BY DEF CaptureLocal
<1>2. frames # <<>> /\ Top \in Clo /\ todo \in 0..MaxCaptures /\ MaxCaptures \in Nat
  BY <1>1, NatAssumption DEF IInv, CapturesPending, TypeOK
<1>3. i \in 1..Len(Frame.locals) /\ Frame.locals[i] = TRUE
  <2>1. Frame.locals \in Seq(BOOLEAN) /\ Len(Frame.locals) \in Nat
    BY <1>2, FrameFacts
  <2>2. i \in 1..Len(Frame.locals)
    BY <1>1, <2>1
  <2>3. Frame.locals[i] \in BOOLEAN
    BY <2>1, <2>2
  <2>. QED BY <1>1, <2>2, <2>3
<1>4. a \in Nat /\ SlotAt(a) = SlotOf(Frame, base) + i - 1
  <2>1. Frame.slots \in Nat /\ base \in Nat
    BY <1>2, BasicFacts, FrameFacts
  <2>. QED BY <2>1 DEF SlotAt, SlotOf
<1>5. IsCaptured(base, frames, SlotAt(a))
  <2>1. Frame = frames[Len(frames)] /\ Len(frames) \in 1..Len(frames)
    BY <1>2, FrameFacts
  <2>. QED BY <1>3, <1>4, <2>1 DEF IsCaptured
<1>. HIDE DEF a
<1>6. /\ Order' /\ open' \in Seq(Up) /\ IsInjective(open')
      /\ loc' \in [Up -> Int] /\ closed' \in [Up -> Value]
      /\ upvalues' \in [Clo \union {Script} -> Seq(Up)] /\ stale' \in SUBSET Up
  BY <1>1, <1>2, <1>4, <1>5, BasicFacts, OrderCaptures
<1>7. TypeOK' /\ Len(stack') <= MaxStack
  BY <1>1, <1>2, <1>6, BasicFacts DEF TypeOK
<1>8. WindowsOf(base', stack', frames')
  BY <1>1, BasicFacts
<1>9. CapturesPending' /\ FaultNeedsStale'
  BY <1>1, <1>2 DEF CapturesPending, FaultNeedsStale, Top
<1>. QED BY <1>6, <1>7, <1>8, <1>9 DEF IInv

LEMMA CaptureOuterStep ==
  ASSUME IInv, NEW k \in 1..MaxCaptures, CaptureOuter(k)
  PROVE  IInv'
<1>. USE DEF stackVars
<1>. DEFINE u == upvalues[Frame.closure][k]
<1>1. /\ todo > 0 /\ ~fault /\ k \in DOMAIN upvalues[Frame.closure]
      /\ upvalues' = [upvalues EXCEPT ![Top] = Append(@, u)]
      /\ todo' = todo - 1
      /\ UNCHANGED <<stackVars, open, loc, closed, glob, fault>>
  BY DEF CaptureOuter
<1>2. frames # <<>> /\ Top \in Clo /\ todo \in 0..MaxCaptures /\ MaxCaptures \in Nat
  BY <1>1, NatAssumption DEF IInv, CapturesPending, TypeOK
<1>3. u \in Created /\ u \in Up
  BY <1>1, <1>2, UpvalueOfFrame
<1>. HIDE DEF u
<1>4. upvalues \in [Clo \union {Script} -> Seq(Up)]
  BY BasicFacts DEF TypeOK
<1>5. upvalues' \in [Clo \union {Script} -> Seq(Up)]
  BY <1>1, <1>2, <1>3, <1>4
<1>6. Created' \subseteq Created
  <2>1. ASSUME NEW g \in DOMAIN upvalues', NEW w \in Range(upvalues'[g]) PROVE w \in Created
    <3>1. g \in DOMAIN upvalues /\ upvalues[g] \in Seq(Up)
      BY <1>1, <1>4
    <3>2. CASE upvalues'[g] = upvalues[g]
      BY <2>1, <3>1, <3>2 DEF Created
    <3>3. CASE upvalues'[g] = Append(upvalues[g], u)
      BY <1>3, <2>1, <3>1, <3>3 DEF Created, Range
    <3>. QED BY <1>1, <1>4, <3>2, <3>3
  <2>. QED BY <1>1, <2>1 DEF Created
<1>7. StackMoved
  BY <1>1, BasicFacts DEF StackMoved
<1>8. Order'
  <2>1. \A p : IsCaptured(base, frames, p) => IsCaptured(base', frames', p)
    BY <1>1
  <2>. QED BY <1>1, <1>6, <1>7, <2>1, BasicFacts, OrderStays
<1>9. TypeOK' /\ Len(stack') <= MaxStack
  BY <1>1, <1>2, <1>5, BasicFacts DEF TypeOK
<1>10. WindowsOf(base', stack', frames')
  BY <1>1, BasicFacts
<1>11. CapturesPending' /\ FaultNeedsStale'
  BY <1>1, <1>2 DEF CapturesPending, FaultNeedsStale, Top
<1>. QED BY <1>8, <1>9, <1>10, <1>11 DEF IInv

LEMMA CallStep ==
  ASSUME IInv, NEW n \in 0..MaxArity, NEW more \in [1..n -> BOOLEAN], Call(n, more)
  PROVE  IInv'
<1>. DEFINE m == Len(frames)
            t == Len(stack)
            callee == stack[t - n]
            ls == <<FALSE>> \o more
            fr == [closure |-> callee, slots |-> base + t - n - 1, arity |-> n, locals |-> ls]
<1>1. /\ frames # <<>> /\ todo = 0 /\ n < Operands /\ Len(more) = n /\ m < FramesMax
      /\ callee \in Clo /\ frames' = Append(frames, fr)
      /\ UNCHANGED <<base, capacity, stale, stack, upVars, todo, glob, fault>>
  BY DEF Call, Running
<1>2. /\ FirstSlot \in 1..t /\ Len(Frame.locals) \in Nat
      /\ Len(Frame.locals) >= 1 /\ Operands = t - FirstSlot + 1 - Len(Frame.locals)
  BY <1>1, FrameFacts
<1>3. /\ n \in Nat /\ t \in Nat /\ t <= MaxStack /\ MaxStack \in Nat /\ base \in Nat
      /\ m \in Nat /\ frames \in Seq(FrameType) /\ WindowsOf(base, stack, frames)
  BY BasicFacts, NatAssumption
<1>4. ls \in Seq(BOOLEAN) /\ Len(ls) = n + 1 /\ ls[1] = FALSE
  <2>1. <<FALSE>> \in Seq(BOOLEAN) /\ Len(<<FALSE>>) = 1 /\ <<FALSE>>[1] = FALSE
    OBVIOUS
  <2>2. more \in Seq(BOOLEAN) /\ Len(more) = n
    BY <1>1, <1>3
  <2>3. ls \in Seq(BOOLEAN) /\ Len(ls) = 1 + n /\ ls[1] = <<FALSE>>[1]
    BY <2>1, <2>2, ConcatIs
  <2>. HIDE DEF ls
  <2>4. Len(ls) = n + 1
    BY <1>3, <2>3
  <2>. QED BY <2>1, <2>3, <2>4, Zenon
<1>. HIDE DEF ls, callee
<1>5. t - n >= FirstSlot + Len(Frame.locals) /\ t - n \in 2..t /\ n + 1 <= MaxStack
  <2>. DEFINE q == Len(Frame.locals)
  <2>1. q \in Int /\ q >= 1 /\ n < t - FirstSlot + 1 - q
    <3>1. q \in Nat /\ q >= 1 /\ Operands = t - FirstSlot + 1 - q /\ n < Operands
      BY <1>1, <1>2, Zenon
    <3>. HIDE DEF q, t
    <3>. QED BY <3>1
  <2>2. t \in Int /\ t <= MaxStack /\ MaxStack \in Int /\ n \in Int /\ n >= 0
        /\ FirstSlot \in Int /\ FirstSlot >= 1
    BY <1>2, <1>3
  <2>. HIDE DEF q, t
  <2>3. t - n >= FirstSlot + q /\ t - n \in 2..t /\ n + 1 <= MaxStack
    BY <2>1, <2>2
  <2>. QED BY <2>3 DEF q, t
<1>6. fr \in FrameType
  <2>1. ls \in UNION {[1..l -> BOOLEAN] : l \in 0..MaxStack}
    BY <1>4, <1>5, LocalsType
  <2>2. base + t - n - 1 \in Int /\ callee \in Clo \union {Script}
    BY <1>1, <1>3
  <2>. QED BY <2>1, <2>2 DEF FrameType
<1>7. /\ fr.closure = callee /\ fr.slots = base + t - n - 1 /\ fr.locals = ls
  OBVIOUS
<1>8. SlotOf(fr, base) = t - n
  BY <1>3, <1>7 DEF SlotOf
<1>. HIDE DEF fr
<1>9. /\ frames' \in Seq(FrameType) /\ Len(frames') = m + 1 /\ frames'[m + 1] = fr
      /\ \A k \in 1..m : frames'[k] = frames[k]
  BY <1>1, <1>3, <1>6
<1>10. WindowsOf(base, stack, frames')
  <2>1. frames' # <<>> /\ 1 \in 1..m /\ m \in 1..m
    <3>1. m >= 1
      BY <1>1, <1>3
    <3>2. Len(frames') >= 2
      BY <1>3, <1>9, <3>1
    <3>. QED BY <1>3, <1>9, <3>1, <3>2
  <2>2. SlotOf(frames'[1], base) = 1
    BY <1>1, <1>3, <1>9, <2>1 DEF WindowsOf
  <2>3. ASSUME NEW k \in 1..m
        PROVE  /\ SlotOf(frames'[k], base) >= 1
               /\ Len(frames'[k].locals) >= 1 /\ frames'[k].locals[1] = FALSE
               /\ SlotOf(frames'[k], base) + Len(frames'[k].locals) - 1 <= Len(stack)
               /\ stack[SlotOf(frames'[k], base)] = frames'[k].closure
               /\ \A j \in 1..(k - 1) :
                    SlotOf(frames'[j], base) + Len(frames'[j].locals) <= SlotOf(frames'[k], base)
    <3>1. \A j \in 1..(k - 1) : j \in 1..m
      BY <1>3
    <3>. QED BY <1>3, <1>9, <3>1 DEF WindowsOf
  <2>4. /\ SlotOf(fr, base) >= 1
        /\ Len(fr.locals) >= 1 /\ fr.locals[1] = FALSE
        /\ SlotOf(fr, base) + Len(fr.locals) - 1 <= Len(stack)
        /\ stack[SlotOf(fr, base)] = fr.closure
    <3>1. fr.locals[1] = FALSE /\ Len(fr.locals) = n + 1
      BY <1>4, <1>7, Zenon
    <3>2. stack[SlotOf(fr, base)] = fr.closure
      BY <1>7, <1>8 DEF callee
    <3>. QED BY <1>3, <1>5, <1>8, <3>1, <3>2
  <2>5. ASSUME NEW j \in 1..m
        PROVE  SlotOf(frames'[j], base) + Len(frames'[j].locals) <= SlotOf(fr, base)
    <3>1. /\ SlotOf(frames[j], base) \in 1..FirstSlot /\ Len(frames[j].locals) \in Nat
          /\ SlotOf(frames[j], base) + Len(frames[j].locals) <= FirstSlot + Len(Frame.locals)
      BY <1>1, FrameFacts
    <3>. DEFINE a == SlotOf(frames[j], base)
                b == Len(frames[j].locals)
                q == Len(Frame.locals)
    <3>2. a \in Int /\ b \in Int /\ q \in Int /\ FirstSlot \in Int /\ t - n \in Int
          /\ a + b <= FirstSlot + q /\ t - n >= FirstSlot + q
      BY <1>2, <1>5, <3>1
    <3>3. SlotOf(frames'[j], base) = a /\ Len(frames'[j].locals) = b
      BY <1>9
    <3>. HIDE DEF a, b, q, t
    <3>. QED BY <1>8, <3>2, <3>3
  <2>6. \A k \in 1..Len(frames') : k \in 1..m \/ k = m + 1
    BY <1>3, <1>9
  <2>7. \A j \in 1..((m + 1) - 1) : j \in 1..m
    BY <1>3
  <2>. QED BY <1>9, <2>1, <2>2, <2>3, <2>4, <2>5, <2>6, <2>7 DEF WindowsOf
<1>11. ASSUME NEW p, IsCaptured(base, frames, p) PROVE IsCaptured(base, frames', p)
  <2>1. PICK k \in 1..m : \E i \in 1..Len(frames[k].locals) :
          p = SlotOf(frames[k], base) + i - 1 /\ frames[k].locals[i] = TRUE
    BY <1>11 DEF IsCaptured
  <2>2. k \in 1..Len(frames') /\ frames'[k] = frames[k]
    BY <1>3, <1>9
  <2>. QED BY <2>1, <2>2 DEF IsCaptured
<1>12. /\ closed' \in [Up -> Value] /\ glob' \in Value
       /\ stack' \in Seq(Value) /\ Len(stack') <= Len(stack) /\ Len(frames') <= FramesMax
  <2>1. Len(frames') <= FramesMax
    BY <1>1, <1>3, <1>9, NatAssumption
  <2>. QED BY <1>1, <2>1, BasicFacts DEF TypeOK, upVars
<1>. QED BY <1>1, <1>9, <1>10, <1>11, <1>12, InPlaceStep DEF upVars

\* An upvalue that close_upvalues cannot read: the run ends.
LEMMA CloseFault ==
  ASSUME IInv, NEW a \in Int, ~CanCloseFrom(a), Fault
  PROVE  IInv'
<1>1. PICK i \in 1..AtOrAbove(a) : ~Readable(open[i])
  BY DEF CanCloseFrom
<1>2. AtOrAbove(a) \in 0..Len(open)
  BY BasicFacts, AtOrAboveCuts DEF Order
<1>3. open[i] \in Created
  BY <1>2, BasicFacts DEF TypeOK, Created, Range
<1>. QED BY <1>1, <1>3, FaultStep

LEMMA ReturnStep ==
  ASSUME IInv, Return
  PROVE  IInv'
<1>. DEFINE m == Len(frames)
            fs == SubSeq(frames, 1, m - 1)
            a == Frame.slots
<1>1. /\ frames # <<>> /\ todo = 0 /\ Operands = 1
      /\ Len(frames) = 1 => Len(Frame.locals) = 1
  BY DEF Return, Running
<1>2. /\ FirstSlot \in 1..Len(stack) /\ Len(Frame.locals) \in Nat
      /\ Len(Frame.locals) >= 1 /\ a \in Nat /\ a = base + FirstSlot - 1
      /\ Frame = frames[m] /\ FirstSlot = SlotOf(Frame, base)
      /\ Operands = Len(stack) - FirstSlot + 1 - Len(Frame.locals)
  BY <1>1, FrameFacts
<1>3. /\ base \in Nat /\ stack \in Seq(Value) /\ Len(stack) \in Nat /\ m \in Nat
      /\ frames \in Seq(FrameType) /\ WindowsOf(base, stack, frames)
      /\ TypeOK /\ Order /\ m <= FramesMax
  BY BasicFacts
<1>4. m >= 1 /\ m - 1 \in 0..m
  BY <1>1, <1>3
<1>5. SlotAt(a) = FirstSlot /\ a \in Int
  BY <1>2, <1>3 DEF SlotAt
<1>6. ASSUME NEW k \in 1..(m - 1)
      PROVE  /\ k \in 1..m /\ SlotOf(frames[k], base) \in Int /\ SlotOf(frames[k], base) >= 1
             /\ Len(frames[k].locals) \in Nat
             /\ Len(frames[k].locals) >= 1 /\ frames[k].locals[1] = FALSE
             /\ SlotOf(frames[k], base) + Len(frames[k].locals) <= FirstSlot
             /\ stack[SlotOf(frames[k], base)] = frames[k].closure
  <2>1. k \in 1..m /\ m \in 1..m /\ k \in 1..(m - 1)
    BY <1>3, <1>4
  <2>2. SlotOf(frames[k], base) \in Int /\ Len(frames[k].locals) \in Nat
    <3>1. base \in Int
      BY <1>3
    <3>. QED BY <1>3, <2>1, <3>1, FrameNumbers
  <2>3. /\ SlotOf(frames[k], base) >= 1
        /\ Len(frames[k].locals) >= 1 /\ frames[k].locals[1] = FALSE
        /\ stack[SlotOf(frames[k], base)] = frames[k].closure
        /\ SlotOf(frames[k], base) + Len(frames[k].locals) <= SlotOf(frames[m], base)
    BY <1>3, <2>1 DEF WindowsOf
  <2>. QED BY <1>2, <2>1, <2>2, <2>3
\* What is captured below the call that returns is captured by the calls below.
<1>7. ASSUME NEW p, IsCaptured(base, frames, p), p < SlotAt(a)
      PROVE  \E k \in 1..(m - 1) : \E i \in 1..Len(frames[k].locals) :
               p = SlotOf(frames[k], base) + i - 1 /\ frames[k].locals[i] = TRUE
  <2>1. PICK k \in 1..m : \E i \in 1..Len(frames[k].locals) :
          p = SlotOf(frames[k], base) + i - 1 /\ frames[k].locals[i] = TRUE
    BY <1>7 DEF IsCaptured
  <2>2. k # m
    BY <1>2, <1>5, <1>7, <2>1
  <2>3. k \in 1..(m - 1)
    BY <1>3, <2>2
  <2>. QED BY <2>1, <2>3
<1>8. CASE ~CanCloseFrom(a) /\ Fault
  BY <1>5, <1>8, CloseFault
<1>9. CASE /\ CanCloseFrom(a) /\ Len(frames) > 1 /\ CloseFrom(a)
           /\ Push(FirstSlot - 1, fs, Top)
           /\ UNCHANGED <<todo, glob, fault>>
  <2>1. /\ fs \in Seq(FrameType) /\ Len(fs) = m - 1 /\ \A k \in 1..(m - 1) : fs[k] = frames[k]
    BY <1>3, <1>4, PrefixIs
  <2>2. FirstSlot - 1 \in 0..Len(stack) /\ Top \in Value
    <3>1. FirstSlot - 1 \in 0..Len(stack)
      BY <1>2, <1>3
    <3>. QED BY <1>2, <1>3, <3>1 DEF Top
  <2>. HIDE DEF fs
  <2>3. /\ stack' \in Seq(Value) /\ Len(stack') = (FirstSlot - 1) + 1
        /\ \A i \in 1..(FirstSlot - 1) : stack'[i] = stack[i]
        /\ base' \in Bases /\ capacity' \in Nat
        /\ Len(stack') <= capacity' /\ Len(stack') <= MaxStack
        /\ frames' \in Seq(FrameType) /\ SameCalls(base, fs, base', frames')
        /\ stale' = IF base' = base THEN stale ELSE stale \union Range(open)
    BY <1>3, <1>9, <2>1, <2>2, PushEffect
  <2>4. WindowsOf(base, stack', fs)
    <3>1. fs # <<>> /\ 1 \in 1..(m - 1)
      BY <1>3, <1>9, <2>1
    <3>2. SlotOf(fs[1], base) = 1
      BY <1>1, <1>3, <2>1, <3>1 DEF WindowsOf
    <3>3. ASSUME NEW k \in 1..(m - 1)
          PROVE  /\ SlotOf(fs[k], base) >= 1
                 /\ Len(fs[k].locals) >= 1 /\ fs[k].locals[1] = FALSE
                 /\ SlotOf(fs[k], base) + Len(fs[k].locals) - 1 <= Len(stack')
                 /\ stack'[SlotOf(fs[k], base)] = fs[k].closure
      <4>. DEFINE s == SlotOf(frames[k], base)
                  l == Len(frames[k].locals)
      <4>1. /\ s \in Int /\ s >= 1 /\ l \in Int /\ l >= 1 /\ s + l <= FirstSlot /\ FirstSlot \in Int
            /\ Len(stack') = (FirstSlot - 1) + 1
        <5>1. s \in Int /\ s >= 1 /\ l \in Nat /\ l >= 1 /\ s + l <= FirstSlot
          BY <1>6
        <5>2. FirstSlot \in Int
          BY <1>2
        <5>. HIDE DEF s, l
        <5>. QED BY <2>3, <5>1, <5>2
      <4>2. frames[k].locals[1] = FALSE /\ stack[s] = frames[k].closure /\ fs[k] = frames[k]
        BY <1>6, <2>1
      <4>. HIDE DEF s, l
      <4>3. s + l - 1 <= Len(stack') /\ s \in 1..(FirstSlot - 1)
        BY <4>1
      <4>4. stack'[s] = stack[s]
        BY <2>3, <4>3
      <4>. QED BY <4>1, <4>2, <4>3, <4>4, Zenon DEF s, l
    <3>4. ASSUME NEW k \in 1..(m - 1), NEW j \in 1..(k - 1)
          PROVE  SlotOf(fs[j], base) + Len(fs[j].locals) <= SlotOf(fs[k], base)
      <4>1. j \in 1..(m - 1) /\ k \in 1..m
        BY <1>3, <1>4
      <4>. QED BY <1>3, <2>1, <4>1 DEF WindowsOf
    <3>. QED BY <2>1, <3>1, <3>2, <3>3, <3>4 DEF WindowsOf
  <2>5. WindowsOf(base', stack', frames')
    BY <2>1, <2>3, <2>4, WindowsMove
  <2>6. StackMoved
    BY <2>3 DEF StackMoved
  <2>7. \A p : IsCaptured(base, frames, p) /\ p < SlotAt(a) => IsCaptured(base', frames', p)
    <3>1. SUFFICES ASSUME NEW p, IsCaptured(base, frames, p), p < SlotAt(a)
                   PROVE  IsCaptured(base, fs, p)
      BY <2>3, CapturedMove
    <3>2. PICK k \in 1..(m - 1) : \E i \in 1..Len(frames[k].locals) :
            p = SlotOf(frames[k], base) + i - 1 /\ frames[k].locals[i] = TRUE
      BY <1>7, <3>1
    <3>3. k \in 1..Len(fs) /\ fs[k] = frames[k]
      BY <2>1
    <3>. QED BY <3>2, <3>3 DEF IsCaptured
  <2>. HIDE DEF a
  <2>8. /\ Order' /\ open' \in Seq(Up) /\ IsInjective(open')
        /\ loc' \in [Up -> Int] /\ closed' \in [Up -> Value] /\ upvalues' = upvalues
    BY <1>3, <1>5, <1>9, <2>6, <2>7, OrderCloses
  <2>9. TypeOK'
    <3>1. Len(frames') = m - 1 /\ m - 1 <= FramesMax
      BY <1>3, <2>1, <2>3, NatAssumption DEF SameCalls
    <3>. QED BY <1>3, <1>9, <2>3, <2>6, <2>8, <3>1, StackMovedType DEF TypeOK
  <2>10. CapturesPending' /\ FaultNeedsStale'
    BY <1>1, <1>9, <2>6, BasicFacts, StackMovedType DEF CapturesPending, FaultNeedsStale, IInv
  <2>. QED BY <2>3, <2>5, <2>8, <2>9, <2>10 DEF IInv
<1>10. CASE /\ CanCloseFrom(a) /\ Len(frames) = 1 /\ CloseFrom(a)
            /\ stack' = SubSeq(stack, 1, Len(stack) - 2) /\ frames' = <<>>
            /\ UNCHANGED <<base, capacity, stale, todo, glob, fault>>
  <2>1. FirstSlot = 1
    BY <1>1, <1>2, <1>3, <1>10 DEF WindowsOf
  <2>2. Len(stack) = 2
    <3>. DEFINE t == Len(stack)
                q == Len(Frame.locals)
    <3>1. t \in Int /\ q = 1 /\ Operands = 1 /\ Operands = t - FirstSlot + 1 - q
      BY <1>1, <1>2, <1>3, <1>10
    <3>. HIDE DEF t, q
    <3>2. t = 2
      BY <2>1, <3>1
    <3>. QED BY <3>2 DEF t
  <2>3. stack' \in Seq(Value) /\ Len(stack') = 0 /\ stack' = <<>>
    <3>1. 0 \in 0..Len(stack) /\ stack' = SubSeq(stack, 1, 0)
      BY <1>10, <2>2
    <3>2. stack' \in Seq(Value) /\ Len(stack') = 0
      BY <1>3, <3>1, PrefixIs
    <3>. QED BY <3>2
  <2>4. WindowsOf(base', stack', frames')
    BY <1>10, <2>3 DEF WindowsOf
  <2>5. StackMoved
    BY <1>3, <1>10 DEF StackMoved, TypeOK
  <2>6. \A p : IsCaptured(base, frames, p) /\ p < SlotAt(a) => IsCaptured(base', frames', p)
    <3>1. \A k \in 1..(m - 1) : FALSE
      BY <1>10
    <3>. QED BY <1>7, <3>1
  <2>. HIDE DEF a
  <2>7. /\ Order' /\ open' \in Seq(Up) /\ IsInjective(open')
        /\ loc' \in [Up -> Int] /\ closed' \in [Up -> Value] /\ upvalues' = upvalues
    BY <1>3, <1>5, <1>10, <2>5, <2>6, OrderCloses
  <2>8. TypeOK' /\ Len(stack') <= MaxStack
    <3>1. frames' \in Seq(FrameType) /\ Len(frames') <= FramesMax /\ 0 <= capacity /\ 0 <= MaxStack
      BY <1>10, BasicFacts, NatAssumption
    <3>. QED BY <1>3, <1>10, <2>3, <2>7, <3>1 DEF TypeOK
  <2>9. CapturesPending' /\ FaultNeedsStale'
    BY <1>1, <1>10 DEF CapturesPending, FaultNeedsStale, IInv
  <2>. QED BY <2>4, <2>7, <2>8, <2>9 DEF IInv
<1>. QED BY <1>8, <1>9, <1>10 DEF Return

LEMMA RuntimeErrorStep ==
  ASSUME IInv, RuntimeError
  PROVE  IInv'
<1>1. /\ Errors /\ frames # <<>> /\ todo = 0 /\ ~fault
      /\ capacity' = 0 /\ stack' = <<>> /\ frames' = <<>> /\ open' = <<>>
      /\ stale' = stale \union Range(open)
      /\ UNCHANGED <<base, loc, closed, upvalues, todo, glob, fault>>
  BY DEF RuntimeError, Running
<1>2. Range(open') = {} /\ Range(open) \subseteq Up
  BY <1>1, BasicFacts DEF Range, TypeOK
<1>3. TypeOK' /\ Len(stack') <= MaxStack
  <2>1. /\ stack' \in Seq(Value) /\ Len(stack') = 0 /\ frames' \in Seq(FrameType)
        /\ Len(frames') <= FramesMax /\ open' \in Seq(Up) /\ IsInjective(open')
    BY <1>1, NatAssumption DEF IsInjective
  <2>. QED BY <1>1, <1>2, <2>1, BasicFacts, NatAssumption DEF TypeOK
<1>4. WindowsOf(base', stack', frames')
  BY <1>1 DEF WindowsOf
<1>5. Order'
  <2>1. OpenDescending' /\ OpenAddresses' /\ OpenCaptured' /\ StaleLeft'
    BY <1>1, <1>2 DEF OpenDescending, OpenAddresses, OpenCaptured, StaleLeft, OneBase
  <2>2. Created' \subseteq Created
    BY <1>1, <1>2 DEF Created
  <2>. QED BY <1>1, <2>1, <2>2, BasicFacts DEF Order, OpenListed
<1>6. CapturesPending' /\ FaultNeedsStale'
  BY <1>1 DEF CapturesPending, FaultNeedsStale
<1>. QED BY <1>3, <1>4, <1>5, <1>6 DEF IInv

-----------------------------------------------------------------------------
(***************************************************************************)
(* The invariant, and what follows from it.                                *)
(***************************************************************************)

LEMMA InitInv ==
  ASSUME Init
  PROVE  IInv
<1>. USE DEF Init
<1>1. Range(open) = {} /\ Created = {}
  BY DEF Created, Range
<1>2. TypeOK /\ Len(stack) <= MaxStack
  <2>1. stack \in Seq(Value) /\ Len(stack) = 0 /\ frames \in Seq(FrameType) /\ Len(frames) = 0
    OBVIOUS
  <2>2. open \in Seq(Up) /\ IsInjective(open)
    BY DEF IsInjective
  <2>3. loc \in [Up -> Int] /\ closed \in [Up -> Value] /\ glob \in Value
    BY DEF Closed, Value
  <2>4. upvalues \in [Clo \union {Script} -> Seq(Up)]
    OBVIOUS
  <2>5. /\ base \in Bases /\ capacity \in Nat /\ todo \in 0..MaxCaptures
        /\ 0 <= capacity /\ 0 <= FramesMax /\ 0 <= MaxStack
    BY NatAssumption
  <2>6. fault \in BOOLEAN /\ stale \in SUBSET Up
    OBVIOUS
  <2>. QED BY <2>1, <2>2, <2>3, <2>4, <2>5, <2>6, Zenon DEF TypeOK
<1>3. WindowsOf(base, stack, frames)
  BY DEF WindowsOf
<1>4. Order
  BY <1>1 DEF Order, OpenDescending, OpenAddresses, OpenCaptured, OpenListed, StaleLeft
<1>5. CapturesPending /\ FaultNeedsStale
  BY DEF CapturesPending, FaultNeedsStale
<1>. QED BY <1>2, <1>3, <1>4, <1>5 DEF IInv

LEMMA StutterInv ==
  ASSUME IInv, UNCHANGED vars
  PROVE  IInv'
<1>. USE DEF vars, stackVars, upVars
<1>1. TypeOK' /\ Len(stack') <= MaxStack
  BY DEF IInv, TypeOK
<1>2. WindowsOf(base', stack', frames')
  BY DEF IInv
<1>3. Order'
  BY DEF IInv, Order, OpenDescending, OpenAddresses, OpenCaptured, SlotAt, OpenListed,
     Created, StaleLeft, OneBase
<1>4. CapturesPending' /\ FaultNeedsStale'
  BY DEF IInv, CapturesPending, Top, FaultNeedsStale
<1>. QED BY <1>1, <1>2, <1>3, <1>4 DEF IInv

LEMMA StepInv ==
  ASSUME IInv, [Next]_vars
  PROVE  IInv'
<1>1. CASE UNCHANGED vars
  BY <1>1, StutterInv
<1>2. CASE \/ \E v \in Val : Constant(v)
           \/ \E i \in 1..MaxStack : GetLocal(i)
           \/ \E k \in 1..MaxCaptures : GetUpvalue(k)
           \/ GetGlobal
  BY <1>2, ReadStep
<1>3. CASE \/ \E i \in 1..MaxStack : SetLocal(i)
           \/ \E k \in 1..MaxCaptures : SetUpvalue(k)
           \/ SetGlobal
  BY <1>3, AssignmentStep
<1>4. CASE Interpret
  BY <1>4, InterpretStep
<1>5. CASE PopOperand
  BY <1>5, PopStep
<1>6. CASE EndScope
  BY <1>6, EndScopeStep
<1>7. CASE Return
  BY <1>7, ReturnStep
<1>8. CASE RuntimeError
  BY <1>8, RuntimeErrorStep
<1>9. ASSUME NEW i \in 1..MaxStack, CaptureLocal(i) PROVE IInv'
  BY <1>9, CaptureLocalStep
<1>10. ASSUME NEW k \in 1..MaxCaptures, CaptureOuter(k) PROVE IInv'
  BY <1>10, CaptureOuterStep
<1>11. ASSUME NEW captured \in BOOLEAN, DeclareLocal(captured) PROVE IInv'
  BY <1>11, DeclareStep
<1>12. ASSUME NEW f \in Clo, NEW n \in 0..MaxCaptures, NEW ls \in {<<>>, <<TRUE>>, <<FALSE>>},
              Closure(f, n, ls)
       PROVE  IInv'
  BY <1>12, ClosureStep
<1>13. ASSUME NEW n \in 0..MaxArity, NEW ls \in [1..n -> BOOLEAN], Call(n, ls) PROVE IInv'
  BY <1>13, CallStep
<1>. QED BY <1>1, <1>2, <1>3, <1>4, <1>5, <1>6, <1>7, <1>8, <1>9, <1>10, <1>11, <1>12, <1>13,
            Zenon DEF Next

\* The strengthened invariant: with the types and the windows, where the upvalues
\* that are open point to, and when one of them can be stale.
THEOREM InductiveInvariant == Spec => []IInv
<1>1. Init => IInv
  BY InitInv
<1>2. IInv /\ [Next]_vars => IInv'
  BY StepInv
<1>. QED BY <1>1, <1>2, PTL DEF Spec

\* Every variable has its type, the stack never outgrows its capacity, and no
\* upvalue is in the open list twice.
THEOREM TypeCorrect == Spec => []TypeOK
<1>1. IInv => TypeOK
  BY DEF IInv
<1>. QED BY <1>1, InductiveInvariant, PTL

\* Each call's window lies above those of its callers, begins with its closure and
\* holds its variables, however often push has moved the stack.
THEOREM WindowsHold == Spec => []FrameWindows
<1>1. ASSUME IInv PROVE FrameWindows
  <2>1. SUFFICES ASSUME NEW k \in 1..Len(frames)
                 PROVE  /\ SlotOf(frames[k], base) \in 1..Len(stack)
                        /\ stack[SlotOf(frames[k], base)] = frames[k].closure
                        /\ SlotOf(frames[k], base) + Len(frames[k].locals) - 1 <=
                             (IF k = Len(frames) THEN Len(stack)
                                ELSE SlotOf(frames[k + 1], base) - 1)
    BY DEF FrameWindows, SlotAt, SlotOf
  <2>2. /\ SlotOf(frames[k], base) \in Int /\ Len(frames[k].locals) \in Nat
        /\ Len(stack) \in Nat /\ base \in Int
    BY <1>1, BasicFacts, FrameNumbers
  <2>3. /\ SlotOf(frames[k], base) >= 1 /\ Len(frames[k].locals) >= 1
        /\ SlotOf(frames[k], base) + Len(frames[k].locals) - 1 <= Len(stack)
        /\ stack[SlotOf(frames[k], base)] = frames[k].closure
    BY <1>1, BasicFacts DEF WindowsOf
  <2>4. ASSUME k # Len(frames)
        PROVE  SlotOf(frames[k], base) + Len(frames[k].locals) - 1 <= SlotOf(frames[k + 1], base) - 1
    <3>1. k + 1 \in 1..Len(frames) /\ k \in 1..((k + 1) - 1)
      BY <1>1, <2>4, BasicFacts
    <3>2. SlotOf(frames[k], base) + Len(frames[k].locals) <= SlotOf(frames[k + 1], base)
      BY <1>1, <3>1, BasicFacts DEF WindowsOf
    <3>3. SlotOf(frames[k + 1], base) \in Int
      BY <1>1, <2>2, <3>1, BasicFacts, FrameNumbers
    <3>. QED BY <2>2, <3>2, <3>3
  <2>. QED BY <2>2, <2>3, <2>4
<1>. QED BY <1>1, InductiveInvariant, PTL

\* The open list is in the order in which close_upvalues stops at the first
\* upvalue below its argument.
THEOREM ListInOrder == Spec => []OpenDescending
<1>1. IInv => OpenDescending
  BY DEF IInv, Order
<1>. QED BY <1>1, InductiveInvariant, PTL

\* An upvalue goes astray only when the stack moves or is freed while it is open.
THEOREM AstrayOnlyIfStale == Spec => []LocatedUnlessStale
<1>1. ASSUME IInv PROVE LocatedUnlessStale
  BY <1>1, ReadableUnlessStale DEF LocatedUnlessStale
<1>. QED BY <1>1, InductiveInvariant, PTL

\* Memory that is not a variable's is used only after such an upvalue went astray.
THEOREM FaultOnlyIfStale == Spec => [](fault => stale # {})
<1>1. IInv => (fault => stale # {})
  BY DEF IInv, FaultNeedsStale
<1>. QED BY <1>1, InductiveInvariant, PTL

\* Without runtime errors, which make clear_stack forget the list, every upvalue
\* that is not closed is in the list, and no two stand for one variable.
THEOREM ListComplete ==
  ASSUME Errors = FALSE
  PROVE  Spec => []OpenComplete
<1>1. ASSUME IInv PROVE OpenComplete
  <2>1. \A u \in Created : loc[u] # Closed => u \in Range(open)
    BY <1>1, BasicFacts DEF Order, OpenListed
  <2>2. \A u \in Range(open) : u \in Created /\ loc[u] # Closed
    BY <1>1, BasicFacts DEF Created, Order, OpenAddresses, Closed
  <2>3. ASSUME NEW u \in Range(open), NEW w \in Range(open), loc[u] = loc[w] PROVE u = w
    <3>1. open \in Seq(Up) /\ loc \in [Up -> Int] /\ TypeOK /\ OpenDescending
      BY <1>1, BasicFacts DEF Order, TypeOK
    <3>2. PICK i \in 1..Len(open), j \in 1..Len(open) : u = open[i] /\ w = open[j]
      BY <3>1 DEF Range
    <3>3. ~(i < j) /\ ~(j < i)
      BY <2>3, <3>1, <3>2, OrderedThroughout
    <3>. QED BY <3>2, <3>3
  <2>. QED BY <2>1, <2>2, <2>3 DEF OpenComplete
<1>. QED BY <1>1, InductiveInvariant, PTL

\* If realloc leaves the stack where it is, nothing is left over when the
\* top-level code ends, by itself or with a runtime error.
THEOREM NothingRemains ==
  ASSUME OneBase
  PROVE  Spec => []NothingLeftOver
<1>1. ASSUME IInv PROVE NothingLeftOver
  <2>1. SUFFICES ASSUME frames = <<>> PROVE stack = <<>> /\ open = <<>>
    BY DEF NothingLeftOver
  <2>2. \A p : ~IsCaptured(base, frames, p)
    BY <2>1 DEF IsCaptured
  <2>3. Range(open) = {}
    BY <1>1, <2>2, BasicFacts DEF Order, OpenCaptured, StaleLeft
  <2>4. open = <<>>
    <3>1. open \in Seq(Up) /\ Len(open) \in Nat /\ DOMAIN open = 1..Len(open)
      BY <1>1, BasicFacts DEF TypeOK
    <3>2. \A i \in 1..Len(open) : open[i] \in Range(open)
      BY <3>1 DEF Range
    <3>3. 1 \notin 1..Len(open)
      BY <2>3, <3>2
    <3>4. Len(open) = 0
      BY <3>1, <3>3
    <3>. QED BY <3>1, <3>4
  <2>. QED BY <1>1, <2>1, <2>4, BasicFacts DEF WindowsOf
<1>. QED BY <1>1, InductiveInvariant, PTL

\* If, besides, there are no runtime errors, captured variables can be read and
\* written for as long as a closure has them.
THEOREM CapturesUsable ==
  ASSUME OneBase, Errors = FALSE
  PROVE  Spec => []CapturedReadable
<1>1. IInv => CapturedReadable
  BY DEF IInv, Order, StaleLeft, FaultNeedsStale, CapturedReadable
<1>. QED BY <1>1, InductiveInvariant, PTL

-----------------------------------------------------------------------------
(***************************************************************************)
(* Upvalues implements LexicalScope, step by step, when the stack stays    *)
(* where it is and no program has a runtime error.  An open upvalue is the *)
(* box of the slot it points to, a closed one the box of its value; "Seen" *)
(* says so of a state, SeenBelow what a step that touches only the top of  *)
(* the stack leaves of it, and a lemma for each action which step of       *)
(* LexicalScope it is.                                                     *)
(***************************************************************************)

\* The stack stays where it is, and no program has a runtime error: upvalues are
\* never stale.
Ideal == IInv /\ OneBase /\ Errors = FALSE

\* Slot i is the variable of no open upvalue.
Plain(i) == \A u \in Range(open) : SlotAt(loc[u]) # i

\* What LexicalScope sees of a state.
Seen ==
  /\ ScopeBar \in Seq(Value \union Up) /\ Len(ScopeBar) = Len(stack)
  /\ \A u \in Range(open) :
       /\ u \in Created /\ loc[u] # Closed /\ loc[u] \in Int
       /\ SlotAt(loc[u]) \in 2..Len(stack)
       /\ IsCaptured(base, frames, SlotAt(loc[u])) /\ ScopeBar[SlotAt(loc[u])] = u
  /\ \A i \in 1..Len(stack) : Plain(i) => ScopeBar[i] = stack[i]
  /\ \A u \in Created : /\ u \in Up /\ Readable(u) /\ u \notin stale /\ Deref(u) \in Value
                        /\ u \notin Range(open) => loc[u] = Closed
  /\ StoreBar = [u \in Created |-> StoreBar[u]]
  /\ \A u \in Created : StoreBar[u] = Deref(u)
  /\ FirstBar \in Seq(Int) /\ Len(FirstBar) = Len(frames)
  /\ \A k \in 1..Len(frames) : FirstBar[k] = SlotOf(frames[k], base)
  /\ RunningBar \in Seq(Clo \union {Script}) /\ Len(RunningBar) = Len(frames)
  /\ \A k \in 1..Len(frames) : RunningBar[k] = frames[k].closure

LEMMA IdealBasics ==
  ASSUME Ideal
  PROVE  /\ IInv /\ TypeOK /\ OpenDescending /\ base \in Int
         /\ open \in Seq(Up) /\ loc \in [Up -> Int] /\ stale = {} /\ fault = FALSE
         /\ stack \in Seq(Value) /\ Len(stack) \in Nat /\ DOMAIN stack = 1..Len(stack)
         /\ frames \in Seq(FrameType) /\ Len(frames) \in Nat /\ DOMAIN frames = 1..Len(frames)
         /\ upvalues \in [Clo \union {Script} -> Seq(Up)]
<1>1. IInv
  BY DEF Ideal
<1>2. stale = {}
  BY DEF Ideal, IInv, Order, StaleLeft
<1>3. OpenDescending /\ TypeOK /\ base \in Int
  BY <1>1, BasicFacts DEF Order
<1>4. fault = FALSE
  BY <1>1, <1>2, <1>3 DEF IInv, FaultNeedsStale, TypeOK
<1>5. /\ open \in Seq(Up) /\ loc \in [Up -> Int]
      /\ stack \in Seq(Value) /\ frames \in Seq(FrameType)
      /\ upvalues \in [Clo \union {Script} -> Seq(Up)]
  BY <1>3 DEF TypeOK
<1>. QED BY <1>1, <1>2, <1>3, <1>4, <1>5

LEMMA SlotIsUpvalue ==
  ASSUME Ideal, NEW u \in Range(open)
  PROVE  /\ u \in Created /\ u \in Up /\ loc[u] # Closed /\ loc[u] \in Int
         /\ SlotAt(loc[u]) \in 2..Len(stack)
         /\ IsCaptured(base, frames, SlotAt(loc[u])) /\ SlotBar(SlotAt(loc[u])) = u
<1>1. /\ IInv /\ open \in Seq(Up) /\ loc \in [Up -> Int] /\ base \in Int /\ TypeOK
      /\ OpenDescending /\ stale = {}
  BY IdealBasics
<1>2. u \in Created /\ u \in Up /\ loc[u] # Closed /\ loc[u] \in Int
  BY <1>1, BasicFacts DEF Created, Range, Order, OpenAddresses, Closed
<1>3. IsCaptured(base, frames, SlotAt(loc[u]))
  BY <1>1, BasicFacts DEF Order, OpenCaptured
<1>4. SlotAt(loc[u]) \in 2..Len(stack)
  BY <1>1, <1>3, BasicFacts, CapturedIsVariable
<1>5. base + SlotAt(loc[u]) - 1 = loc[u]
  BY <1>1, <1>2 DEF SlotAt
<1>6. ASSUME NEW w \in Range(open), loc[w] = loc[u] PROVE w = u
  <2>1. PICK i \in 1..Len(open), j \in 1..Len(open) : u = open[i] /\ w = open[j]
    BY <1>1 DEF Range
  <2>2. ~(i < j) /\ ~(j < i)
    BY <1>1, <1>2, <1>6, <2>1, OrderedThroughout
  <2>. QED BY <2>1, <2>2
<1>7. SlotBar(SlotAt(loc[u])) = u
  BY <1>5, <1>6 DEF SlotBar
<1>. QED BY <1>2, <1>3, <1>4, <1>7

LEMMA IdealSeen == Ideal => Seen
<1>. SUFFICES ASSUME Ideal PROVE Seen
  OBVIOUS
<1>1. /\ IInv /\ open \in Seq(Up) /\ loc \in [Up -> Int] /\ base \in Int /\ TypeOK
      /\ stack \in Seq(Value) /\ Len(stack) \in Nat /\ DOMAIN stack = 1..Len(stack)
      /\ frames \in Seq(FrameType) /\ Len(frames) \in Nat /\ DOMAIN frames = 1..Len(frames)
      /\ stale = {}
  BY IdealBasics
<1>2. \A u \in Created : /\ u \in Up /\ Readable(u) /\ u \notin stale /\ Deref(u) \in Value
                         /\ u \notin Range(open) => loc[u] = Closed
  BY <1>1, CreatedType, ReadableUnlessStale, DerefType
<1>3. ASSUME NEW i \in 1..Len(stack), Plain(i) PROVE SlotBar(i) = stack[i]
  <2>1. \A u \in Range(open) : loc[u] # base + i - 1
    <3>1. SUFFICES ASSUME NEW u \in Range(open), loc[u] = base + i - 1 PROVE FALSE
      OBVIOUS
    <3>2. SlotAt(loc[u]) = i
      BY <1>1, <3>1 DEF SlotAt
    <3>. QED BY <1>3, <3>2 DEF Plain
  <2>. QED BY <2>1 DEF SlotBar
<1>4. ASSUME NEW i \in 1..Len(stack) PROVE SlotBar(i) \in Value \union Up
  <2>1. CASE Plain(i)
    BY <1>1, <1>3, <2>1
  <2>2. CASE ~Plain(i)
    BY <2>2, SlotIsUpvalue DEF Plain
  <2>. QED BY <2>1, <2>2
<1>5. /\ ScopeBar \in Seq(Value \union Up) /\ Len(ScopeBar) = Len(stack)
      /\ \A i \in 1..Len(stack) : ScopeBar[i] = SlotBar(i)
  BY <1>1, <1>4 DEF ScopeBar
<1>6. ASSUME NEW u \in Range(open)
      PROVE  /\ u \in Created /\ loc[u] # Closed /\ loc[u] \in Int
             /\ SlotAt(loc[u]) \in 2..Len(stack)
             /\ IsCaptured(base, frames, SlotAt(loc[u])) /\ ScopeBar[SlotAt(loc[u])] = u
  BY <1>1, <1>5, SlotIsUpvalue
<1>7. StoreBar = [u \in Created |-> StoreBar[u]] /\ \A u \in Created : StoreBar[u] = Deref(u)
  BY <1>2 DEF StoreBar
<1>8. /\ FirstBar \in Seq(Int) /\ Len(FirstBar) = Len(frames)
      /\ \A k \in 1..Len(frames) : FirstBar[k] = SlotOf(frames[k], base)
  <2>1. \A k \in 1..Len(frames) :
          SlotAt(frames[k].slots) = SlotOf(frames[k], base) /\ SlotAt(frames[k].slots) \in Int
    BY <1>1, FrameFields DEF SlotAt, SlotOf
  <2>. QED BY <1>1, <2>1 DEF FirstBar
<1>9. /\ RunningBar \in Seq(Clo \union {Script}) /\ Len(RunningBar) = Len(frames)
      /\ \A k \in 1..Len(frames) : RunningBar[k] = frames[k].closure
  <2>1. \A k \in 1..Len(frames) : frames[k].closure \in Clo \union {Script}
    BY <1>1, FrameFields
  <2>. QED BY <1>1, <2>1 DEF RunningBar
<1>. QED BY <1>2, <1>3, <1>5, <1>6, <1>7, <1>8, <1>9 DEF Seen

LEMMA NextSeen == Ideal' => Seen'
BY IdealSeen, PTL

\* What the operators of LexicalScope come to.
LEMMA LexicalSeen ==
  ASSUME Ideal
  PROVE  /\ \A i \in 1..Len(stack) : Lexical!Get(ScopeBar[i]) = stack[i]
         /\ \A u \in Created : Lexical!Get(u) = Deref(u)
         /\ DOMAIN StoreBar = Created
<1>1. Seen /\ stack \in Seq(Value) /\ base \in Int
  BY IdealSeen, IdealBasics
<1>2. DOMAIN StoreBar = Created
  BY <1>1 DEF Seen
<1>3. \A u \in Created : Lexical!Get(u) = Deref(u)
  BY <1>1 DEF Seen, Lexical!Get
<1>4. ASSUME NEW i \in 1..Len(stack) PROVE Lexical!Get(ScopeBar[i]) = stack[i]
  <2>1. CASE Plain(i)
    <3>1. ScopeBar[i] = stack[i] /\ stack[i] \in Value
      BY <1>1, <2>1 DEF Seen
    <3>2. stack[i] \notin Up
      BY <3>1, UpvalueAssumption DEF Value
    <3>. QED BY <3>1, <3>2 DEF Lexical!Get
  <2>2. CASE ~Plain(i)
    <3>1. PICK u \in Range(open) : SlotAt(loc[u]) = i
      BY <2>2 DEF Plain
    <3>2. /\ u \in Created /\ loc[u] # Closed /\ ScopeBar[SlotAt(loc[u])] = u
      BY <1>1, <3>1 DEF Seen
    <3>3. Lexical!Get(u) = Deref(u)
      BY <1>3, <3>2
    <3>4. Deref(u) = stack[i]
      BY <3>1, <3>2 DEF Deref
    <3>. QED BY <3>1, <3>2, <3>3, <3>4
  <2>. QED BY <2>1, <2>2
<1>. QED BY <1>2, <1>3, <1>4

BoxesAreCreated == Lexical!BoxesInUse = Created

LEMMA BoxesSeen == Ideal => BoxesAreCreated
<1>. SUFFICES ASSUME Ideal PROVE BoxesAreCreated
  OBVIOUS
<1>1. Seen /\ stack \in Seq(Value) /\ Len(stack) \in Nat
  BY IdealSeen, IdealBasics
<1>2. DOMAIN ScopeBar = 1..Len(stack)
  BY <1>1 DEF Seen
<1>3. ASSUME NEW x \in Up PROVE x \in Range(ScopeBar) <=> x \in Range(open)
  <2>1. ASSUME x \in Range(ScopeBar) PROVE x \in Range(open)
    <3>1. PICK i \in 1..Len(stack) : x = ScopeBar[i]
      BY <1>2, <2>1 DEF Range
    <3>2. ~Plain(i)
      <4>1. stack[i] \in Value
        BY <1>1
      <4>2. stack[i] \notin Up
        BY <4>1, UpvalueAssumption DEF Value
      <4>. QED BY <1>1, <3>1, <4>2 DEF Seen
    <3>. QED BY <1>1, <3>1, <3>2 DEF Seen, Plain
  <2>2. ASSUME x \in Range(open) PROVE x \in Range(ScopeBar)
    <3>1. SlotAt(loc[x]) \in 2..Len(stack) /\ ScopeBar[SlotAt(loc[x])] = x
      BY <1>1, <2>2 DEF Seen
    <3>2. SlotAt(loc[x]) \in DOMAIN ScopeBar
      BY <1>2, <3>1
    <3>. QED BY <3>1, <3>2 DEF Range
  <2>. QED BY <2>1, <2>2
<1>4. Range(open) \subseteq Up
  BY IdealBasics DEF Range
<1>5. Range(ScopeBar) \intersect Up = Range(open)
  BY <1>3, <1>4
<1>. QED BY <1>5 DEF BoxesAreCreated, Lexical!BoxesInUse, Lexical!Range, Range, Created

LEMMA NextBoxesSeen == Ideal' => BoxesAreCreated'
BY BoxesSeen, PTL

\* The types in the next state.
LEMMA NextBasics ==
  ASSUME Ideal'
  PROVE  /\ TypeOK' /\ base' \in Int /\ stack' \in Seq(Value) /\ Len(stack') \in Nat
         /\ frames' \in Seq(FrameType) /\ Len(frames') \in Nat
<1>1. TypeOK'
  BY DEF Ideal, IInv
<1>. QED BY <1>1, NatAssumption DEF TypeOK

LEMMA BaseStays ==
  ASSUME Ideal, Ideal'
  PROVE  base' = base
BY DEF Ideal, IInv, TypeOK, OneBase

\* What is seen of the first n slots, and of the upvalues that remain, when nothing
\* happens to them but that the upvalues of the slots above are closed.
LEMMA SeenBelow ==
  ASSUME Ideal, Ideal', NEW n \in 0..Len(stack), n <= Len(stack'),
         \A i \in 1..n : stack'[i] = stack[i],
         \A u : u \in Range(open') <=> u \in Range(open) /\ SlotAt(loc[u]) <= n,
         \A u \in Range(open') : loc'[u] = loc[u],
         Created' \subseteq Created,
         \A u \in Created' : u \notin Range(open') => closed'[u] = Deref(u)
  PROVE  /\ \A i \in 1..n : ScopeBar'[i] = ScopeBar[i]
         /\ \A i \in (n + 1)..Len(stack') : ScopeBar'[i] = stack'[i]
         /\ \A u \in Created' : Deref(u)' = Deref(u)
<1>1. Seen /\ Seen' /\ base' = base /\ base \in Int /\ Len(stack) \in Nat /\ Len(stack') \in Nat
  BY IdealSeen, NextSeen, BaseStays, IdealBasics, NextBasics
<1>2. ASSUME NEW u \in Range(open')
      PROVE  /\ u \in Range(open) /\ loc'[u] = loc[u] /\ loc[u] # Closed
             /\ SlotAt(loc[u])' = SlotAt(loc[u]) /\ SlotAt(loc[u]) \in 1..n
  BY <1>1 DEF Seen, SlotAt
<1>3. ASSUME NEW i \in 1..n PROVE ScopeBar'[i] = ScopeBar[i]
  <2>1. CASE Plain(i)
    <3>1. Plain(i)'
      BY <1>2, <2>1 DEF Plain
    <3>. QED BY <1>1, <2>1, <3>1 DEF Seen
  <2>2. CASE ~Plain(i)
    <3>1. PICK u \in Range(open) : SlotAt(loc[u]) = i
      BY <2>2 DEF Plain
    <3>2. u \in Range(open') /\ SlotAt(loc[u])' = i
      BY <1>2, <3>1
    <3>. QED BY <1>1, <3>1, <3>2 DEF Seen
  <2>. QED BY <2>1, <2>2
<1>4. ASSUME NEW i \in (n + 1)..Len(stack') PROVE ScopeBar'[i] = stack'[i]
  <2>1. i \in 1..Len(stack') /\ ~(i <= n)
    BY <1>1
  <2>2. Plain(i)'
    BY <1>2, <2>1 DEF Plain
  <2>. QED BY <1>1, <2>1, <2>2 DEF Seen
<1>5. ASSUME NEW u \in Created' PROVE Deref(u)' = Deref(u)
  <2>1. CASE u \in Range(open')
    BY <1>2, <2>1 DEF Deref
  <2>2. CASE u \notin Range(open')
    BY <1>1, <2>2 DEF Seen, Deref
  <2>. QED BY <2>1, <2>2
<1>. QED BY <1>3, <1>4, <1>5

\* The boxes keep their values, or those that are still in use do.
LEMMA StoreStays ==
  ASSUME Ideal, Ideal', Created' = Created, \A u \in Created : Deref(u)' = Deref(u)
  PROVE  StoreBar' = StoreBar
<1>1. Seen /\ Seen'
  BY IdealSeen, NextSeen
<1>2. /\ StoreBar = [u \in Created |-> Deref(u)]
      /\ StoreBar' = [u \in Created' |-> Deref(u)']
  BY <1>1 DEF Seen
<1>. QED BY <1>2

LEMMA StoreShrinks ==
  ASSUME Ideal, Ideal', Created' \subseteq Created, \A u \in Created' : Deref(u)' = Deref(u)
  PROVE  Lexical!Store(StoreBar)
<1>1. Seen /\ Seen' /\ Lexical!BoxesInUse' = Created'
  BY IdealSeen, NextSeen, NextBoxesSeen DEF BoxesAreCreated
<1>2. StoreBar' = [u \in Created' |-> Deref(u)']
  BY <1>1 DEF Seen
<1>3. \A u \in Created' : Deref(u)' = StoreBar[u]
  BY <1>1 DEF Seen
<1>4. StoreBar' = [u \in Created' |-> StoreBar[u]]
  BY <1>2, <1>3
<1>. QED BY <1>1, <1>4 DEF Lexical!Store

LEMMA StorePuts ==
  ASSUME Ideal, Ideal', NEW u \in Up, Created' = Created \union {u}, NEW v, Deref(u)' = v,
         \A w \in Created : w # u => Deref(w)' = Deref(w)
  PROVE  StoreBar' = Lexical!Put(u, v)
<1>1. Seen /\ Seen' /\ DOMAIN StoreBar = Created
  BY IdealSeen, NextSeen, LexicalSeen
<1>2. StoreBar' = [w \in Created' |-> Deref(w)']
  BY <1>1 DEF Seen
<1>3. ASSUME NEW w \in Created' PROVE Deref(w)' = IF w = u THEN v ELSE StoreBar[w]
  BY <1>1, <1>3 DEF Seen
<1>4. StoreBar' = [w \in Created' |-> IF w = u THEN v ELSE StoreBar[w]]
  BY <1>2, <1>3
<1>. QED BY <1>1, <1>4 DEF Lexical!Put

LEMMA CallsStay ==
  ASSUME Ideal, Ideal', Len(frames') = Len(frames),
         \A k \in 1..Len(frames) : /\ SlotOf(frames'[k], base') = SlotOf(frames[k], base)
                                   /\ frames'[k].closure = frames[k].closure
  PROVE  FirstBar' = FirstBar /\ RunningBar' = RunningBar
<1>1. Seen /\ Seen'
  BY IdealSeen, NextSeen
<1>2. Len(FirstBar') = Len(FirstBar) /\ \A k \in 1..Len(FirstBar') : FirstBar'[k] = FirstBar[k]
  BY <1>1 DEF Seen
<1>3. Len(RunningBar') = Len(RunningBar)
      /\ \A k \in 1..Len(RunningBar') : RunningBar'[k] = RunningBar[k]
  BY <1>1 DEF Seen
<1>4. FirstBar \in Seq(Int) /\ FirstBar' \in Seq(Int)
  BY <1>1 DEF Seen
<1>5. RunningBar \in Seq(Clo \union {Script}) /\ RunningBar' \in Seq(Clo \union {Script})
  BY <1>1 DEF Seen
<1>6. FirstBar' = FirstBar
  BY <1>2, <1>4, SameSeq
<1>7. RunningBar' = RunningBar
  BY <1>3, <1>5, SameSeq
<1>. QED BY <1>6, <1>7

\* The running call.
LEMMA RunningSeen ==
  ASSUME Ideal, frames # <<>>
  PROVE  /\ FirstBar # <<>> /\ FirstBar[Len(FirstBar)] = FirstSlot
         /\ FirstSlot \in 1..Len(stack) /\ Len(ScopeBar) = Len(stack)
         /\ Lexical!Last = Top /\ Top \in Value
         /\ Lexical!Kept = upvalues[Frame.closure]
<1>1. Seen /\ IInv /\ stack \in Seq(Value) /\ Len(stack) \in Nat
  BY IdealSeen, IdealBasics
<1>2. /\ Frame = frames[Len(frames)] /\ Len(frames) \in Nat /\ Len(frames) >= 1
      /\ FirstSlot = SlotOf(Frame, base) /\ FirstSlot \in 1..Len(stack)
  BY <1>1, FrameFacts
<1>3. Len(frames) \in 1..Len(frames) /\ Len(stack) \in 1..Len(stack)
  BY <1>1, <1>2
<1>4. /\ FirstBar # <<>> /\ FirstBar[Len(FirstBar)] = FirstSlot
      /\ RunningBar[Len(RunningBar)] = Frame.closure
  BY <1>1, <1>2, <1>3 DEF Seen
<1>5. Lexical!Last = Top /\ Top \in Value
  BY <1>1, <1>3, LexicalSeen DEF Lexical!Last, Top, Seen
<1>6. Len(ScopeBar) = Len(stack)
  BY <1>1 DEF Seen
<1>. QED BY <1>2, <1>4, <1>5, <1>6 DEF Lexical!Kept

LEMMA AppendedRange ==
  ASSUME NEW seq \in Seq(Up), NEW u \in Up
  PROVE  \A w : w \in Range(Append(seq, u)) <=> w \in Range(seq) \/ w = u
<1>1. /\ Append(seq, u) \in Seq(Up) /\ Len(Append(seq, u)) = Len(seq) + 1 /\ Len(seq) \in Nat
      /\ \A i \in 1..Len(seq) : Append(seq, u)[i] = seq[i]
      /\ Append(seq, u)[Len(seq) + 1] = u
  OBVIOUS
<1>. QED BY <1>1 DEF Range

\* An upvalue more in a closure is at most an upvalue more.
LEMMA CreatedGrows ==
  ASSUME NEW f \in DOMAIN upvalues, NEW u \in Up, upvalues[f] \in Seq(Up),
         upvalues' = [upvalues EXCEPT ![f] = Append(@, u)], DOMAIN upvalues' = DOMAIN upvalues,
         \A w : w \in Range(open) => w \in Range(open'),
         \A w : w \in Range(open') => w \in Range(open) \/ w = u
  PROVE  Created' = Created \union {u}
<1>1. ASSUME NEW g \in DOMAIN upvalues, g # f PROVE upvalues'[g] = upvalues[g]
  BY <1>1
<1>2. \A w : w \in Range(upvalues'[f]) <=> w \in Range(upvalues[f]) \/ w = u
  <2>1. upvalues'[f] = Append(upvalues[f], u)
    OBVIOUS
  <2>. QED BY <2>1, AppendedRange
<1>3. \A w : w \in Created' <=> w \in Created \/ w = u
  BY <1>1, <1>2 DEF Created
<1>. QED BY <1>3

\* A value is pushed; the calls run the same closures at the same slots.
LEMMA PushSeen ==
  ASSUME Ideal, Ideal', NEW fs \in Seq(FrameType), NEW v \in Value, Push(Len(stack), fs, v),
         Len(fs) = Len(frames),
         \A k \in 1..Len(frames) : /\ fs[k].slots = frames[k].slots
                                   /\ fs[k].closure = frames[k].closure,
         UNCHANGED <<open, loc, closed>>, Created' \subseteq Created
  PROVE  /\ ScopeBar' = Append(ScopeBar, v)
         /\ FirstBar' = FirstBar /\ RunningBar' = RunningBar
         /\ \A u \in Created' : Deref(u)' = Deref(u)
<1>1. /\ Seen /\ Seen' /\ TypeOK
      /\ stack \in Seq(Value) /\ Len(stack) \in Nat /\ Len(stack) \in 0..Len(stack)
  BY IdealSeen, NextSeen, IdealBasics
<1>2. /\ Len(stack') = Len(stack) + 1 /\ stack'[Len(stack) + 1] = v
      /\ \A i \in 1..Len(stack) : stack'[i] = stack[i]
      /\ SameCalls(base, fs, base', frames')
  BY <1>1, PushEffect
<1>3. \A u : u \in Range(open') <=> u \in Range(open) /\ SlotAt(loc[u]) <= Len(stack)
  BY <1>1 DEF Seen
<1>4. \A u \in Range(open') : loc'[u] = loc[u]
  OBVIOUS
<1>5. \A u \in Created' : u \notin Range(open') => closed'[u] = Deref(u)
  BY <1>1 DEF Seen, Deref
<1>6. /\ \A i \in 1..Len(stack) : ScopeBar'[i] = ScopeBar[i]
      /\ \A i \in (Len(stack) + 1)..Len(stack') : ScopeBar'[i] = stack'[i]
      /\ \A u \in Created' : Deref(u)' = Deref(u)
  <2>1. Len(stack) <= Len(stack')
    BY <1>1, <1>2
  <2>. QED BY <1>1, <1>2, <1>3, <1>4, <1>5, <2>1, SeenBelow
<1>7. ScopeBar' = Append(ScopeBar, v)
  <2>1. /\ ScopeBar \in Seq(Value \union Up) /\ Len(ScopeBar) = Len(stack)
        /\ ScopeBar' \in Seq(Value \union Up) /\ Len(ScopeBar') = Len(stack')
    BY <1>1 DEF Seen
  <2>2. ScopeBar'[Len(stack) + 1] = v
    BY <1>1, <1>2, <1>6
  <2>3. /\ Append(ScopeBar, v) \in Seq(Value \union Up) /\ Len(Append(ScopeBar, v)) = Len(ScopeBar')
        /\ \A i \in 1..Len(ScopeBar') : ScopeBar'[i] = Append(ScopeBar, v)[i]
    BY <1>1, <1>2, <1>6, <2>1, <2>2
  <2>. QED BY <2>1, <2>3, SameSeq
<1>8. \A k \in 1..Len(frames) : SlotOf(fs[k], base) = SlotOf(frames[k], base)
  BY DEF SlotOf
<1>9. Len(frames') = Len(frames)
      /\ \A k \in 1..Len(frames) : /\ SlotOf(frames'[k], base') = SlotOf(frames[k], base)
                                   /\ frames'[k].closure = frames[k].closure
  BY <1>2, <1>8 DEF SameCalls
<1>. QED BY <1>6, <1>7, <1>9, CallsStay

LEMMA EvaluateSeen ==
  ASSUME Ideal, Ideal', Running, NEW v \in Value, Push(Len(stack), frames, v),
         UNCHANGED <<upVars, todo, glob, fault>>,
         v \in Val \union {glob}
           \union {Lexical!Get(x) : x \in Range(ScopeBar) \union Range(Lexical!Kept)}
  PROVE  Lexical!Next
<1>1. /\ frames # <<>> /\ frames \in Seq(FrameType) /\ UNCHANGED <<open, loc, closed, upvalues>>
  BY IdealBasics DEF Running, upVars
<1>2. Created' = Created
  BY <1>1, CreatedStays
<1>3. /\ ScopeBar' = Append(ScopeBar, v) /\ FirstBar' = FirstBar /\ RunningBar' = RunningBar
      /\ \A u \in Created' : Deref(u)' = Deref(u)
  BY <1>1, <1>2, PushSeen
<1>4. StoreBar' = StoreBar
  BY <1>2, <1>3, StoreStays
<1>5. FirstBar # <<>>
  BY <1>1, RunningSeen
<1>6. Lexical!Evaluate(v)
  BY <1>1, <1>3, <1>4, <1>5 DEF Lexical!Evaluate, Lexical!Range, Range
<1>. QED BY <1>6 DEF Lexical!Next, Lexical!Value, Value

LEMMA ReadSeen ==
  ASSUME Ideal, Ideal',
         \/ \E v \in Val : Constant(v)
         \/ \E i \in 1..MaxStack : GetLocal(i)
         \/ \E k \in 1..MaxCaptures : GetUpvalue(k)
         \/ GetGlobal
  PROVE  Lexical!Next
<1>0. Seen /\ IInv /\ TypeOK /\ stack \in Seq(Value) /\ Len(stack) \in Nat
  BY IdealSeen, IdealBasics
<1>1. ASSUME NEW v \in Val, Constant(v) PROVE Lexical!Next
  BY <1>1, EvaluateSeen DEF Constant, Value
<1>2. ASSUME NEW i \in 1..MaxStack, GetLocal(i) PROVE Lexical!Next
  <2>. DEFINE p == FirstSlot + i - 1
  <2>1. /\ Running /\ frames # <<>> /\ i \in 2..Len(Frame.locals)
        /\ Push(Len(stack), frames, stack[p]) /\ UNCHANGED <<upVars, todo, glob, fault>>
    BY <1>2 DEF GetLocal, Running
  <2>2. p \in 1..Len(stack)
    <3>1. i \in 1..Len(Frame.locals)
      BY <1>0, <2>1, FrameFacts
    <3>. QED BY <1>0, <2>1, <3>1, SlotOfLocal
  <2>. HIDE DEF p
  <2>3. stack[p] \in Value /\ stack[p] = Lexical!Get(ScopeBar[p])
    BY <1>0, <2>2, LexicalSeen
  <2>4. ScopeBar[p] \in Range(ScopeBar)
    BY <1>0, <2>2 DEF Seen, Range
  <2>. QED BY <2>1, <2>3, <2>4, EvaluateSeen
<1>3. ASSUME NEW k \in 1..MaxCaptures, GetUpvalue(k) PROVE Lexical!Next
  <2>. DEFINE u == upvalues[Frame.closure][k]
  <2>1. Running /\ frames # <<>> /\ k \in DOMAIN upvalues[Frame.closure]
    BY <1>3 DEF GetUpvalue, Running
  <2>2. u \in Created
    BY <1>0, <2>1, UpvalueOfFrame
  <2>3. u \in Range(Lexical!Kept)
    <3>1. Lexical!Kept = upvalues[Frame.closure]
      BY <2>1, RunningSeen
    <3>. QED BY <2>1, <3>1 DEF Range
  <2>4. Readable(u) => Push(Len(stack), frames, Deref(u)) /\ UNCHANGED <<upVars, todo, glob, fault>>
    BY <1>3 DEF GetUpvalue
  <2>. HIDE DEF u
  <2>5. Readable(u) /\ Deref(u) \in Value /\ Deref(u) = Lexical!Get(u)
    BY <1>0, <2>2, LexicalSeen DEF Seen
  <2>. QED BY <2>1, <2>3, <2>4, <2>5, EvaluateSeen
<1>4. ASSUME GetGlobal PROVE Lexical!Next
  <2>1. glob \in Value
    BY <1>0 DEF TypeOK
  <2>. QED BY <1>4, <2>1, EvaluateSeen DEF GetGlobal
<1>. QED BY <1>1, <1>2, <1>3, <1>4

\* A slot is assigned that is the variable of no open upvalue, ...
LEMMA AssignPlain ==
  ASSUME Ideal, Ideal', Running, NEW p \in (FirstSlot + 1)..Len(stack), Plain(p),
         stack' = [stack EXCEPT ![p] = Top],
         UNCHANGED <<base, capacity, stale, frames, upVars, todo, glob, fault>>
  PROVE  Lexical!Next
<1>0. /\ Seen /\ Seen' /\ stack \in Seq(Value) /\ Len(stack) \in Nat /\ base \in Int
      /\ frames # <<>> /\ UNCHANGED <<open, loc, closed, upvalues>> /\ UNCHANGED <<base, frames, glob>>
  BY IdealSeen, NextSeen, IdealBasics DEF Running, upVars
<1>1. /\ FirstBar # <<>> /\ FirstBar[Len(FirstBar)] = FirstSlot /\ FirstSlot \in 1..Len(stack)
      /\ Len(ScopeBar) = Len(stack) /\ Lexical!Last = Top /\ Top \in Value
  BY <1>0, RunningSeen
<1>2. p \in 1..Len(stack) /\ p \in FirstSlot + 1..Len(ScopeBar)
  BY <1>1
<1>3. FirstBar' = FirstBar /\ RunningBar' = RunningBar
  BY <1>0 DEF FirstBar, RunningBar, SlotAt
<1>4. /\ Len(stack') = Len(stack)
      /\ \A i \in 1..Len(stack) : stack'[i] = IF i = p THEN Top ELSE stack[i]
  BY <1>0, <1>2
<1>5. ASSUME NEW i \in 1..Len(stack) PROVE ScopeBar'[i] = IF i = p THEN Top ELSE ScopeBar[i]
  <2>1. Plain(i)' <=> Plain(i)
    BY <1>0 DEF Plain, SlotAt
  <2>2. CASE Plain(i)
    BY <1>0, <1>4, <2>1, <2>2 DEF Seen
  <2>3. CASE ~Plain(i)
    <3>1. PICK u \in Range(open) : SlotAt(loc[u]) = i
      BY <2>3 DEF Plain
    <3>2. u \in Range(open') /\ SlotAt(loc[u])' = i /\ i # p
      BY <1>0, <2>3, <3>1 DEF SlotAt
    <3>. QED BY <1>0, <3>1, <3>2 DEF Seen
  <2>. QED BY <2>2, <2>3
<1>6. ScopeBar' = [ScopeBar EXCEPT ![p] = Top]
  <2>1. /\ ScopeBar \in Seq(Value \union Up) /\ ScopeBar' \in Seq(Value \union Up)
        /\ Len(ScopeBar) = Len(stack) /\ Len(ScopeBar') = Len(stack)
    BY <1>0, <1>4 DEF Seen
  <2>2. /\ [ScopeBar EXCEPT ![p] = Top] \in Seq(Value \union Up)
        /\ Len([ScopeBar EXCEPT ![p] = Top]) = Len(ScopeBar')
        /\ \A i \in 1..Len(ScopeBar') : ScopeBar'[i] = [ScopeBar EXCEPT ![p] = Top][i]
    BY <1>1, <1>2, <1>5, <2>1
  <2>. QED BY <2>1, <2>2, SameSeq
<1>7. StoreBar' = StoreBar
  <2>1. Created' = Created
    BY <1>0, CreatedStays
  <2>2. ASSUME NEW u \in Created PROVE Deref(u)' = Deref(u)
    <3>1. CASE loc[u] = Closed
      BY <1>0, <3>1 DEF Deref
    <3>2. CASE loc[u] # Closed
      <4>1. SlotAt(loc[u]) \in 1..Len(stack) /\ SlotAt(loc[u]) # p
        BY <1>0, <3>2 DEF Seen, Plain
      <4>2. SlotAt(loc[u])' = SlotAt(loc[u])
        BY <1>0 DEF SlotAt
      <4>. QED BY <1>0, <1>4, <3>2, <4>1, <4>2 DEF Deref
    <3>. QED BY <3>1, <3>2
  <2>. QED BY <2>1, <2>2, StoreStays
<1>8. ScopeBar[p] \notin Up
  <2>1. ScopeBar[p] = stack[p] /\ stack[p] \in Value
    BY <1>0, <1>2 DEF Seen
  <2>. QED BY <2>1, UpvalueAssumption DEF Value
<1>9. Lexical!AssignLocal(p)
  BY <1>0, <1>1, <1>2, <1>3, <1>6, <1>7, <1>8 DEF Lexical!AssignLocal
<1>10. p \in DOMAIN ScopeBar
  BY <1>0, <1>2 DEF Seen
<1>. QED BY <1>9, <1>10 DEF Lexical!Next

\* ... and one that is.
LEMMA AssignBoxed ==
  ASSUME Ideal, Ideal', Running, NEW u \in Range(open),
         stack' = [stack EXCEPT ![SlotAt(loc[u])] = Top],
         UNCHANGED <<base, capacity, stale, frames, upVars, todo, glob, fault>>
  PROVE  /\ StoreBar' = Lexical!Put(u, Top)
         /\ ScopeBar' = ScopeBar /\ FirstBar' = FirstBar /\ RunningBar' = RunningBar
<1>. DEFINE p == SlotAt(loc[u])
<1>0. /\ Seen /\ Seen' /\ stack \in Seq(Value) /\ Len(stack) \in Nat /\ base \in Int
      /\ UNCHANGED <<open, loc, closed, upvalues>> /\ UNCHANGED <<base, frames, glob>>
  BY IdealSeen, NextSeen, IdealBasics DEF upVars
<1>1. u \in Created /\ u \in Up /\ loc[u] # Closed /\ p \in 1..Len(stack) /\ ScopeBar[p] = u
  BY <1>0 DEF Seen
<1>2. FirstBar' = FirstBar /\ RunningBar' = RunningBar
  BY <1>0 DEF FirstBar, RunningBar, SlotAt
<1>3. /\ Len(stack') = Len(stack)
      /\ \A i \in 1..Len(stack) : stack'[i] = IF i = p THEN Top ELSE stack[i]
  BY <1>0, <1>1
<1>4. \A w \in Range(open) : SlotAt(loc[w]) = p => w = u
  BY <1>0, <1>1 DEF Seen
<1>5. \A w : SlotAt(loc[w])' = SlotAt(loc[w])
  BY <1>0 DEF SlotAt
<1>. HIDE DEF p
<1>6. ASSUME NEW i \in 1..Len(stack) PROVE ScopeBar'[i] = ScopeBar[i]
  <2>1. Plain(i)' <=> Plain(i)
    BY <1>0, <1>5 DEF Plain
  <2>2. CASE Plain(i)
    <3>1. i # p
      BY <2>2 DEF Plain, p
    <3>. QED BY <1>0, <1>3, <2>1, <2>2, <3>1 DEF Seen
  <2>3. CASE ~Plain(i)
    <3>1. PICK w \in Range(open) : SlotAt(loc[w]) = i
      BY <2>3 DEF Plain
    <3>2. w \in Range(open') /\ SlotAt(loc[w])' = i
      BY <1>0, <1>5, <3>1
    <3>. QED BY <1>0, <3>1, <3>2 DEF Seen
  <2>. QED BY <2>2, <2>3
<1>7. ScopeBar' = ScopeBar
  <2>1. /\ ScopeBar \in Seq(Value \union Up) /\ ScopeBar' \in Seq(Value \union Up)
        /\ Len(ScopeBar') = Len(stack) /\ Len(ScopeBar) = Len(stack)
    BY <1>0, <1>3 DEF Seen
  <2>. QED BY <1>6, <2>1, SameSeq
<1>8. Created' = Created /\ Created' = Created \union {u}
  BY <1>0, <1>1, CreatedStays
<1>9. ASSUME NEW w \in Created, w # u PROVE Deref(w)' = Deref(w)
  <2>1. CASE loc[w] = Closed
    BY <1>0, <2>1 DEF Deref
  <2>2. CASE loc[w] # Closed
    <3>1. SlotAt(loc[w]) \in 1..Len(stack) /\ SlotAt(loc[w]) # p
      BY <1>0, <1>4, <1>9, <2>2 DEF Seen
    <3>. QED BY <1>0, <1>3, <1>5, <2>2, <3>1 DEF Deref
  <2>. QED BY <2>1, <2>2
<1>10. Deref(u)' = Top
  <2>1. Deref(u)' = stack'[p]
    BY <1>0, <1>1, <1>5 DEF Deref, p
  <2>. QED BY <1>1, <1>3, <2>1
<1>11. StoreBar' = Lexical!Put(u, Top)
  BY <1>1, <1>8, <1>9, <1>10, StorePuts
<1>. QED BY <1>2, <1>7, <1>11

LEMMA SetLocalSeen ==
  ASSUME Ideal, Ideal', NEW i \in 1..MaxStack, SetLocal(i)
  PROVE  Lexical!Next
<1>. DEFINE p == FirstSlot + i - 1
<1>1. /\ Seen /\ IInv /\ Running /\ frames # <<>> /\ i \in 2..Len(Frame.locals)
      /\ stack' = [stack EXCEPT ![p] = Top]
      /\ UNCHANGED <<base, capacity, stale, frames, upVars, todo, glob, fault>>
  BY IdealSeen, IdealBasics DEF SetLocal, Running
<1>2. p \in 1..Len(stack) /\ p \in (FirstSlot + 1)..Len(stack)
  <2>1. i \in 1..Len(Frame.locals) /\ FirstSlot \in 1..Len(stack)
    BY <1>1, FrameFacts
  <2>2. p \in 1..Len(stack)
    BY <1>1, <2>1, SlotOfLocal
  <2>. QED BY <1>1, <2>1, <2>2
<1>. HIDE DEF p
<1>3. CASE Plain(p)
  BY <1>1, <1>2, <1>3, AssignPlain
<1>4. CASE ~Plain(p)
  <2>1. PICK u \in Range(open) : SlotAt(loc[u]) = p
    BY <1>4 DEF Plain
  <2>2. /\ StoreBar' = Lexical!Put(u, Top) /\ ScopeBar' = ScopeBar
        /\ FirstBar' = FirstBar /\ RunningBar' = RunningBar
    BY <1>1, <2>1, AssignBoxed
  <2>3. ScopeBar[p] = u /\ u \in Up /\ p \in DOMAIN ScopeBar
    BY <1>1, <1>2, <2>1 DEF Seen
  <2>4. /\ FirstBar # <<>> /\ FirstBar[Len(FirstBar)] = FirstSlot
        /\ Len(ScopeBar) = Len(stack) /\ Lexical!Last = Top
    BY <1>1, RunningSeen
  <2>5. upvalues' = upvalues /\ glob' = glob
    BY <1>1 DEF upVars
  <2>6. p \in FirstBar[Len(FirstBar)] + 1..Len(ScopeBar)
    BY <1>2, <2>4
  <2>7. Lexical!AssignLocal(p)
    BY <2>2, <2>3, <2>4, <2>5, <2>6 DEF Lexical!AssignLocal
  <2>. QED BY <2>3, <2>7 DEF Lexical!Next
<1>. QED BY <1>3, <1>4

LEMMA SetUpvalueSeen ==
  ASSUME Ideal, Ideal', NEW k \in 1..MaxCaptures, SetUpvalue(k)
  PROVE  Lexical!Next
<1>1. /\ Seen /\ Seen' /\ IInv /\ Running /\ frames # <<>> /\ k \in DOMAIN upvalues[Frame.closure]
  BY IdealSeen, NextSeen, IdealBasics DEF SetUpvalue, Running
<1>2. PICK u \in Up : u = upvalues[Frame.closure][k] /\ u \in Created
  BY <1>1, UpvalueOfFrame
<1>3. u \in Range(Lexical!Kept) /\ FirstBar # <<>> /\ Lexical!Last = Top
  <2>1. Lexical!Kept = upvalues[Frame.closure] /\ FirstBar # <<>> /\ Lexical!Last = Top
    BY <1>1, RunningSeen
  <2>. QED BY <1>1, <1>2, <2>1 DEF Range
<1>4. \/ /\ loc[u] = Closed
         /\ closed' = [closed EXCEPT ![u] = Top]
         /\ UNCHANGED <<stackVars, open, loc, upvalues, todo, glob, fault>>
      \/ /\ loc[u] # Closed
         /\ stack' = [stack EXCEPT ![SlotAt(loc[u])] = Top]
         /\ UNCHANGED <<base, capacity, stale, frames, upVars, todo, glob, fault>>
      \/ ~Readable(u)
  BY <1>2 DEF SetUpvalue
<1>5. Readable(u)
  BY <1>1, <1>2 DEF Seen
<1>6. ASSUME StoreBar' = Lexical!Put(u, Top), UNCHANGED <<ScopeBar, FirstBar, RunningBar>>,
             upvalues' = upvalues, glob' = glob
      PROVE  Lexical!Next
  <2>1. Lexical!AssignCaptured(u)
    BY <1>3, <1>6 DEF Lexical!AssignCaptured, Lexical!Range, Range
  <2>. QED BY <1>2, <2>1 DEF Lexical!Next
<1>7. CASE /\ loc[u] = Closed
           /\ closed' = [closed EXCEPT ![u] = Top]
           /\ UNCHANGED <<stackVars, open, loc, upvalues, todo, glob, fault>>
  <2>1. UNCHANGED <<base, stack, frames>> /\ UNCHANGED <<open, loc, upvalues, glob>>
    BY <1>7 DEF stackVars
  <2>2. Created' = Created /\ Created' = Created \union {u}
    BY <1>2, <2>1, CreatedStays
  <2>3. closed \in [Up -> Value]
    BY <1>1 DEF IInv, TypeOK
  <2>4. /\ Deref(u)' = Top
        /\ \A w \in Created : w # u => Deref(w)' = Deref(w)
    <3>1. \A w \in Created : w \in Up
      BY <1>1 DEF Seen
    <3>2. \A w : SlotAt(loc[w])' = SlotAt(loc[w])
      BY <2>1 DEF SlotAt
    <3>. QED BY <1>2, <1>7, <2>1, <2>3, <3>1, <3>2 DEF Deref
  <2>5. StoreBar' = Lexical!Put(u, Top)
    BY <1>2, <2>2, <2>4, StorePuts
  <2>6. UNCHANGED <<ScopeBar, FirstBar, RunningBar>>
    BY <2>1 DEF ScopeBar, SlotBar, FirstBar, RunningBar, SlotAt
  <2>. QED BY <1>6, <2>1, <2>5, <2>6
<1>8. CASE /\ loc[u] # Closed
           /\ stack' = [stack EXCEPT ![SlotAt(loc[u])] = Top]
           /\ UNCHANGED <<base, capacity, stale, frames, upVars, todo, glob, fault>>
  <2>1. u \in Range(open)
    BY <1>1, <1>2, <1>8 DEF Seen
  <2>2. /\ StoreBar' = Lexical!Put(u, Top) /\ ScopeBar' = ScopeBar
        /\ FirstBar' = FirstBar /\ RunningBar' = RunningBar
    BY <1>1, <1>8, <2>1, AssignBoxed
  <2>3. upvalues' = upvalues /\ glob' = glob
    BY <1>8 DEF upVars
  <2>. QED BY <1>6, <2>2, <2>3
<1>. QED BY <1>4, <1>5, <1>7, <1>8

LEMMA SetGlobalSeen ==
  ASSUME Ideal, Ideal', SetGlobal
  PROVE  Lexical!Next
<1>1. /\ frames # <<>> /\ glob' = Top /\ UNCHANGED <<base, stack, frames, stale>>
      /\ UNCHANGED <<open, loc, closed, upvalues>>
  BY DEF SetGlobal, Running, stackVars, upVars
<1>2. UNCHANGED <<ScopeBar, FirstBar, RunningBar, StoreBar>>
  <2>1. UNCHANGED <<ScopeBar, FirstBar, RunningBar>>
    BY <1>1 DEF ScopeBar, SlotBar, FirstBar, RunningBar, SlotAt
  <2>2. UNCHANGED StoreBar
    BY <1>1, CreatedStays DEF StoreBar, Readable, Deref, SlotAt, InStack
  <2>. QED BY <2>1, <2>2
<1>3. FirstBar # <<>> /\ Lexical!Last = Top
  BY <1>1, RunningSeen
<1>4. Lexical!AssignGlobal
  BY <1>1, <1>2, <1>3 DEF Lexical!AssignGlobal
<1>. QED BY <1>4 DEF Lexical!Next

\* The calls run the same closures at the same slots, whatever their variables.
LEMMA WithLocalsCalls ==
  ASSUME frames \in Seq(FrameType), NEW ls
  PROVE  /\ Len(WithLocals(ls)) = Len(frames)
         /\ \A k \in 1..Len(frames) : /\ WithLocals(ls)[k].slots = frames[k].slots
                                      /\ WithLocals(ls)[k].closure = frames[k].closure
<1>1. Len(WithLocals(ls)) = Len(frames)
  BY DEF WithLocals
<1>2. ASSUME NEW k \in 1..Len(frames)
      PROVE  /\ WithLocals(ls)[k].slots = frames[k].slots
             /\ WithLocals(ls)[k].closure = frames[k].closure
  <2>1. frames[k] \in FrameType
    OBVIOUS
  <2>2. CASE k = Len(frames)
    <3>1. WithLocals(ls)[k] = [frames[k] EXCEPT !.locals = ls]
      BY <2>2 DEF WithLocals
    <3>. QED BY <2>1, <3>1 DEF FrameType
  <2>3. CASE k # Len(frames)
    <3>1. WithLocals(ls)[k] = frames[k]
      BY <2>3 DEF WithLocals
    <3>. QED BY <3>1
  <2>. QED BY <2>2, <2>3
<1>. QED BY <1>1, <1>2

LEMMA DeclareSeen ==
  ASSUME Ideal, Ideal', NEW captured \in BOOLEAN, DeclareLocal(captured)
  PROVE  UNCHANGED Lexical!vars
<1>. DEFINE ls == Append(Frame.locals, captured)
<1>1. /\ frames' = WithLocals(ls) /\ UNCHANGED <<base, stack, stale, glob>>
      /\ UNCHANGED <<open, loc, closed, upvalues>>
  BY DEF DeclareLocal, upVars
<1>2. UNCHANGED ScopeBar
  BY <1>1 DEF ScopeBar, SlotBar
<1>3. UNCHANGED StoreBar
  BY <1>1, CreatedStays DEF StoreBar, Readable, Deref, SlotAt, InStack
<1>. HIDE DEF ls
<1>4. UNCHANGED <<FirstBar, RunningBar>>
  <2>1. frames \in Seq(FrameType)
    BY IdealBasics
  <2>. QED BY <1>1, <2>1, WithLocalsCalls, CallsStay DEF SlotOf
<1>. QED BY <1>1, <1>2, <1>3, <1>4 DEF Lexical!vars

\* The value on top leaves the stack, and its upvalue is closed.
LEMMA LeaveSeen ==
  ASSUME Ideal, Ideal', frames # <<>>, Pop, Len(stack) > FirstSlot,
         Len(frames') = Len(frames),
         \A k \in 1..Len(frames) : /\ frames'[k].slots = frames[k].slots
                                   /\ frames'[k].closure = frames[k].closure,
         \A u : u \in Range(open') <=> u \in Range(open) /\ SlotAt(loc[u]) <= Len(stack) - 1,
         \A u \in Range(open') : loc'[u] = loc[u],
         \A u \in Created : u \notin Range(open') => closed'[u] = Deref(u),
         upvalues' = upvalues, glob' = glob
  PROVE  Lexical!Next
<1>1. /\ Seen /\ Seen' /\ IInv /\ stack \in Seq(Value) /\ Len(stack) \in Nat /\ base' = base
  BY IdealSeen, NextSeen, IdealBasics, BaseStays
<1>2. /\ FirstBar # <<>> /\ FirstBar[Len(FirstBar)] = FirstSlot /\ FirstSlot \in 1..Len(stack)
      /\ Len(ScopeBar) = Len(stack)
  BY <1>1, RunningSeen
<1>3. /\ Len(stack') = Len(stack) - 1 /\ Len(stack) >= 1
      /\ \A i \in 1..(Len(stack) - 1) : stack'[i] = stack[i]
  BY <1>1, PopEffect
<1>4. Created' \subseteq Created
  BY DEF Created
<1>5. FirstBar' = FirstBar /\ RunningBar' = RunningBar
  BY <1>1, CallsStay DEF SlotOf
<1>6. /\ \A i \in 1..(Len(stack) - 1) : ScopeBar'[i] = ScopeBar[i]
      /\ \A u \in Created' : Deref(u)' = Deref(u)
  <2>1. Len(stack) - 1 \in 0..Len(stack) /\ Len(stack) - 1 <= Len(stack')
    BY <1>1, <1>3
  <2>2. \A u \in Created' : u \notin Range(open') => closed'[u] = Deref(u)
    BY <1>4
  <2>. QED BY <1>3, <1>4, <2>1, <2>2, SeenBelow
<1>7. Lexical!Store(StoreBar)
  BY <1>4, <1>6, StoreShrinks
<1>8. ScopeBar' = Lexical!Until(Len(ScopeBar) - 1)
  <2>1. /\ ScopeBar \in Seq(Value \union Up) /\ Len(ScopeBar) = Len(stack)
        /\ ScopeBar' \in Seq(Value \union Up) /\ Len(ScopeBar') = Len(stack')
    BY <1>1 DEF Seen
  <2>2. Len(ScopeBar) - 1 \in 0..Len(ScopeBar)
    BY <1>1, <1>3, <2>1
  <2>3. /\ SubSeq(ScopeBar, 1, Len(ScopeBar) - 1) \in Seq(Value \union Up)
        /\ Len(SubSeq(ScopeBar, 1, Len(ScopeBar) - 1)) = Len(ScopeBar) - 1
        /\ \A i \in 1..(Len(ScopeBar) - 1) : SubSeq(ScopeBar, 1, Len(ScopeBar) - 1)[i] = ScopeBar[i]
    BY <2>1, <2>2, PrefixIs
  <2>4. ScopeBar' = SubSeq(ScopeBar, 1, Len(ScopeBar) - 1)
    BY <1>3, <1>6, <2>1, <2>3, SameSeq
  <2>. QED BY <2>4 DEF Lexical!Until
<1>9. Lexical!Leave
  BY <1>2, <1>5, <1>7, <1>8 DEF Lexical!Leave
<1>. QED BY <1>9 DEF Lexical!Next

\* No upvalue is open for the value on top if none has to be closed.
LEMMA LeavePlainly ==
  ASSUME Ideal, Ideal', frames # <<>>, Pop, UNCHANGED <<open, loc, closed, upvalues>>
  PROVE  /\ \A u : u \in Range(open') <=> u \in Range(open) /\ SlotAt(loc[u]) <= Len(stack) - 1
         /\ \A u \in Range(open') : loc'[u] = loc[u]
         /\ \A u \in Created : u \notin Range(open') => closed'[u] = Deref(u)
<1>1. Seen /\ Seen' /\ IInv /\ base' = base /\ Len(stack) \in Nat
  BY IdealSeen, NextSeen, IdealBasics, BaseStays
<1>2. Len(stack') = Len(stack) - 1
  BY <1>1, PopEffect
<1>3. \A u \in Range(open) : SlotAt(loc[u]) <= Len(stack) - 1
  <2>1. \A u \in Range(open) : SlotAt(loc[u]) = SlotAt(loc[u])'
    BY <1>1 DEF SlotAt
  <2>2. \A u \in Range(open') : SlotAt(loc[u])' \in 2..Len(stack')
    BY <1>1 DEF Seen
  <2>. QED BY <1>1, <1>2, <2>1, <2>2
<1>4. \A u \in Created : u \notin Range(open') => closed'[u] = Deref(u)
  BY <1>1 DEF Seen, Deref
<1>. QED BY <1>3, <1>4

LEMMA PopSeen ==
  ASSUME Ideal, Ideal', PopOperand
  PROVE  Lexical!Next
<1>1. /\ IInv /\ frames # <<>> /\ Pop /\ Operands > 0 /\ UNCHANGED <<frames, glob>>
      /\ UNCHANGED <<open, loc, closed, upvalues>>
  BY IdealBasics DEF PopOperand, Running, upVars
<1>2. Len(stack) > FirstSlot
  BY <1>1, BasicFacts, FrameFacts
<1>3. /\ \A u : u \in Range(open') <=> u \in Range(open) /\ SlotAt(loc[u]) <= Len(stack) - 1
      /\ \A u \in Range(open') : loc'[u] = loc[u]
      /\ \A u \in Created : u \notin Range(open') => closed'[u] = Deref(u)
  BY <1>1, LeavePlainly
<1>. QED BY <1>1, <1>2, <1>3, LeaveSeen

\* Nothing goes wrong.
LEMMA NoFault ==
  ASSUME Ideal'
  PROVE  ~Fault
<1>1. fault' = FALSE
  BY DEF Ideal, IInv, FaultNeedsStale, Order, StaleLeft, TypeOK
<1>. QED BY <1>1 DEF Fault

\* The upvalues of the slots above n are closed.
LEMMA CloseSeen ==
  ASSUME Ideal, NEW a \in Int, NEW n \in Int, a = base + n, CloseFrom(a)
  PROVE  /\ \A u : u \in Range(open') <=> u \in Range(open) /\ SlotAt(loc[u]) <= n
         /\ \A u \in Range(open') : loc'[u] = loc[u]
         /\ \A u \in Created : u \notin Range(open') => closed'[u] = Deref(u)
         /\ upvalues' = upvalues
<1>1. Seen /\ TypeOK /\ OpenDescending /\ base \in Int
  BY IdealSeen, IdealBasics
<1>2. /\ \A u : u \in Range(open') <=> u \in Range(open) /\ loc[u] < a
      /\ loc' = [u \in Up |-> IF u \in Range(open) /\ loc[u] >= a THEN Closed ELSE loc[u]]
      /\ closed' = [u \in Up |->
                     IF u \in Range(open) /\ loc[u] >= a THEN Deref(u) ELSE closed[u]]
      /\ upvalues' = upvalues
  BY <1>1, CloseEffect
<1>3. \A u : u \in Range(open') <=> u \in Range(open) /\ SlotAt(loc[u]) <= n
  <2>1. \A u \in Range(open) : loc[u] < a <=> SlotAt(loc[u]) <= n
    BY <1>1 DEF Seen, SlotAt
  <2>. QED BY <1>2, <2>1
<1>4. \A u \in Range(open') : loc'[u] = loc[u]
  BY <1>1, <1>2 DEF Seen
<1>5. ASSUME NEW u \in Created, u \notin Range(open') PROVE closed'[u] = Deref(u)
  <2>1. CASE u \in Range(open)
    BY <1>1, <1>2, <1>5, <2>1 DEF Seen
  <2>2. CASE u \notin Range(open)
    BY <1>1, <1>2, <2>2 DEF Seen, Deref
  <2>. QED BY <2>1, <2>2
<1>. QED BY <1>2, <1>3, <1>4, <1>5

LEMMA EndScopeSeen ==
  ASSUME Ideal, Ideal', EndScope
  PROVE  Lexical!Next
<1>. DEFINE ls == SubSeq(Frame.locals, 1, Len(Frame.locals) - 1)
            a == base + Len(stack) - 1
<1>1. /\ Seen /\ IInv /\ TypeOK /\ OpenDescending /\ frames # <<>> /\ fault = FALSE
      /\ frames \in Seq(FrameType) /\ base \in Int /\ Len(stack) \in Nat
      /\ Operands = 0 /\ Len(Frame.locals) > 1 + Frame.arity
  BY IdealSeen, IdealBasics DEF EndScope, Running
<1>2. Len(stack) > FirstSlot
  <2>1. /\ Operands = Len(stack) - FirstSlot + 1 - Len(Frame.locals) /\ Len(Frame.locals) \in Nat
        /\ Frame.arity \in Nat /\ FirstSlot \in 1..Len(stack)
    BY <1>1, FrameFacts
  <2>. QED BY <1>1, <2>1
<1>3. /\ ~Fault
      /\ \/ UNCHANGED <<open, loc, closed, upvalues>>
         \/ CloseFrom(a)
      /\ Pop /\ frames' = WithLocals(ls) /\ glob' = glob
  <2>1. ~Fault
    BY NoFault
  <2>. QED BY <2>1 DEF EndScope, upVars
<1>. HIDE DEF ls
<1>4. /\ Len(frames') = Len(frames)
      /\ \A k \in 1..Len(frames) : /\ frames'[k].slots = frames[k].slots
                                   /\ frames'[k].closure = frames[k].closure
  BY <1>1, <1>3, WithLocalsCalls
<1>5. CASE UNCHANGED <<open, loc, closed, upvalues>>
  <2>1. /\ \A u : u \in Range(open') <=> u \in Range(open) /\ SlotAt(loc[u]) <= Len(stack) - 1
        /\ \A u \in Range(open') : loc'[u] = loc[u]
        /\ \A u \in Created : u \notin Range(open') => closed'[u] = Deref(u)
    BY <1>1, <1>3, <1>5, LeavePlainly
  <2>. QED BY <1>1, <1>2, <1>3, <1>4, <1>5, <2>1, LeaveSeen
<1>6. CASE CloseFrom(a)
  <2>1. a \in Int /\ Len(stack) - 1 \in Int /\ a = base + (Len(stack) - 1)
    BY <1>1
  <2>. HIDE DEF a
  <2>2. /\ \A u : u \in Range(open') <=> u \in Range(open) /\ SlotAt(loc[u]) <= Len(stack) - 1
        /\ \A u \in Range(open') : loc'[u] = loc[u]
        /\ \A u \in Created : u \notin Range(open') => closed'[u] = Deref(u)
        /\ upvalues' = upvalues
    BY <1>6, <2>1, CloseSeen
  <2>. QED BY <1>1, <1>2, <1>3, <1>4, <2>2, LeaveSeen
<1>. QED BY <1>3, <1>5, <1>6

LEMMA InterpretSeen ==
  ASSUME Ideal, Ideal', Interpret
  PROVE  Lexical!Next
<1>. DEFINE fr == [closure |-> Script, slots |-> base, arity |-> 0, locals |-> <<FALSE>>]
            fs == <<fr>>
<1>1. /\ frames = <<>> /\ Push(0, fs, Script) /\ UNCHANGED <<open, loc, closed, upvalues, glob>>
  BY DEF Interpret, upVars
<1>2. /\ Seen /\ Seen' /\ TypeOK /\ base \in Int /\ Len(stack) \in Nat
      /\ WindowsOf(base, stack, frames)
  BY IdealSeen, NextSeen, IdealBasics, BasicFacts
<1>3. stack = <<>> /\ Len(stack) = 0
  BY <1>1, <1>2 DEF WindowsOf
<1>4. \A u : u \notin Range(open)
  BY <1>2, <1>3 DEF Seen
<1>5. /\ fs \in Seq(FrameType) /\ Len(fs) = 1
      /\ fs[1].closure = Script /\ fs[1].slots = base
  <2>1. <<FALSE>> \in Seq(BOOLEAN) /\ Len(<<FALSE>>) = 1 /\ 1 <= MaxStack
    BY NatAssumption
  <2>2. <<FALSE>> \in UNION {[1..n -> BOOLEAN] : n \in 0..MaxStack}
    BY <2>1, LocalsType
  <2>3. base \in Int /\ 0 \in 0..MaxArity /\ Script \in Clo \union {Script}
    BY <1>2, NatAssumption
  <2>4. fr \in FrameType
    BY <2>2, <2>3 DEF FrameType
  <2>5. fr.closure = Script /\ fr.slots = base
    OBVIOUS
  <2>. HIDE DEF fr
  <2>. QED BY <2>4, <2>5
<1>6. 0 \in 0..Len(stack) /\ Script \in Value
  BY <1>3 DEF Value
<1>. HIDE DEF fs
<1>7. Len(stack') = 0 + 1 /\ stack'[0 + 1] = Script /\ SameCalls(base, fs, base', frames')
  BY <1>1, <1>2, <1>5, <1>6, PushEffect
<1>8. ScopeBar = <<>> /\ ScopeBar' = <<Script>>
  <2>1. Plain(1)'
    BY <1>1, <1>4 DEF Plain
  <2>2. /\ ScopeBar' \in Seq(Value \union Up) /\ Len(ScopeBar') = 1 /\ ScopeBar'[1] = Script
    BY <1>2, <1>7, <2>1 DEF Seen
  <2>3. ScopeBar \in Seq(Value \union Up) /\ Len(ScopeBar) = 0
    BY <1>2, <1>3 DEF Seen
  <2>. QED BY <2>2, <2>3
<1>9. FirstBar = <<>> /\ FirstBar' = <<1>>
  <2>1. SlotOf(fs[1], base) = 1
    BY <1>2, <1>5 DEF SlotOf
  <2>2. FirstBar' \in Seq(Int) /\ Len(FirstBar') = 1 /\ FirstBar'[1] = 1
    BY <1>2, <1>5, <1>7, <2>1 DEF Seen, SameCalls
  <2>3. FirstBar \in Seq(Int) /\ Len(FirstBar) = 0
    BY <1>1, <1>2 DEF Seen
  <2>. QED BY <2>2, <2>3
<1>10. RunningBar' = <<Script>>
  <2>1. /\ RunningBar' \in Seq(Clo \union {Script}) /\ Len(RunningBar') = 1
        /\ RunningBar'[1] = Script
    BY <1>2, <1>5, <1>7 DEF Seen, SameCalls
  <2>. QED BY <2>1
<1>11. StoreBar' = StoreBar
  <2>1. Created' = Created
    BY <1>1, CreatedStays
  <2>2. \A u \in Created : Deref(u)' = Deref(u)
    BY <1>1, <1>2, <1>4 DEF Seen, Deref
  <2>. QED BY <2>1, <2>2, StoreStays
<1>12. Lexical!Begin
  BY <1>1, <1>8, <1>9, <1>10, <1>11 DEF Lexical!Begin
<1>. QED BY <1>12 DEF Lexical!Next

LEMMA ClosureSeen ==
  ASSUME Ideal, Ideal',
         NEW f \in Clo, NEW n \in 0..MaxCaptures, NEW more \in {<<>>, <<TRUE>>, <<FALSE>>},
         Closure(f, n, more)
  PROVE  Lexical!Next
<1>. DEFINE ls == Frame.locals \o more
            fs == WithLocals(ls)
<1>1. /\ frames # <<>> /\ f \notin Range(stack) \union Range(closed) \union {glob}
      /\ upvalues' = [upvalues EXCEPT ![f] = <<>>]
      /\ Push(Len(stack), fs, f)
      /\ UNCHANGED <<open, loc, closed, glob>>
  BY DEF Closure, Running
<1>2. /\ Seen /\ Seen' /\ IInv /\ TypeOK /\ frames \in Seq(FrameType)
      /\ stack \in Seq(Value) /\ DOMAIN stack = 1..Len(stack)
      /\ upvalues \in [Clo \union {Script} -> Seq(Up)] /\ closed \in [Up -> Value]
  BY IdealSeen, NextSeen, IdealBasics DEF TypeOK
<1>3. /\ Len(fs) = Len(frames)
      /\ \A k \in 1..Len(frames) : fs[k].slots = frames[k].slots /\ fs[k].closure = frames[k].closure
  <2>. HIDE DEF ls
  <2>. QED BY <1>2, WithLocalsCalls
<1>4. fs \in Seq(FrameType)
  <2>1. Len(stack) < MaxStack /\ Operands = 0
    BY <1>1 DEF Push, Closure
  <2>2. ls \in Seq(BOOLEAN) /\ Len(ls) <= MaxStack
    BY <1>1, <1>2, <2>1, MoreLocals
  <2>. HIDE DEF ls
  <2>. QED BY <1>1, <1>2, <2>2, WithLocalsEffect
<1>. HIDE DEF fs
<1>5. f \in Value /\ f \notin Up
  BY UpvalueAssumption DEF Value
<1>6. Created' \subseteq Created
  <2>1. ASSUME NEW g \in DOMAIN upvalues', NEW u \in Range(upvalues'[g])
        PROVE  u \in Range(upvalues[g]) /\ g \in DOMAIN upvalues
    BY <1>1, <1>2, <2>1 DEF Range
  <2>. QED BY <1>1, <2>1 DEF Created
<1>7. /\ ScopeBar' = Append(ScopeBar, f) /\ FirstBar' = FirstBar /\ RunningBar' = RunningBar
      /\ \A u \in Created' : Deref(u)' = Deref(u)
  BY <1>1, <1>3, <1>4, <1>5, <1>6, PushSeen
<1>8. Lexical!Store(StoreBar)
  BY <1>6, <1>7, StoreShrinks
<1>9. f \notin Range(ScopeBar)
  <2>1. ASSUME NEW i \in 1..Len(stack) PROVE ScopeBar[i] # f
    <3>1. CASE Plain(i)
      BY <1>1, <1>2, <3>1 DEF Seen, Range
    <3>2. CASE ~Plain(i)
      <4>1. PICK u \in Range(open) : SlotAt(loc[u]) = i
        BY <3>2 DEF Plain
      <4>. QED BY <1>2, <1>5, <4>1 DEF Seen
    <3>. QED BY <3>1, <3>2
  <2>2. DOMAIN ScopeBar = 1..Len(stack)
    BY <1>2 DEF Seen
  <2>. QED BY <2>1, <2>2 DEF Range
<1>10. f \notin Range(StoreBar)
  <2>1. ASSUME NEW u \in Created PROVE StoreBar[u] # f
    <3>1. StoreBar[u] = Deref(u) /\ u \in Up
      BY <1>2 DEF Seen
    <3>2. CASE loc[u] = Closed
      BY <1>1, <1>2, <3>1, <3>2 DEF Deref, Range
    <3>3. CASE loc[u] # Closed
      <4>1. SlotAt(loc[u]) \in 1..Len(stack)
        BY <1>2, <3>3 DEF Seen
      <4>. QED BY <1>1, <1>2, <3>1, <3>3, <4>1 DEF Deref, Range
    <3>. QED BY <3>2, <3>3
  <2>2. DOMAIN StoreBar = Created
    BY LexicalSeen
  <2>. QED BY <2>1, <2>2 DEF Range
<1>11. FirstBar # <<>>
  BY <1>1, RunningSeen
<1>12. Lexical!Declare(f)
  BY <1>1, <1>7, <1>8, <1>9, <1>10, <1>11 DEF Lexical!Declare, Lexical!Range, Range
<1>. QED BY <1>12 DEF Lexical!Next

LEMMA CaptureOuterSeen ==
  ASSUME Ideal, Ideal', NEW k \in 1..MaxCaptures, CaptureOuter(k)
  PROVE  Lexical!Next
<1>1. /\ Seen /\ IInv /\ TypeOK /\ upvalues \in [Clo \union {Script} -> Seq(Up)]
  BY IdealSeen, IdealBasics
<1>2. /\ todo > 0 /\ k \in DOMAIN upvalues[Frame.closure]
      /\ upvalues' = [upvalues EXCEPT ![Top] = Append(@, upvalues[Frame.closure][k])]
      /\ UNCHANGED <<base, stack, frames, stale>> /\ UNCHANGED <<open, loc, closed, glob>>
  BY DEF CaptureOuter, stackVars
<1>3. frames # <<>> /\ Top \in Clo
  BY <1>1, <1>2 DEF IInv, CapturesPending
<1>4. PICK u \in Up : u = upvalues[Frame.closure][k] /\ u \in Created
  BY <1>1, <1>2, <1>3, UpvalueOfFrame
<1>5. UNCHANGED <<ScopeBar, FirstBar, RunningBar>>
  BY <1>2 DEF ScopeBar, SlotBar, FirstBar, RunningBar, SlotAt
<1>6. Created' = Created
  <2>1. upvalues' = [upvalues EXCEPT ![Top] = Append(@, u)]
    BY <1>2, <1>4
  <2>2. Top \in DOMAIN upvalues /\ upvalues[Top] \in Seq(Up) /\ DOMAIN upvalues' = DOMAIN upvalues
    BY <1>1, <1>3, <2>1
  <2>3. \A w : w \in Range(open') <=> w \in Range(open)
    BY <1>2
  <2>4. Created' = Created \union {u}
    BY <2>1, <2>2, <2>3, CreatedGrows
  <2>. QED BY <1>4, <2>4
<1>7. UNCHANGED StoreBar
  BY <1>2, <1>6 DEF StoreBar, Readable, Deref, SlotAt, InStack
<1>8. Lexical!Last = Top /\ u \in Range(Lexical!Kept)
  <2>1. Lexical!Kept = upvalues[Frame.closure] /\ Lexical!Last = Top
    BY <1>3, RunningSeen
  <2>. QED BY <1>2, <1>4, <2>1 DEF Range
<1>9. Lexical!CaptureShared(u)
  BY <1>2, <1>3, <1>4, <1>5, <1>7, <1>8 DEF Lexical!CaptureShared, Lexical!Range, Range
<1>. QED BY <1>4, <1>9 DEF Lexical!Next

LEMMA CaptureLocalSeen ==
  ASSUME Ideal, Ideal', NEW i \in 1..MaxStack, CaptureLocal(i)
  PROVE  Lexical!Next
<1>. DEFINE a == Frame.slots + i - 1
<1>1. /\ Seen /\ Seen' /\ IInv /\ TypeOK /\ OpenDescending /\ base \in Int
      /\ stack \in Seq(Value) /\ Len(stack) \in Nat
      /\ open \in Seq(Up) /\ loc \in [Up -> Int] /\ closed \in [Up -> Value]
      /\ upvalues \in [Clo \union {Script} -> Seq(Up)]
  BY IdealSeen, NextSeen, IdealBasics DEF TypeOK
<1>2. /\ todo > 0 /\ i <= Len(Frame.locals) /\ CaptureAt(Top, a)
      /\ UNCHANGED <<base, stack, frames, glob>>
  BY DEF CaptureLocal
<1>3. frames # <<>> /\ Top \in Clo
  BY <1>1, <1>2 DEF IInv, CapturesPending
<1>4. a \in Nat /\ SlotAt(a) \in 1..Len(stack)
  <2>1. i \in 1..Len(Frame.locals) /\ Frame.slots = base + FirstSlot - 1 /\ Frame.slots \in Nat
        /\ FirstSlot \in Int
    BY <1>1, <1>2, <1>3, FrameFacts
  <2>2. FirstSlot + i - 1 \in 1..Len(stack)
    BY <1>1, <1>3, <2>1, SlotOfLocal
  <2>3. Frame.slots + i - 1 \in Nat /\ SlotAt(Frame.slots + i - 1) = FirstSlot + i - 1
    BY <1>1, <2>1 DEF SlotAt
  <2>. QED BY <2>2, <2>3
<1>. HIDE DEF a
<1>5. PICK u \in Up :
        /\ upvalues' = [upvalues EXCEPT ![Top] = Append(@, u)] /\ loc'[u] = a
        /\ \A w : w \in Range(open') <=> w \in Range(open) \/ w = u
        /\ \/ u \in Range(open) /\ UNCHANGED <<open, loc, closed, stale>>
           \/ /\ u \notin Created /\ \A w \in Range(open) : loc[w] # a
              /\ loc' = [loc EXCEPT ![u] = a]
              /\ closed' = [closed EXCEPT ![u] = Script]
              /\ stale' = stale \ {u}
  BY <1>1, <1>2, <1>4, CaptureEffect
<1>6. FirstBar' = FirstBar /\ RunningBar' = RunningBar
  BY <1>2 DEF FirstBar, RunningBar, SlotAt
<1>7. Created' = Created \union {u}
  <2>1. Top \in DOMAIN upvalues /\ upvalues[Top] \in Seq(Up) /\ DOMAIN upvalues' = DOMAIN upvalues
    BY <1>1, <1>3, <1>5
  <2>. QED BY <1>1, <1>5, <2>1, CreatedGrows
<1>8. Lexical!Last = Top
  BY <1>3, RunningSeen
<1>9. CASE u \in Range(open) /\ UNCHANGED <<open, loc, closed, stale>>
  <2>1. UNCHANGED ScopeBar
    BY <1>2, <1>9 DEF ScopeBar, SlotBar
  <2>2. Created' = Created
    BY <1>7, <1>9 DEF Created
  <2>3. UNCHANGED StoreBar
    BY <1>2, <1>9, <2>2 DEF StoreBar, Readable, Deref, SlotAt, InStack
  <2>4. u \in Range(ScopeBar)
    <3>1. SlotAt(loc[u]) \in DOMAIN ScopeBar /\ ScopeBar[SlotAt(loc[u])] = u
      BY <1>1, <1>9 DEF Seen
    <3>. QED BY <3>1 DEF Range
  <2>5. Lexical!CaptureShared(u)
    BY <1>2, <1>3, <1>5, <1>6, <1>8, <2>1, <2>3, <2>4
       DEF Lexical!CaptureShared, Lexical!Range, Range
  <2>. QED BY <2>5 DEF Lexical!Next
<1>10. CASE /\ u \notin Created /\ \A w \in Range(open) : loc[w] # a
            /\ loc' = [loc EXCEPT ![u] = a]
            /\ closed' = [closed EXCEPT ![u] = Script]
  <2>1. PICK p \in 1..Len(stack) : p = SlotAt(a)
    BY <1>4
  <2>2. Plain(p)
    <3>1. ASSUME NEW w \in Range(open), SlotAt(loc[w]) = SlotAt(a) PROVE FALSE
      <4>1. loc[w] \in Int /\ loc[w] # a /\ a \in Int
        BY <1>1, <1>4, <1>10 DEF Seen
      <4>. QED BY <1>1, <3>1, <4>1 DEF SlotAt
    <3>. QED BY <2>1, <3>1 DEF Plain
  <2>3. ScopeBar[p] = stack[p] /\ stack[p] \in Value /\ stack[p] \notin Up
    BY <1>1, <2>2, UpvalueAssumption DEF Seen, Value
  <2>4. SlotAt(loc[u])' = p /\ \A w \in Range(open) : SlotAt(loc[w])' = SlotAt(loc[w]) /\ w # u
    <3>1. \A w \in Range(open) : w \in Up /\ w # u
      BY <1>1, <1>10 DEF Seen
    <3>. QED BY <1>1, <1>2, <1>5, <1>10, <2>1, <3>1 DEF SlotAt
  <2>5. u \in Range(open') /\ \A w \in Range(open) : w \in Range(open')
    BY <1>5
  <2>6. ScopeBar' = [ScopeBar EXCEPT ![p] = u]
    <3>1. ASSUME NEW j \in 1..Len(stack) PROVE ScopeBar'[j] = IF j = p THEN u ELSE ScopeBar[j]
      <4>1. CASE j = p
        BY <1>1, <2>4, <2>5, <4>1 DEF Seen
      <4>2. CASE j # p /\ Plain(j)
        <5>1. Plain(j)'
          BY <1>5, <2>4, <4>2 DEF Plain
        <5>. QED BY <1>1, <1>2, <4>2, <5>1 DEF Seen
      <4>3. CASE j # p /\ ~Plain(j)
        <5>1. PICK w \in Range(open) : SlotAt(loc[w]) = j
          BY <4>3 DEF Plain
        <5>2. w \in Range(open') /\ SlotAt(loc[w])' = j
          BY <2>4, <2>5, <5>1
        <5>. QED BY <1>1, <4>3, <5>1, <5>2 DEF Seen
      <4>. QED BY <4>1, <4>2, <4>3
    <3>2. /\ ScopeBar \in Seq(Value \union Up) /\ ScopeBar' \in Seq(Value \union Up)
          /\ Len(ScopeBar) = Len(stack) /\ Len(ScopeBar') = Len(stack)
      BY <1>1, <1>2 DEF Seen
    <3>3. /\ [ScopeBar EXCEPT ![p] = u] \in Seq(Value \union Up)
          /\ Len([ScopeBar EXCEPT ![p] = u]) = Len(ScopeBar')
          /\ \A j \in 1..Len(ScopeBar') : ScopeBar'[j] = [ScopeBar EXCEPT ![p] = u][j]
      BY <3>1, <3>2
    <3>. QED BY <3>2, <3>3, SameSeq
  <2>7. StoreBar' = Lexical!Put(u, ScopeBar[p])
    <3>1. PICK v : v = stack[p]
      OBVIOUS
    <3>2. Deref(u)' = v
      BY <1>1, <1>2, <2>4, <2>5, <3>1 DEF Deref, Seen
    <3>3. ASSUME NEW w \in Created, w # u PROVE Deref(w)' = Deref(w)
      <4>1. w \in Up /\ loc'[w] = loc[w] /\ closed'[w] = closed[w]
        BY <1>1, <1>10, <3>3 DEF Seen
      <4>. QED BY <1>2, <4>1 DEF Deref, SlotAt
    <3>4. StoreBar' = Lexical!Put(u, v)
      BY <1>7, <3>2, <3>3, StorePuts
    <3>. QED BY <2>3, <3>1, <3>4
  <2>8. u \in Up \ Lexical!BoxesInUse
    BY <1>10, BoxesSeen DEF BoxesAreCreated
  <2>9. p \in DOMAIN ScopeBar
    BY <1>1 DEF Seen
  <2>10. Lexical!CaptureLocal(p, u)
    BY <1>2, <1>3, <1>5, <1>6, <1>8, <2>3, <2>6, <2>7, <2>8, <2>9 DEF Lexical!CaptureLocal
  <2>. QED BY <2>9, <2>10 DEF Lexical!Next
<1>. QED BY <1>5, <1>9, <1>10

LEMMA CallSeen ==
  ASSUME Ideal, Ideal', NEW n \in 0..MaxArity, NEW more \in [1..n -> BOOLEAN], Call(n, more)
  PROVE  Lexical!Next
<1>. DEFINE fr == [closure |-> stack[Len(stack) - n], slots |-> base + Len(stack) - n - 1,
                   arity |-> n, locals |-> <<FALSE>> \o more]
<1>1. /\ Seen /\ Seen' /\ IInv /\ base \in Int /\ Len(stack) \in Nat /\ n \in Nat
      /\ frames \in Seq(FrameType) /\ Len(frames) \in Nat
      /\ frames' \in Seq(FrameType) /\ Len(frames') \in Nat
  BY NatAssumption, IdealSeen, NextSeen, IdealBasics, NextBasics
<1>2. /\ frames # <<>> /\ n < Operands /\ stack[Len(stack) - n] \in Clo
      /\ frames' = Append(frames, fr)
      /\ UNCHANGED <<base, stack, stale, glob>> /\ UNCHANGED <<open, loc, closed, upvalues>>
  BY DEF Call, Running, upVars
<1>3. fr.closure = stack[Len(stack) - n] /\ fr.slots = base + Len(stack) - n - 1
  OBVIOUS
<1>. HIDE DEF fr
<1>4. PICK p \in 1..Len(stack) : p = Len(stack) - n /\ p >= FirstSlot + Len(Frame.locals)
  <2>1. /\ Operands = Len(stack) - FirstSlot + 1 - Len(Frame.locals)
        /\ FirstSlot \in 1..Len(stack) /\ Len(Frame.locals) \in Nat
    BY <1>1, <1>2, FrameFacts
  <2>. DEFINE t == Len(stack)
              m == Len(Frame.locals)
  <2>2. t \in Int /\ m \in Int /\ m >= 0 /\ FirstSlot \in Int /\ FirstSlot >= 1
    BY <1>1, <2>1
  <2>3. n < t - FirstSlot + 1 - m
    BY <1>2, <2>1
  <2>. HIDE DEF t, m
  <2>4. t - n \in 1..t /\ t - n >= FirstSlot + m
    BY <1>1, <2>2, <2>3
  <2>. QED BY <2>4 DEF t, m
<1>5. ~IsCaptured(base, frames, p)
  <2>1. SUFFICES ASSUME NEW k \in 1..Len(frames), NEW i \in 1..Len(frames[k].locals),
                        p = SlotOf(frames[k], base) + i - 1
                 PROVE  FALSE
    BY DEF IsCaptured
  <2>2. /\ SlotOf(frames[k], base) \in Int /\ Len(frames[k].locals) \in Nat
        /\ SlotOf(frames[k], base) + Len(frames[k].locals) <= FirstSlot + Len(Frame.locals)
    BY <1>1, <1>2, FrameFacts
  <2>3. FirstSlot \in Int /\ Len(Frame.locals) \in Nat
    BY <1>1, <1>2, FrameFacts
  <2>. DEFINE slot == SlotOf(frames[k], base)
              m == Len(frames[k].locals)
              top == Len(Frame.locals)
  <2>4. slot \in Int /\ m \in Int /\ slot + m <= FirstSlot + top
    BY <2>2
  <2>5. top \in Int /\ FirstSlot \in Int
    BY <2>3
  <2>6. i \in Int /\ i <= m
    BY <2>2
  <2>7. p = slot + i - 1
    BY <2>1, Zenon
  <2>8. p >= FirstSlot + top
    BY <1>4, Zenon
  <2>. HIDE DEF slot, m, top
  <2>. QED BY <2>4, <2>5, <2>6, <2>7, <2>8
<1>6. Plain(p) /\ ScopeBar[p] = stack[p] /\ Len(ScopeBar) = Len(stack)
  BY <1>1, <1>5 DEF Seen, Plain
<1>7. UNCHANGED ScopeBar
  BY <1>2 DEF ScopeBar, SlotBar
<1>8. UNCHANGED StoreBar
  BY <1>2, CreatedStays DEF StoreBar, Readable, Deref, SlotAt, InStack
<1>9. /\ Len(frames') = Len(frames) + 1 /\ frames'[Len(frames) + 1] = fr
      /\ \A k \in 1..Len(frames) : frames'[k] = frames[k]
  BY <1>1, <1>2
<1>10. SlotOf(fr, base) = p
  BY <1>1, <1>3, <1>4 DEF SlotOf
<1>11. FirstBar' = Append(FirstBar, p)
  <2>1. /\ FirstBar \in Seq(Int) /\ Len(FirstBar) = Len(frames)
        /\ FirstBar' \in Seq(Int) /\ Len(FirstBar') = Len(frames) + 1
    BY <1>1, <1>9 DEF Seen
  <2>2. /\ FirstBar'[Len(frames) + 1] = p
        /\ \A k \in 1..Len(frames) : FirstBar'[k] = FirstBar[k]
    <3>1. \A k \in 1..(Len(frames) + 1) : FirstBar'[k] = SlotOf(frames'[k], base)
      BY <1>1, <1>2, <1>9 DEF Seen
    <3>2. \A k \in 1..Len(frames) : FirstBar[k] = SlotOf(frames[k], base)
      BY <1>1 DEF Seen
    <3>3. Len(frames) + 1 \in 1..(Len(frames) + 1)
          /\ \A k \in 1..Len(frames) : k \in 1..(Len(frames) + 1)
      BY <1>1
    <3>. QED BY <1>9, <1>10, <3>1, <3>2, <3>3
  <2>3. /\ Append(FirstBar, p) \in Seq(Int) /\ Len(Append(FirstBar, p)) = Len(FirstBar')
        /\ \A k \in 1..Len(FirstBar') : FirstBar'[k] = Append(FirstBar, p)[k]
    BY <1>1, <2>1, <2>2
  <2>. QED BY <2>1, <2>3, SameSeq
<1>12. RunningBar' = Append(RunningBar, stack[p])
  <2>1. /\ RunningBar \in Seq(Clo \union {Script}) /\ Len(RunningBar) = Len(frames)
        /\ RunningBar' \in Seq(Clo \union {Script}) /\ Len(RunningBar') = Len(frames) + 1
    BY <1>1, <1>9 DEF Seen
  <2>2. /\ RunningBar'[Len(frames) + 1] = stack[p]
        /\ \A k \in 1..Len(frames) : RunningBar'[k] = RunningBar[k]
    <3>1. \A k \in 1..(Len(frames) + 1) : RunningBar'[k] = frames'[k].closure
      BY <1>1, <1>9 DEF Seen
    <3>2. \A k \in 1..Len(frames) : RunningBar[k] = frames[k].closure
      BY <1>1 DEF Seen
    <3>3. Len(frames) + 1 \in 1..(Len(frames) + 1)
          /\ \A k \in 1..Len(frames) : k \in 1..(Len(frames) + 1)
      BY <1>1
    <3>. QED BY <1>3, <1>4, <1>9, <3>1, <3>2, <3>3
  <2>3. /\ Append(RunningBar, stack[p]) \in Seq(Clo \union {Script})
        /\ Len(Append(RunningBar, stack[p])) = Len(RunningBar')
        /\ \A k \in 1..Len(RunningBar') : RunningBar'[k] = Append(RunningBar, stack[p])[k]
    <3>1. stack[p] \in Clo \union {Script}
      BY <1>2, <1>4
    <3>. QED BY <1>1, <2>1, <2>2, <3>1
  <2>. QED BY <2>1, <2>3, SameSeq
<1>13. FirstBar # <<>>
  BY <1>2, RunningSeen
<1>14. n \in 0..Len(ScopeBar) /\ n < Len(ScopeBar) /\ Len(ScopeBar) - n = p
  BY <1>1, <1>4, <1>6
<1>15. Lexical!Call(n)
  <2>1. stack[p] \in Clo
    BY <1>2, <1>4
  <2>. QED BY <1>2, <1>6, <1>7, <1>8, <1>11, <1>12, <1>13, <1>14, <2>1 DEF Lexical!Call
<1>. QED BY <1>14, <1>15 DEF Lexical!Next

\* The calls below the running one.
LEMMA ReturnCalls ==
  ASSUME Ideal, Ideal', frames # <<>>, Len(frames') = Len(frames) - 1,
         \A k \in 1..(Len(frames) - 1) :
           /\ SlotOf(frames'[k], base') = SlotOf(frames[k], base)
           /\ frames'[k].closure = frames[k].closure
  PROVE  /\ FirstBar' = SubSeq(FirstBar, 1, Len(FirstBar) - 1)
         /\ RunningBar' = SubSeq(RunningBar, 1, Len(RunningBar) - 1)
<1>1. Seen /\ Seen' /\ Len(frames) \in Nat /\ Len(frames) >= 1 /\ frames \in Seq(FrameType)
  BY IdealSeen, NextSeen, IdealBasics, FrameFacts
<1>. DEFINE m == Len(frames) - 1
<1>2. m \in Nat /\ m \in 0..Len(frames) /\ \A k \in 1..m : k \in 1..Len(frames)
  BY <1>1
<1>3. FirstBar' = SubSeq(FirstBar, 1, Len(FirstBar) - 1)
  <2>1. /\ FirstBar \in Seq(Int) /\ FirstBar' \in Seq(Int)
        /\ Len(FirstBar) = Len(frames) /\ Len(FirstBar') = m
    BY <1>1 DEF Seen
  <2>2. \A k \in 1..m : FirstBar'[k] = FirstBar[k]
    BY <1>1, <1>2 DEF Seen
  <2>3. /\ SubSeq(FirstBar, 1, m) \in Seq(Int) /\ Len(SubSeq(FirstBar, 1, m)) = m
        /\ \A k \in 1..m : SubSeq(FirstBar, 1, m)[k] = FirstBar[k]
    <3>1. m \in 0..Len(FirstBar)
      BY <1>2, <2>1
    <3>. HIDE DEF m
    <3>. QED BY <2>1, <3>1, PrefixIs
  <2>4. FirstBar' = SubSeq(FirstBar, 1, m)
    BY <2>1, <2>2, <2>3, SameSeq
  <2>. QED BY <2>1, <2>4
<1>4. RunningBar' = SubSeq(RunningBar, 1, Len(RunningBar) - 1)
  <2>. DEFINE T == Clo \union {Script}
  <2>1. /\ RunningBar \in Seq(T) /\ RunningBar' \in Seq(T)
        /\ Len(RunningBar) = Len(frames) /\ Len(RunningBar') = m
    BY <1>1 DEF Seen
  <2>2. \A k \in 1..m : RunningBar'[k] = RunningBar[k]
    BY <1>1, <1>2 DEF Seen
  <2>3. /\ SubSeq(RunningBar, 1, m) \in Seq(T) /\ Len(SubSeq(RunningBar, 1, m)) = m
        /\ \A k \in 1..m : SubSeq(RunningBar, 1, m)[k] = RunningBar[k]
    <3>1. m \in 0..Len(RunningBar)
      BY <1>2, <2>1
    <3>. HIDE DEF m
    <3>. QED BY <2>1, <3>1, PrefixIs
  <2>4. RunningBar' = SubSeq(RunningBar, 1, m)
    BY <2>1, <2>2, <2>3, SameSeq
  <2>. QED BY <2>1, <2>4
<1>. QED BY <1>3, <1>4

LEMMA ReturnSeen ==
  ASSUME Ideal, Ideal', Return
  PROVE  Lexical!Next
<1>. DEFINE m == Len(frames)
            fs == SubSeq(frames, 1, m - 1)
            a == Frame.slots
            n == FirstSlot - 1
<1>1. /\ frames # <<>> /\ Operands = 1 /\ (Len(frames) = 1 => Len(Frame.locals) = 1)
      /\ CloseFrom(a) /\ glob' = glob
      /\ \/ Len(frames) > 1 /\ Push(n, fs, Top)
         \/ /\ Len(frames) = 1 /\ stack' = SubSeq(stack, 1, Len(stack) - 2)
            /\ frames' = <<>> /\ base' = base
  BY NoFault DEF Return, Running
<1>2. /\ Seen /\ Seen' /\ IInv /\ TypeOK /\ base \in Int
      /\ stack \in Seq(Value) /\ Len(stack) \in Nat
      /\ frames \in Seq(FrameType) /\ m \in Nat /\ base' = base
  BY IdealSeen, NextSeen, IdealBasics, BaseStays
<1>3. /\ FirstSlot \in 1..Len(stack) /\ FirstSlot = SlotOf(Frame, base) /\ Frame = frames[m]
      /\ a \in Int /\ a = base + FirstSlot - 1
      /\ Operands = Len(stack) - FirstSlot + 1 - Len(Frame.locals)
  BY <1>1, <1>2, FrameFacts
<1>4. n \in Int /\ a = base + n /\ n \in 0..Len(stack) /\ n + 1 = FirstSlot
  BY <1>2, <1>3
<1>5. /\ FirstBar # <<>> /\ FirstBar[Len(FirstBar)] = FirstSlot /\ Len(ScopeBar) = Len(stack)
      /\ Lexical!Last = Top /\ Top \in Value
  BY <1>1, RunningSeen
<1>. HIDE DEF a, n
<1>6. /\ \A u : u \in Range(open') <=> u \in Range(open) /\ SlotAt(loc[u]) <= n
      /\ \A u \in Range(open') : loc'[u] = loc[u]
      /\ \A u \in Created : u \notin Range(open') => closed'[u] = Deref(u)
      /\ upvalues' = upvalues
  BY <1>1, <1>3, <1>4, CloseSeen
<1>7. Created' \subseteq Created
  BY <1>6 DEF Created
<1>8. \A u \in Created' : u \notin Range(open') => closed'[u] = Deref(u)
  BY <1>6, <1>7
<1>9. CASE Len(frames) > 1 /\ Push(n, fs, Top)
  <2>1. m - 1 \in 0..m
    BY <1>2, <1>9
  <2>2. /\ fs \in Seq(FrameType) /\ Len(fs) = m - 1 /\ \A k \in 1..(m - 1) : fs[k] = frames[k]
    BY <1>2, <2>1, PrefixIs
  <2>. HIDE DEF fs
  <2>3. /\ stack' \in Seq(Value) /\ Len(stack') = n + 1 /\ stack'[n + 1] = Top
        /\ \A i \in 1..n : stack'[i] = stack[i]
        /\ SameCalls(base, fs, base', frames')
    BY <1>2, <1>4, <1>5, <1>9, <2>2, PushEffect
  <2>4. /\ \A i \in 1..n : ScopeBar'[i] = ScopeBar[i]
        /\ \A i \in (n + 1)..Len(stack') : ScopeBar'[i] = stack'[i]
        /\ \A u \in Created' : Deref(u)' = Deref(u)
    <3>1. n <= Len(stack')
      BY <1>4, <2>3
    <3>. QED BY <1>4, <1>6, <1>7, <1>8, <2>3, <3>1, SeenBelow
  <2>5. Lexical!Store(StoreBar)
    BY <1>7, <2>4, StoreShrinks
  <2>6. ScopeBar' = Append(Lexical!Until(FirstBar[Len(FirstBar)] - 1), Lexical!Last)
    <3>. DEFINE low == SubSeq(ScopeBar, 1, n)
    <3>1. /\ ScopeBar \in Seq(Value \union Up) /\ ScopeBar' \in Seq(Value \union Up)
          /\ Len(ScopeBar') = n + 1 /\ n \in 0..Len(ScopeBar)
      BY <1>2, <1>4, <1>5, <2>3 DEF Seen
    <3>2. low \in Seq(Value \union Up) /\ Len(low) = n /\ \A i \in 1..n : low[i] = ScopeBar[i]
      BY <3>1, PrefixIs
    <3>. HIDE DEF low
    <3>3. ScopeBar'[n + 1] = Top
      BY <1>4, <2>3, <2>4
    <3>4. /\ Append(low, Top) \in Seq(Value \union Up) /\ Len(Append(low, Top)) = n + 1
          /\ \A i \in 1..(n + 1) : Append(low, Top)[i] = ScopeBar'[i]
      BY <1>4, <1>5, <2>4, <3>1, <3>2, <3>3
    <3>5. ScopeBar' = Append(low, Top)
      BY <3>1, <3>4, SameSeq
    <3>6. low = Lexical!Until(FirstBar[Len(FirstBar)] - 1)
      BY <1>5 DEF low, n, Lexical!Until
    <3>. QED BY <1>5, <3>5, <3>6
  <2>7. /\ FirstBar' = SubSeq(FirstBar, 1, Len(FirstBar) - 1)
        /\ RunningBar' = SubSeq(RunningBar, 1, Len(RunningBar) - 1)
    <3>1. Len(frames') = m - 1
      BY <2>2, <2>3 DEF SameCalls
    <3>2. \A k \in 1..(m - 1) : /\ SlotOf(frames'[k], base') = SlotOf(frames[k], base)
                                /\ frames'[k].closure = frames[k].closure
      BY <2>2, <2>3 DEF SameCalls
    <3>. QED BY <1>1, <3>1, <3>2, ReturnCalls
  <2>8. Len(FirstBar) > 1
    BY <1>2, <1>9 DEF Seen
  <2>9. Lexical!Return
    BY <1>1, <1>6, <2>5, <2>6, <2>7, <2>8 DEF Lexical!Return
  <2>. QED BY <2>9 DEF Lexical!Next
<1>10. CASE /\ Len(frames) = 1 /\ stack' = SubSeq(stack, 1, Len(stack) - 2)
            /\ frames' = <<>> /\ base' = base
  <2>1. FirstSlot = 1 /\ n = 0
    <3>1. FirstSlot = 1
      BY <1>1, <1>2, <1>3, <1>10, BasicFacts DEF WindowsOf
    <3>. QED BY <3>1 DEF n
  <2>2. Len(stack) = 2
    <3>. DEFINE t == Len(stack)
                q == Len(Frame.locals)
    <3>1. t \in Int /\ q = 1 /\ Operands = 1 /\ Operands = t - FirstSlot + 1 - q
      BY <1>1, <1>2, <1>3, <1>10
    <3>. HIDE DEF t, q
    <3>2. t = 2
      BY <2>1, <3>1
    <3>. QED BY <3>2 DEF t
  <2>3. Len(stack') = 0
    BY <1>2, <1>10, <2>2
  <2>4. \A u \in Created' : Deref(u)' = Deref(u)
    <3>1. n <= Len(stack') /\ \A i \in 1..n : stack'[i] = stack[i]
      BY <2>1, <2>3
    <3>. QED BY <1>4, <1>6, <1>7, <1>8, <3>1, SeenBelow
  <2>5. Lexical!Store(StoreBar)
    BY <1>7, <2>4, StoreShrinks
  <2>6. ScopeBar' = <<>>
    <3>1. ScopeBar' \in Seq(Value \union Up) /\ Len(ScopeBar') = 0
      BY <1>2, <2>3 DEF Seen
    <3>. QED BY <3>1
  <2>7. FirstBar' = <<>> /\ RunningBar' = <<>>
    <3>1. /\ FirstBar' \in Seq(Int) /\ Len(FirstBar') = 0
          /\ RunningBar' \in Seq(Clo \union {Script}) /\ Len(RunningBar') = 0
      BY <1>2, <1>10 DEF Seen
    <3>. QED BY <3>1
  <2>8. Lexical!End
    BY <1>1, <1>5, <1>6, <2>5, <2>6, <2>7 DEF Lexical!End
  <2>. QED BY <2>8 DEF Lexical!Next
<1>. QED BY <1>1, <1>9, <1>10

\* Every step of the stack, the frames and the upvalues is a step of the scopes and
\* the boxes that they stand for, or changes nothing of what a program can see.
LEMMA LexicalStep ==
  ASSUME Ideal, Ideal', [Next]_vars
  PROVE  [Lexical!Next]_(Lexical!vars)
<1>1. CASE UNCHANGED vars
  <2>1. UNCHANGED <<base, stack, frames, stale>> /\ UNCHANGED <<open, loc, closed, upvalues, glob>>
    BY <1>1 DEF vars, stackVars, upVars
  <2>2. UNCHANGED <<ScopeBar, FirstBar, RunningBar>>
    BY <2>1 DEF ScopeBar, SlotBar, FirstBar, RunningBar, SlotAt
  <2>3. UNCHANGED StoreBar
    BY <2>1, CreatedStays DEF StoreBar, Readable, Deref, SlotAt, InStack
  <2>. QED BY <2>1, <2>2, <2>3 DEF Lexical!vars
<1>2. CASE \/ \E v \in Val : Constant(v)
           \/ \E i \in 1..MaxStack : GetLocal(i)
           \/ \E k \in 1..MaxCaptures : GetUpvalue(k)
           \/ GetGlobal
  BY <1>2, ReadSeen
<1>3. CASE \E i \in 1..MaxStack : SetLocal(i)
  BY <1>3, SetLocalSeen
<1>4. CASE \E k \in 1..MaxCaptures : SetUpvalue(k)
  BY <1>4, SetUpvalueSeen
<1>5. CASE SetGlobal
  BY <1>5, SetGlobalSeen
<1>6. CASE \E captured \in BOOLEAN : DeclareLocal(captured)
  BY <1>6, DeclareSeen
<1>7. CASE PopOperand
  BY <1>7, PopSeen
<1>8. CASE EndScope
  BY <1>8, EndScopeSeen
<1>9. CASE Interpret
  BY <1>9, InterpretSeen
<1>10. CASE \E f \in Clo, n \in 0..MaxCaptures, ls \in {<<>>, <<TRUE>>, <<FALSE>>} :
              Closure(f, n, ls)
  BY <1>10, ClosureSeen
<1>11. CASE \E k \in 1..MaxCaptures : CaptureOuter(k)
  BY <1>11, CaptureOuterSeen
<1>12. CASE \E i \in 1..MaxStack : CaptureLocal(i)
  BY <1>12, CaptureLocalSeen
<1>13. CASE \E n \in 0..MaxArity : \E ls \in [1..n -> BOOLEAN] : Call(n, ls)
  BY <1>13, CallSeen
<1>14. CASE Return
  BY <1>14, ReturnSeen
<1>15. CASE RuntimeError
  BY <1>15 DEF RuntimeError, Ideal
<1>. QED BY <1>1, <1>2, <1>3, <1>4, <1>5, <1>6, <1>7, <1>8, <1>9, <1>10, <1>11, <1>12,
            <1>13, <1>14, <1>15 DEF Next

LEMMA LexicalInit ==
  ASSUME Init
  PROVE  Lexical!Init
<1>1. /\ stack = <<>> /\ frames = <<>> /\ open = <<>> /\ glob \in Val
      /\ upvalues = [f \in Clo \union {Script} |-> <<>>]
  BY DEF Init
<1>2. ScopeBar = <<>> /\ FirstBar = <<>> /\ RunningBar = <<>>
  BY <1>1 DEF ScopeBar, FirstBar, RunningBar
<1>3. Created = {}
  BY <1>1 DEF Created, Range
<1>4. StoreBar = <<>>
  BY <1>3 DEF StoreBar
<1>. QED BY <1>1, <1>2, <1>4 DEF Lexical!Init

\* For a stack that stays where it is and a program without runtime errors, the value
\* stack, the frames and the list of open upvalues of vm.c implement scopes whose
\* captured variables live in shared boxes: what any closure reads is what was last
\* assigned to the variable, by whichever closure or scope, before or after its end.
THEOREM UpvaluesImplementScope ==
  ASSUME OneBase, Errors = FALSE
  PROVE  Spec => ImplementsScope
<1>1. Init => Lexical!Init
  BY LexicalInit
<1>2. IInv /\ IInv' /\ [Next]_vars => [Lexical!Next]_(Lexical!vars)
  <2>1. IInv => Ideal
    BY DEF Ideal
  <2>2. IInv' => Ideal'
    BY DEF Ideal
  <2>. QED BY <2>1, <2>2, LexicalStep
<1>. QED BY <1>1, <1>2, InductiveInvariant, PTL DEF Spec, ImplementsScope, Lexical!Spec

=============================================================================
