-------------------------- MODULE ProcessHeapProofs --------------------------
(***************************************************************************)
(* TLAPS proofs about ProcessHeap, for every capacity and every deadline:  *)
(* the array is ordered between two operations, its first slot is the      *)
(* earliest, and the array implements the bag of module PriorityQueue.     *)
(***************************************************************************)
EXTENDS ProcessHeap, InductionLemmas

\* The index arithmetic of __get_father and __get_lc: a son has a larger index
\* than its father and is its left or its right child.
LEMMA FatherOfSon ==
  ASSUME NEW i \in Nat \ {0}
  PROVE  /\ Father(i) \in Nat
         /\ Father(i) < i
         /\ i = Lc(Father(i)) \/ i = Lc(Father(i)) + 1
BY DEF Father, Lc

LEMMA SonsOfFather ==
  ASSUME NEW i \in Nat
  PROVE  /\ Lc(i) \in Nat /\ Lc(i) > i
         /\ Father(Lc(i)) = i
         /\ Father(Lc(i) + 1) = i
BY DEF Father, Lc

\* The deadline of whatever a slot holds is a number in range.
LEMMA SlotDeadline ==
  ASSUME NEW e \in Entry \cup {NoEntry}
  PROVE  e.x \in Int /\ e.x \in MinDeadline .. MaxDeadline
BY HeapAssumption DEF Entry, NoEntry

LEMMA InitHeap == Init => HeapInv
BY HeapAssumption, SlotDeadline
   DEF Init, HeapInv, TypeOK, Moving, AlmostOrdered, Slot, Entry, NoEntry

\* heap_push: only the edge above the new last slot may be out of order.
LEMMA PushKeeps ==
  ASSUME HeapInv, NEW e \in Entry, HeapPush(e)
  PROVE  HeapInv'
<1> USE HeapAssumption DEF HeapInv, Slot
<1>1. CASE size >= MaxHeapSize
  BY <1>1 DEF HeapPush, Hang, TypeOK, Moving, AlmostOrdered
<1>2. CASE size < MaxHeapSize
  <2>1. /\ entry' = [entry EXCEPT ![size] = e] /\ size' = size + 1
        /\ op' = "up" /\ op = "idle" /\ pos' = size /\ val' = e.x /\ ret' = ret
        /\ size \in Slot
    BY <1>2 DEF HeapPush, TypeOK
  <2>2. TypeOK'
    BY <2>1, SlotDeadline DEF TypeOK
  <2>3. Moving'
    BY <2>1 DEF TypeOK, Moving
  <2>4. ASSUME NEW i \in 1 .. size' - 1
        PROVE  /\ entry'[Father(i)].x <= entry'[i].x \/ i = pos'
               /\ Father(i) # pos'
    <3>1. Father(i) \in Slot /\ Father(i) < i /\ i \in Slot /\ i <= size
      BY <2>1, FatherOfSon DEF TypeOK
    <3>2. CASE i = size
      BY <2>1, <3>1, <3>2 DEF TypeOK
    <3>3. CASE i < size
      BY <2>1, <3>1, <3>3 DEF TypeOK, AlmostOrdered
    <3> QED
      BY <3>1, <3>2, <3>3 DEF TypeOK
  <2>5. AlmostOrdered'
    BY <2>1, <2>4 DEF AlmostOrdered
  <2> QED
    BY <2>2, <2>3, <2>5
<1> QED
  BY <1>1, <1>2 DEF TypeOK

\* One iteration of the bottom-up loop: the edge below the old father becomes
\* ordered, the one above it may not be, and nothing else changes.
LEMMA BottomUpKeeps ==
  ASSUME HeapInv, BottomUp
  PROVE  HeapInv'
<1> USE HeapAssumption DEF HeapInv, Slot
<1> DEFINE f == Father(pos)
<1>1. CASE ~(f # pos /\ entry[f].x > val)
  <2>1. op' = "idle" /\ UNCHANGED <<entry, size, pos, val, ret>> /\ op = "up"
    BY <1>1 DEF BottomUp
  <2>2. TypeOK' /\ Moving'
    BY <2>1 DEF TypeOK, Moving
  <2>3. ASSUME NEW i \in 1 .. size - 1
        PROVE  entry[Father(i)].x <= entry[i].x
    <3>1. i \in Slot /\ Father(i) \in Slot /\ Father(i) < i
      BY FatherOfSon DEF TypeOK
    <3>2. entry[i].x \in Int /\ entry[Father(i)].x \in Int /\ val \in Int
      BY <3>1, SlotDeadline DEF TypeOK
    <3> QED
      BY <1>1, <2>1, <3>1, <3>2 DEF Moving, AlmostOrdered
  <2>4. AlmostOrdered'
    BY <2>1, <2>3 DEF AlmostOrdered
  <2> QED
    BY <2>2, <2>4
<1>2. CASE f # pos /\ entry[f].x > val
  <2>1. /\ entry' = [entry EXCEPT ![f] = entry[pos], ![pos] = entry[f]]
        /\ pos' = f /\ UNCHANGED <<size, op, val, ret>> /\ op = "up"
    BY <1>2 DEF BottomUp, Exchange
  <2>2. pos \in Slot /\ pos # 0 /\ pos < size /\ f \in Slot /\ f < pos
    BY <1>2, <2>1, FatherOfSon DEF TypeOK, Moving, Father
  <2>3. TypeOK' /\ Moving'
    BY <2>1, <2>2 DEF TypeOK, Moving
  <2> HIDE DEF f
  <2>4. ASSUME NEW i \in 1 .. size - 1
        PROVE  /\ entry'[Father(i)].x <= entry'[i].x \/ i = f
               /\ Father(i) = f /\ f # 0 => entry'[Father(f)].x <= entry'[i].x
    <3>1. i \in Slot /\ Father(i) \in Slot /\ Father(i) < i
      BY FatherOfSon DEF TypeOK
    <3>2. /\ entry[i].x \in Int /\ entry[Father(i)].x \in Int
          /\ entry[pos].x \in Int /\ entry[f].x \in Int
      BY <2>2, <3>1, SlotDeadline DEF TypeOK
    <3>3. f # 0 => /\ Father(f) \in Slot /\ Father(f) < f /\ f \in 1 .. size - 1
                   /\ entry[Father(f)].x \in Int
      BY <2>2, FatherOfSon, SlotDeadline DEF TypeOK
    <3>4. entry[f].x > entry[pos].x
      BY <1>2, <2>1 DEF Moving, f
    <3>5. Father(i) = pos => entry[f].x <= entry[i].x
      BY <2>1, <2>2 DEF AlmostOrdered, f
    <3>6. i # pos => entry[Father(i)].x <= entry[i].x
      BY <2>1 DEF AlmostOrdered
    <3>7. f # 0 => entry[Father(f)].x <= entry[f].x
      BY <2>1, <2>2, <3>3 DEF AlmostOrdered
    <3>8. Father(pos) = f
      BY DEF f
    <3>9. entry'[Father(i)].x <= entry'[i].x \/ i = f
      BY <2>1, <2>2, <3>1, <3>2, <3>4, <3>5, <3>6, <3>8 DEF TypeOK
    <3>10. Father(i) = f /\ f # 0 => entry'[Father(f)].x <= entry'[i].x
      BY <2>1, <2>2, <3>1, <3>2, <3>3, <3>4, <3>6, <3>7, <3>8 DEF TypeOK
    <3> QED
      BY <3>9, <3>10
  <2>5. AlmostOrdered'
    BY <2>1, <2>4 DEF AlmostOrdered
  <2> QED
    BY <2>3, <2>5
<1> QED
  BY <1>1, <1>2

\* heap_gettop changes nothing but its result, or hangs.
LEMMA GetTopKeeps ==
  ASSUME HeapInv, HeapGetTop
  PROVE  HeapInv'
BY HeapAssumption DEF HeapInv, Slot, HeapGetTop, Hang, TypeOK, Moving, AlmostOrdered

\* heap_pop: only the edges below slot 0 may be out of order.
LEMMA PopKeeps ==
  ASSUME HeapInv, HeapPop
  PROVE  HeapInv'
<1> USE HeapAssumption DEF HeapInv, Slot
<1>1. /\ op = "idle" /\ op' = "down" /\ pos' = 0 /\ size > 0 /\ size' = size - 1
      /\ ret' = entry[0] /\ val' = entry'[0].x
      /\ entry' = IF size > 1 THEN [entry EXCEPT ![0] = entry[size - 1]] ELSE entry
  BY DEF HeapPop
<1>2. entry' \in [Slot -> Entry \cup {NoEntry}] /\ 0 \in Slot /\ size - 1 \in Slot
  BY <1>1 DEF TypeOK
<1>3. TypeOK' /\ Moving'
  BY <1>1, <1>2, SlotDeadline DEF TypeOK, Moving
<1>4. ASSUME NEW i \in 1 .. size' - 1, Father(i) # 0
      PROVE  entry'[Father(i)].x <= entry'[i].x
  <2>1. i \in Slot /\ Father(i) \in Slot /\ i \in 1 .. size - 1
    BY <1>1, FatherOfSon DEF TypeOK
  <2> QED
    BY <1>1, <1>4, <2>1 DEF TypeOK, AlmostOrdered
<1>5. AlmostOrdered'
  BY <1>1, <1>4 DEF AlmostOrdered
<1> QED
  BY <1>3, <1>5

\* tick_decrease_pt_heap: every edge keeps its order when all x decrease.
LEMMA TickKeeps ==
  ASSUME HeapInv, TickDecrease
  PROVE  HeapInv'
<1> USE HeapAssumption DEF HeapInv, Slot
<1>1. op = "idle" /\ UNCHANGED <<size, op, pos, val, ret>>
  BY DEF TickDecrease
<1>2. ASSUME NEW i \in Slot
      PROVE  /\ entry'[i] \in Entry \cup {NoEntry}
             /\ i < size => entry'[i].x = entry[i].x - 1
  BY SlotDeadline DEF TickDecrease, TypeOK, Entry, NoEntry
<1>3. TypeOK' /\ Moving'
  BY <1>1, <1>2 DEF TypeOK, Moving, TickDecrease
<1>4. AlmostOrdered'
  <2> SUFFICES ASSUME NEW i \in 1 .. size - 1
               PROVE  entry'[Father(i)].x <= entry'[i].x
    BY <1>1 DEF AlmostOrdered
  <2>1. i \in Slot /\ Father(i) \in Slot /\ Father(i) < size
    BY FatherOfSon DEF TypeOK
  <2>2. entry[i].x \in Int /\ entry[Father(i)].x \in Int
    BY <2>1, SlotDeadline DEF TypeOK
  <2>3. entry'[i].x = entry[i].x - 1 /\ entry'[Father(i)].x = entry[Father(i)].x - 1
    BY <1>2, <2>1 DEF TypeOK
  <2>4. entry[Father(i)].x <= entry[i].x
    BY <1>1 DEF AlmostOrdered
  <2> QED
    BY <2>2, <2>3, <2>4
<1> QED
  BY <1>3, <1>4

\* One iteration of the top-down loop, or the "if" after it: the moving element
\* changes places with its earlier child, so that both edges below its old slot
\* become ordered and only those below its new slot may not be.
LEMMA TopDownKeeps ==
  ASSUME HeapInv, TopDown
  PROVE  HeapInv'
<1> USE HeapAssumption DEF HeapInv, Slot
<1>1. op = "down" /\ UNCHANGED <<size, val, ret>> /\ val = entry[pos].x /\ pos \in Slot
  BY DEF TopDown, TypeOK, Moving
<1>2. ASSUME NEW i \in 1 .. size - 1
      PROVE  /\ i \in Slot /\ Father(i) \in Slot /\ Father(i) < i
             /\ i = Lc(Father(i)) \/ i = Lc(Father(i)) + 1
             /\ entry[i].x \in Int /\ entry[Father(i)].x \in Int
  BY FatherOfSon, SlotDeadline DEF TypeOK
<1>3. Lc(pos) \in Nat /\ Lc(pos) > pos /\ entry[pos].x \in Int
  <2>1. pos \in Nat /\ entry[pos] \in Entry \cup {NoEntry}
    BY <1>1 DEF TypeOK
  <2> QED
    BY <2>1, SonsOfFather, SlotDeadline
\* the loop stops: no child is earlier than the element
<1>4. CASE /\ UNCHANGED <<entry, pos>> /\ op' = "idle"
           /\ Lc(pos) < size => entry[pos].x <= entry[Lc(pos)].x
           /\ Lc(pos) + 1 < size => entry[pos].x <= entry[Lc(pos) + 1].x
  <2>1. TypeOK' /\ Moving'
    BY <1>1, <1>4 DEF TypeOK, Moving
  <2>2. ASSUME NEW i \in 1 .. size - 1
        PROVE  entry[Father(i)].x <= entry[i].x
    <3>1. CASE Father(i) = pos
      BY <1>2, <1>4, <3>1 DEF TypeOK
    <3>2. CASE Father(i) # pos
      BY <1>1, <3>2 DEF AlmostOrdered
    <3> QED
      BY <3>1, <3>2
  <2>3. AlmostOrdered'
    BY <1>1, <1>4, <2>2 DEF AlmostOrdered
  <2> QED
    BY <2>1, <2>3
\* it changes places with a child c that is not later than the other child
<1>5. ASSUME NEW c \in 1 .. size - 1, Father(c) = pos,
             entry[pos].x > entry[c].x,
             \A i \in 1 .. size - 1 : Father(i) = pos => entry[c].x <= entry[i].x,
             entry' = Exchange(pos, c),
             \/ op' = "down" /\ pos' = c
             \/ op' = "idle" /\ pos' = pos /\ \A i \in 1 .. size - 1 : Father(i) # c
      PROVE  HeapInv'
  <2>1. c \in Slot /\ pos < c /\ c < size /\ entry[c].x \in Int
    BY <1>2, <1>5 DEF TypeOK
  <2>2. entry' = [entry EXCEPT ![pos] = entry[c], ![c] = entry[pos]]
    BY <1>5 DEF Exchange
  <2>3. TypeOK' /\ Moving'
    BY <1>1, <1>5, <2>1, <2>2 DEF TypeOK, Moving
  <2>4. ASSUME NEW i \in 1 .. size - 1
        PROVE  /\ entry'[Father(i)].x <= entry'[i].x \/ Father(i) = c
               /\ Father(i) = c => entry'[pos].x <= entry'[i].x
    <3>1. Father(i) # pos => entry[Father(i)].x <= entry[i].x
      BY <1>1 DEF AlmostOrdered
    <3>2. Father(i) = pos => entry[c].x <= entry[i].x
      BY <1>5
    <3>3. i = pos => entry[Father(i)].x <= entry[c].x
      BY <1>1, <1>2, <1>5 DEF AlmostOrdered
    <3>4. entry'[Father(i)].x <= entry'[i].x \/ Father(i) = c
      <4>1. CASE i = c
        BY <1>1, <1>5, <2>1, <2>2, <4>1 DEF TypeOK
      <4>2. CASE i = pos
        BY <1>1, <1>2, <1>5, <2>1, <2>2, <3>3, <4>2 DEF TypeOK
      <4>3. CASE i # c /\ i # pos
        BY <1>1, <1>2, <1>5, <2>1, <2>2, <3>1, <3>2, <4>3 DEF TypeOK
      <4> QED
        BY <4>1, <4>2, <4>3
    <3>5. Father(i) = c => entry'[pos].x <= entry'[i].x
      BY <1>1, <1>2, <1>5, <2>1, <2>2, <3>1 DEF TypeOK
    <3> QED
      BY <3>4, <3>5
  <2>5. AlmostOrdered'
    BY <1>1, <1>5, <2>1, <2>4 DEF AlmostOrdered
  <2> QED
    BY <2>3, <2>5
<1>6. CASE Lc(pos) < size - 1
  <2> DEFINE c == MinChild(pos)
  <2>1. /\ c \in {Lc(pos), Lc(pos) + 1}
        /\ c \in 1 .. size - 1 /\ Father(c) = pos
        /\ Lc(pos) \in 1 .. size - 1 /\ Lc(pos) + 1 \in 1 .. size - 1
    <3>1. c = Lc(pos) \/ c = Lc(pos) + 1
      BY DEF MinChild
    <3>2. pos \in Nat /\ size \in Nat
      BY <1>1 DEF TypeOK
    <3>3. Father(Lc(pos)) = pos /\ Father(Lc(pos) + 1) = pos
      BY <3>2, SonsOfFather
    <3> HIDE DEF c
    <3> QED
      BY <1>3, <1>6, <3>1, <3>2, <3>3
  <2>2. /\ entry[Lc(pos)].x \in Int /\ entry[Lc(pos) + 1].x \in Int
        /\ entry[c].x <= entry[Lc(pos)].x
        /\ entry[c].x <= entry[Lc(pos) + 1].x
    BY <1>2, <2>1 DEF MinChild
  <2>3. CASE val > entry[c].x
    <3>1. entry' = Exchange(pos, c) /\ op' = "down" /\ pos' = c
      BY <1>1, <1>3, <1>6, <2>3 DEF TopDown, TypeOK
    <3>2. \A i \in 1 .. size - 1 : Father(i) = pos => entry[c].x <= entry[i].x
      BY <1>2, <2>2
    <3> HIDE DEF c
    <3> QED
      BY <1>1, <1>5, <2>1, <2>3, <3>1, <3>2
  <2>4. CASE ~(val > entry[c].x)
    <3>1. UNCHANGED <<entry, pos>> /\ op' = "idle"
      BY <1>3, <1>6, <2>4 DEF TopDown, TypeOK
    <3>2. entry[pos].x <= entry[c].x /\ entry[c].x \in Int
      BY <1>1, <1>2, <1>3, <2>1, <2>4
    <3> HIDE DEF c
    <3> QED
      BY <1>3, <1>4, <2>2, <3>1, <3>2
  <2> QED
    BY <2>3, <2>4
<1>7. CASE Lc(pos) >= size - 1
  <2>1. op' = "idle" /\ pos' = pos
    BY <1>3, <1>7 DEF TopDown, TypeOK
  <2>2. CASE Lc(pos) = size - 1 /\ val > entry[Lc(pos)].x
    <3> DEFINE c == Lc(pos)
    <3>1. entry' = Exchange(pos, c)
      BY <1>3, <1>7, <2>2 DEF TopDown, TypeOK
    <3>2. c \in 1 .. size - 1 /\ Father(c) = pos
      BY <1>1, <1>3, <2>2, SonsOfFather DEF TypeOK
    <3>3. ASSUME NEW i \in 1 .. size - 1
          PROVE  /\ Father(i) = pos => i = c
                 /\ Father(i) # c
      <4>1. Father(i) \in Nat /\ Father(i) < i /\ i <= size - 1 /\ size \in Nat
        BY <1>2 DEF TypeOK
      <4>2. Father(i) # Lc(pos)
        BY <1>3, <2>2, <4>1
      <4>3. Father(i) = pos => i = Lc(pos)
        BY <1>2, <1>3, <2>2, <4>1
      <4> QED
        BY <4>2, <4>3
    <3>4. entry[c].x \in Int
      BY <1>2, <3>2
    <3>5. \A i \in 1 .. size - 1 : Father(i) = pos => entry[c].x <= entry[i].x
      BY <3>3, <3>4
    <3> HIDE DEF c
    <3> QED
      BY <1>1, <1>5, <2>1, <2>2, <3>1, <3>2, <3>3, <3>5 DEF c
  <2>3. CASE ~(Lc(pos) = size - 1 /\ val > entry[Lc(pos)].x)
    <3>1. UNCHANGED entry
      BY <1>3, <1>7, <2>3 DEF TopDown, TypeOK
    <3>2. Lc(pos) < size => entry[pos].x <= entry[Lc(pos)].x
      <4> SUFFICES ASSUME Lc(pos) < size
                   PROVE  entry[pos].x <= entry[Lc(pos)].x
        OBVIOUS
      <4>1. Lc(pos) \in 1 .. size - 1 /\ Lc(pos) = size - 1
        BY <1>3, <1>7, <1>1 DEF TypeOK
      <4> QED
        BY <1>1, <1>2, <1>3, <2>3, <4>1
    <3>3. ~(Lc(pos) + 1 < size)
      BY <1>3, <1>7 DEF TypeOK
    <3> QED
      BY <1>4, <2>1, <3>1, <3>2, <3>3
  <2> QED
    BY <2>2, <2>3
<1> QED
  BY <1>3, <1>6, <1>7 DEF TypeOK

\* The array is a heap between two operations, and almost one inside a loop:
\* heap_push, heap_pop and the decrement of all deadlines keep it so.
THEOREM HeapCorrect == Spec => []HeapInv
<1>1. HeapInv /\ [Next]_vars => HeapInv'
  <2> SUFFICES ASSUME HeapInv, [Next]_vars
               PROVE  HeapInv'
    OBVIOUS
  <2>1. CASE UNCHANGED vars
    BY <2>1 DEF vars, HeapInv, TypeOK, Moving, AlmostOrdered
  <2>2. CASE Spin
    BY <2>1, <2>2 DEF Spin
  <2> QED
    BY <2>1, <2>2, PushKeeps, BottomUpKeeps, GetTopKeeps, PopKeeps, TopDownKeeps, TickKeeps
       DEF Next
<1> QED
  BY InitHeap, <1>1, PTL DEF Spec

\* In a heap no slot is earlier than slot 0: the least slot that were would
\* have a father that is not.
LEMMA RootIsEarliest ==
  ASSUME HeapInv, op = "idle"
  PROVE  \A i \in 0 .. size - 1 : entry[0].x <= entry[i].x
<1> DEFINE Early == {i \in 0 .. size - 1 : entry[i].x < entry[0].x}
<1>1. ASSUME NEW i \in 0 .. size - 1
      PROVE  i \in Slot /\ entry[i].x \in Int /\ entry[0].x \in Int
  BY HeapAssumption, SlotDeadline DEF HeapInv, TypeOK, Slot
<1>2. Early = {}
  <2> SUFFICES ASSUME Early # {}
               PROVE  FALSE
    OBVIOUS
  <2>0. Early \in SUBSET Nat
    BY DEF HeapInv, TypeOK
  <2>1. PICK m \in Early : \A n \in Early : m <= n
    <3> HIDE DEF Early
    <3> QED
      BY <2>0, LeastOfNats
  <2>2. m \in 1 .. size - 1
    BY <1>1 DEF HeapInv, TypeOK
  <2>3. Father(m) \in 0 .. size - 1 /\ Father(m) < m
    BY <2>2, FatherOfSon DEF HeapInv, TypeOK
  <2>4. ~(entry[Father(m)].x < entry[0].x)
    BY <2>1, <2>3
  <2>5. entry[Father(m)].x <= entry[m].x
    BY <2>2 DEF HeapInv, AlmostOrdered
  <2> QED
    BY <1>1, <2>2, <2>3, <2>4, <2>5
<1> QED
  BY <1>1, <1>2

\* heap_gettop and heap_pop are called between two operations, when slot 0 has
\* the earliest deadline of the queue.
THEOREM TopEarliest == Spec => []TopIsEarliest
<1>1. HeapInv => TopIsEarliest
  BY RootIsEarliest DEF TopIsEarliest
<1> QED
  BY HeapCorrect, <1>1, PTL

\* The entry heap_pop returns and removes is not later than any queued one.
THEOREM PopEarliest == Spec => PopsEarliest
<1>1. HeapInv /\ [Next]_vars
        => [size' < size => \A i \in 0 .. size - 1 : ret'.x <= entry[i].x]_vars
  <2> SUFFICES ASSUME HeapInv, Next, size' < size
               PROVE  \A i \in 0 .. size - 1 : ret'.x <= entry[i].x
    BY DEF vars
  <2>1. HeapPop
    BY HeapAssumption DEF Next, HeapPush, Hang, BottomUp, HeapGetTop, TopDown, TickDecrease, Spin,
              vars, HeapInv, TypeOK
  <2>2. ret' = entry[0] /\ op = "idle"
    BY <2>1 DEF HeapPop
  <2> QED
    BY <2>2, RootIsEarliest
<1> QED
  BY HeapCorrect, <1>1, PTL DEF Spec, PopsEarliest
-----------------------------------------------------------------------------
(* The array as a bag of entries. *)

\* The slots below n that hold e, and their number.
Where(a, n, e) == {i \in 0 .. n - 1 : a[i] = e}
Count(a, n, e) == Cardinality(Where(a, n, e))

\* How often an entry occurs.
LEMMA CountType ==
  ASSUME NEW a, NEW n \in Nat, NEW e
  PROVE  /\ IsFiniteSet(Where(a, n, e)) /\ Count(a, n, e) \in 0 .. n
         /\ Count(a, n, e) > 0 <=> \E i \in 0 .. n - 1 : a[i] = e
<1>1. IsFiniteSet(0 .. n - 1) /\ Cardinality(0 .. n - 1) = n
  BY FS_Interval
<1>2. Where(a, n, e) \subseteq 0 .. n - 1
  BY DEF Where
<1> DEFINE W == Where(a, n, e)
<1> HIDE DEF W
<1>3. IsFiniteSet(W) /\ Cardinality(W) \in Nat /\ Cardinality(W) <= n
  BY <1>1, <1>2, FS_Subset, FS_CardinalityType DEF W
<1>4. Cardinality(W) > 0 <=> W # {}
  BY <1>3, FS_EmptySet
<1>5. W # {} <=> \E i \in 0 .. n - 1 : a[i] = e
  BY DEF W, Where
<1> QED
  BY <1>3, <1>4, <1>5 DEF W, Count

\* The pairs of an entry and the number of a copy of it: one for each slot.
Copies(a, n) == {ec \in Entry \X (1 .. MaxHeapSize) : ec[2] <= Count(a, n, ec[1])}

\* As many copies as slots: the size of the bag is that of the array.
LEMMA CopiesCounted ==
  ASSUME NEW a, NEW n \in 0 .. MaxHeapSize, \A i \in 0 .. n - 1 : a[i] \in Entry
  PROVE  Cardinality(Copies(a, n)) = n
<1> DEFINE S == {k \in 0 .. n : /\ IsFiniteSet(Copies(a, k))
                                /\ Cardinality(Copies(a, k)) = k}
<1>0. n \in Nat /\ MaxHeapSize \in Nat
  BY HeapAssumption
<1>1. 0 \in S
  <2>1. \A e : Where(a, 0, e) = {}
    BY DEF Where
  <2>2. \A e : Count(a, 0, e) = 0
    BY <2>1, FS_EmptySet DEF Count
  <2>3. Copies(a, 0) = {}
    BY <2>2 DEF Copies
  <2> QED
    BY <1>0, <2>3, FS_EmptySet
<1>2. ASSUME NEW k \in 1 .. n, k - 1 \in S
      PROVE  k \in S
  <2> DEFINE e == a[k - 1]
             c == Count(a, k, e)
  <2>1. /\ k \in Nat /\ k - 1 \in Nat /\ k - 1 \in 0 .. n - 1 /\ k <= MaxHeapSize /\ e \in Entry
        /\ k - 1 \in 0 .. k - 1
    BY <1>0
  <2>2. \A x : x # e => Where(a, k, x) = Where(a, k - 1, x)
    BY <2>1 DEF Where
  <2>3. Where(a, k, e) = Where(a, k - 1, e) \cup {k - 1} /\ k - 1 \notin Where(a, k - 1, e)
    BY <2>1 DEF Where
  <2> HIDE DEF e
  <2>4. Count(a, k, e) = Count(a, k - 1, e) + 1
    BY <2>1, <2>3, CountType, FS_AddElement DEF Count
  <2>5. \A x : x # e => Count(a, k, x) = Count(a, k - 1, x)
    BY <2>2 DEF Count
  <2>6. \A x : Count(a, k - 1, x) \in 0 .. k - 1
    BY <2>1, CountType
  <2>7. c \in 1 .. MaxHeapSize /\ c = Count(a, k - 1, e) + 1
    BY <1>0, <2>1, <2>4, <2>6
  <2> HIDE DEF c
  <2>8. Copies(a, k) = Copies(a, k - 1) \cup {<<e, c>>}
    <3>1. \A x \in Entry, m \in 1 .. MaxHeapSize :
            m <= Count(a, k, x) <=> m <= Count(a, k - 1, x) \/ (x = e /\ m = c)
      BY <2>1, <2>4, <2>5, <2>6, <2>7
    <3>2. <<e, c>> \in Entry \X (1 .. MaxHeapSize)
      BY <2>1, <2>7
    <3> QED
      BY <3>1, <3>2 DEF Copies
  <2>9. <<e, c>> \notin Copies(a, k - 1)
    BY <2>6, <2>7 DEF Copies
  <2>10. IsFiniteSet(Copies(a, k - 1)) /\ Cardinality(Copies(a, k - 1)) = k - 1
    BY <1>2
  <2>11. IsFiniteSet(Copies(a, k)) /\ Cardinality(Copies(a, k)) = (k - 1) + 1
    <3> DEFINE C == Copies(a, k - 1)
               new == <<e, c>>
    <3>1. IsFiniteSet(C) /\ new \notin C /\ Copies(a, k) = C \cup {new} /\ Cardinality(C) = k - 1
      BY <2>8, <2>9, <2>10
    <3> HIDE DEF C, new
    <3>2. IsFiniteSet(C \cup {new}) /\ Cardinality(C \cup {new}) = Cardinality(C) + 1
      BY <3>1, FS_AddElement
    <3> QED
      BY <3>1, <3>2
  <2> QED
    BY <2>1, <2>11
<1> HIDE DEF S
<1>3. \A k \in 0 .. n : k \in S
  BY <1>0, <1>1, <1>2, UpToInduction
<1> QED
  BY <1>0, <1>3 DEF S

\* __exchange keeps the bag.
LEMMA ExchangeCounts ==
  ASSUME NEW a, NEW b, NEW n \in Nat, NEW i \in 0 .. n - 1, NEW j \in 0 .. n - 1,
         b[i] = a[j], b[j] = a[i], \A k \in 0 .. n - 1 : k # i /\ k # j => b[k] = a[k],
         NEW e
  PROVE  Count(b, n, e) = Count(a, n, e)
<1> DEFINE D == 0 .. n - 1
           A == Where(a, n, e)
           M == (A \ {i}) \cup (IF b[i] = e THEN {i} ELSE {})
           B == Where(b, n, e)
<1>1. IsFiniteSet(D)
  <2>1. 0 \in Int /\ n - 1 \in Int
    OBVIOUS
  <2> QED
    BY <2>1, FS_Interval
<1>2. /\ A \in SUBSET D /\ M \in SUBSET D /\ B \in SUBSET D
      /\ \A y \in D : y # i => (y \in A <=> y \in M)
      /\ \A y \in D : y # j => (y \in M <=> y \in B)
      /\ i \in A <=> a[i] = e
      /\ i \in M <=> b[i] = e
      /\ j \in B <=> b[j] = e
      /\ i # j => (j \in M <=> a[j] = e)
      /\ i = j => (j \in M <=> a[i] = e)
  BY DEF Where
<1> HIDE DEF D, A, M, B
<1>3. /\ Cardinality(A) \in Nat /\ Cardinality(M) \in Nat
      /\ Cardinality(M) = Cardinality(A) - (IF i \in A THEN 1 ELSE 0) + (IF i \in M THEN 1 ELSE 0)
  BY <1>1, <1>2, CountChange
<1>4. /\ Cardinality(B) \in Nat
      /\ Cardinality(B) = Cardinality(M) - (IF j \in M THEN 1 ELSE 0) + (IF j \in B THEN 1 ELSE 0)
  BY <1>1, <1>2, CountChange
<1>5. Cardinality(B) = Cardinality(A)
  BY <1>2, <1>3, <1>4
<1> QED
  BY <1>5 DEF A, B, Count

\* The occupied slots hold entries.
Occupied == \A i \in 0 .. size - 1 : entry[i] \in Entry

\* The bag of the array, as the refinement mapping has it.
Bag == [e \in Entry |-> Count(entry, size, e)]

\* The types, from HeapInv.
LEMMA HeapFacts ==
  ASSUME HeapInv
  PROVE  /\ entry \in [Slot -> Entry \cup {NoEntry}] /\ size \in 0 .. MaxHeapSize
         /\ size \in Nat /\ MaxHeapSize \in Nat \ {0} /\ MaxDeadline \in Nat
         /\ pos \in Slot /\ pos \in Nat /\ \A i \in 0 .. size - 1 : i \in Slot
         /\ \A i \in Int : i \in Slot <=> 0 <= i /\ i < MaxHeapSize
BY HeapAssumption DEF HeapInv, TypeOK, Slot

\* heap_push adds one copy.
LEMMA PushBag ==
  ASSUME HeapInv, Occupied, NEW e \in Entry, HeapPush(e), size < MaxHeapSize
  PROVE  /\ Occupied' /\ Bag' = [Bag EXCEPT ![e] = @ + 1]
         /\ op = "idle" /\ op' = "up" /\ ret' = ret
<1>1. /\ entry' = [entry EXCEPT ![size] = e] /\ size' = size + 1 /\ op = "idle" /\ op' = "up"
      /\ ret' = ret
  BY HeapFacts DEF HeapPush, Hang
<1>2. /\ size \in Nat /\ size \in Slot /\ entry'[size] = e
      /\ \A i \in 0 .. size - 1 : entry'[i] = entry[i]
      /\ \A i : i \in 0 .. (size + 1) - 1 <=> i \in 0 .. size - 1 \/ i = size
  BY <1>1, HeapFacts
<1>3. Occupied'
  BY <1>1, <1>2 DEF Occupied
<1>4. ASSUME NEW x \in Entry
      PROVE  Count(entry', size', x) = IF x = e THEN Count(entry, size, x) + 1
                                       ELSE Count(entry, size, x)
  <2> DEFINE W == Where(entry, size, x)
  <2>1. /\ size \notin W
        /\ Where(entry', size + 1, x) = IF x = e THEN W \cup {size} ELSE W
    BY <1>2 DEF Where
  <2>2. IsFiniteSet(W)
    BY <1>2, CountType
  <2> HIDE DEF W
  <2>3. Cardinality(W \cup {size}) = Cardinality(W) + 1
    BY <2>1, <2>2, FS_AddElement
  <2> QED
    BY <1>1, <2>1, <2>3 DEF Count, W
<1>5. Bag' = [Bag EXCEPT ![e] = @ + 1]
  BY <1>4 DEF Bag
<1> QED
  BY <1>1, <1>3, <1>5

\* One iteration of a loop exchanges two occupied slots, or none.
Exchanges(i, j) ==
  /\ entry'[i] = entry[j] /\ entry'[j] = entry[i]
  /\ \A k \in 0 .. size - 1 : k # i /\ k # j => entry'[k] = entry[k]

\* An exchange of two occupied slots does not change the bag.
LEMMA SiftBag ==
  ASSUME HeapInv, Occupied, size' = size, NEW i \in 0 .. size - 1, NEW j \in 0 .. size - 1,
         Exchanges(i, j)
  PROVE  Occupied' /\ Bag' = Bag
<1>1. size \in Nat
  BY HeapFacts
<1>2. Occupied'
  BY DEF Occupied, Exchanges
<1>3. \A e \in Entry : Count(entry', size', e) = Count(entry, size, e)
  BY <1>1, ExchangeCounts DEF Exchanges
<1> QED
  BY <1>2, <1>3 DEF Bag

\* Neither does a step that leaves the array alone.
LEMMA SameBag ==
  ASSUME Occupied, UNCHANGED <<entry, size>>
  PROVE  Occupied' /\ Bag' = Bag
BY DEF Occupied, Bag

\* __rearrange_bottomup moves entries inside the occupied slots only.
LEMMA BottomUpBag ==
  ASSUME HeapInv, Occupied, BottomUp
  PROVE  Occupied' /\ Bag' = Bag /\ ret' = ret /\ op # "hung" /\ op' # "hung"
<1>1. op = "up" /\ op' \in {"up", "idle"} /\ ret' = ret /\ size' = size
  BY DEF BottomUp
<1>2. CASE Father(pos) # pos /\ entry[Father(pos)].x > val
  <2>1. entry' = Exchange(Father(pos), pos)
    BY <1>2 DEF BottomUp
  <2>2. pos \in 0 .. size - 1 /\ pos # 0
    BY <1>1, <1>2, HeapFacts DEF HeapInv, Moving, Father
  <2>3. Father(pos) \in 0 .. size - 1
    BY <2>2, HeapFacts, FatherOfSon
  <2>4. Exchanges(Father(pos), pos)
    BY <2>1, <2>2, <2>3, HeapFacts DEF Exchange, Exchanges
  <2> QED
    BY <1>1, <2>2, <2>3, <2>4, SiftBag
<1>3. CASE ~(Father(pos) # pos /\ entry[Father(pos)].x > val)
  <2>1. entry' = entry
    BY <1>3 DEF BottomUp
  <2> QED
    BY <1>1, <2>1, SameBag
<1> QED
  BY <1>2, <1>3

\* So does __rearrange_topdown, with its "if" after the loop.
LEMMA TopDownBag ==
  ASSUME HeapInv, Occupied, TopDown
  PROVE  Occupied' /\ Bag' = Bag /\ ret' = ret /\ op # "hung" /\ op' # "hung"
<1>1. op = "down" /\ op' \in {"down", "idle"} /\ ret' = ret /\ size' = size
  BY DEF TopDown
<1>2. /\ pos \in Nat /\ size \in Nat /\ (pos = 0 \/ pos < size)
      /\ Lc(pos) \in Nat /\ Lc(pos) > pos
  BY <1>1, HeapFacts, SonsOfFather DEF HeapInv, Moving
<1>3. \/ entry' = entry
      \/ Lc(pos) < size - 1 /\ entry' = Exchange(pos, MinChild(pos))
      \/ Lc(pos) = size - 1 /\ entry' = Exchange(pos, Lc(pos))
  BY DEF TopDown
<1>4. CASE entry' = entry
  BY <1>1, <1>4, SameBag
<1>5. ASSUME NEW j \in 0 .. size - 1, entry' = Exchange(pos, j), pos \in 0 .. size - 1
      PROVE  Occupied' /\ Bag' = Bag
  <2>1. Exchanges(pos, j)
    BY <1>5, HeapFacts DEF Exchange, Exchanges
  <2> QED
    BY <1>1, <1>5, <2>1, SiftBag
<1>6. CASE Lc(pos) < size - 1 /\ entry' = Exchange(pos, MinChild(pos))
  <2>1. MinChild(pos) \in 0 .. size - 1 /\ pos \in 0 .. size - 1
    BY <1>2, <1>6 DEF MinChild
  <2> QED
    BY <1>1, <1>5, <1>6, <2>1
<1>7. CASE Lc(pos) = size - 1 /\ entry' = Exchange(pos, Lc(pos))
  <2>1. Lc(pos) \in 0 .. size - 1 /\ pos \in 0 .. size - 1
    BY <1>2, <1>7
  <2> QED
    BY <1>1, <1>5, <1>7, <2>1
<1> QED
  BY <1>1, <1>3, <1>4, <1>6, <1>7

\* An entry is the pair of its fields.
LEMMA EntryFields ==
  /\ \A e \in Entry : /\ e.proc \in Proc /\ e.x \in MinDeadline .. MaxDeadline
                      /\ e = [proc |-> e.proc, x |-> e.x]
  /\ \A p \in Proc, n \in MinDeadline .. MaxDeadline : [proc |-> p, x |-> n] \in Entry
BY DEF Entry

\* heap_pop takes one copy of the entry in slot 0 away.
LEMMA PopBag ==
  ASSUME HeapInv, Occupied, HeapPop
  PROVE  /\ Occupied' /\ op = "idle" /\ op' = "down"
         /\ entry[0] \in Entry /\ ret' = entry[0]
         /\ Bag' = [Bag EXCEPT ![entry[0]] = @ - 1]
<1> DEFINE l == size - 1
<1>1. /\ op = "idle" /\ op' = "down" /\ size > 0 /\ size' = size - 1 /\ ret' = entry[0]
      /\ entry' = IF size > 1 THEN [entry EXCEPT ![0] = entry[size - 1]] ELSE entry
  BY DEF HeapPop
<1>2. /\ size \in Nat \ {0} /\ 0 \in 0 .. size - 1 /\ 0 \in Slot /\ l \in Slot /\ l \in Nat
      /\ l \in 0 .. size - 1
  BY <1>1, HeapFacts
<1>3. \A i \in 0 .. l - 1 : entry'[i] = IF i = 0 THEN entry[l] ELSE entry[i]
  BY <1>1, <1>2, HeapFacts
<1>4. Occupied'
  <2>1. \A i \in 0 .. l - 1 : i \in 0 .. size - 1
    BY <1>2
  <2> QED
    BY <1>1, <1>2, <1>3, <2>1 DEF Occupied
<1>5. entry[0] \in Entry
  BY <1>2 DEF Occupied
<1>6. ASSUME NEW x \in Entry
      PROVE  Count(entry', size', x) = IF x = entry[0] THEN Count(entry, size, x) - 1
                                       ELSE Count(entry, size, x)
  <2> DEFINE D == 0 .. size - 1
             A == Where(entry, size, x)
             M == (A \ {0}) \cup (IF entry[l] = x THEN {0} ELSE {})
             B == Where(entry', l, x)
  <2>1. IsFiniteSet(D)
    BY <1>2, FS_Interval
  <2>2. /\ A \in SUBSET D /\ M \in SUBSET D /\ B \in SUBSET D
        /\ \A y \in D : y # 0 => (y \in A <=> y \in M)
        /\ 0 \in A <=> entry[0] = x
        /\ 0 \in M <=> entry[l] = x
        /\ l \in M <=> entry[l] = x
        /\ l \notin B
    BY <1>2, <1>3 DEF Where
  <2>3. \A y \in D : y # l => (y \in M <=> y \in B)
    <3>1. \A y \in D : y # l => y \in 0 .. l - 1
      BY <1>2
    <3> QED
      BY <1>2, <1>3, <3>1 DEF Where
  <2> HIDE DEF D, A, M, B
  <2>4. /\ Cardinality(A) \in Nat /\ Cardinality(M) \in Nat
        /\ Cardinality(M) = Cardinality(A) - (IF 0 \in A THEN 1 ELSE 0) + (IF 0 \in M THEN 1 ELSE 0)
    BY <2>1, <2>2, CountChange
  <2> HIDE DEF l
  <2>5. /\ Cardinality(B) \in Nat
        /\ Cardinality(B) = Cardinality(M) - (IF l \in M THEN 1 ELSE 0) + (IF l \in B THEN 1 ELSE 0)
    BY <2>1, <2>2, <2>3, CountChange
  <2>6. Cardinality(B) = IF x = entry[0] THEN Cardinality(A) - 1 ELSE Cardinality(A)
    BY <2>2, <2>4, <2>5
  <2> QED
    BY <1>1, <2>6 DEF Count, A, B, l
<1>7. Bag' = [Bag EXCEPT ![entry[0]] = @ - 1]
  BY <1>5, <1>6 DEF Bag
<1> QED
  BY <1>1, <1>4, <1>5, <1>7

\* tick_decrease_pt_heap shifts the whole bag by one tick.
LEMMA TickBag ==
  ASSUME HeapInv, Occupied, TickDecrease
  PROVE  /\ Occupied' /\ op = "idle" /\ op' = "idle" /\ ret' = ret
         /\ \A i \in 0 .. size - 1 : entry[i].x > 0
         /\ Bag' = [e \in Entry |->
                      IF e.x < MaxDeadline THEN Bag[[e EXCEPT !.x = @ + 1]] ELSE 0]
<1>1. /\ op = "idle" /\ op' = op /\ ret' = ret /\ size' = size
      /\ \A i \in 0 .. size - 1 : entry[i].x > 0
      /\ entry' = [i \in Slot |-> IF i < size THEN [proc |-> entry[i].proc, x |-> entry[i].x - 1]
                                              ELSE entry[i]]
  BY DEF TickDecrease
<1>2. size \in Nat /\ MaxDeadline \in Nat /\ \A i \in 0 .. size - 1 : i \in Slot
  BY HeapFacts
<1>3. ASSUME NEW i \in 0 .. size - 1
      PROVE  /\ entry'[i] = [proc |-> entry[i].proc, x |-> entry[i].x - 1]
             /\ entry[i] \in Entry /\ entry[i].x \in 1 .. MaxDeadline
             /\ entry[i].proc \in Proc
  BY <1>1, <1>2 DEF Occupied, Entry
<1>4. ASSUME NEW i \in 0 .. size - 1
      PROVE  entry'[i] \in Entry /\ entry'[i].x = entry[i].x - 1 /\ entry'[i].proc = entry[i].proc
  <2> DEFINE y == entry[i]
  <2>1. y.proc \in Proc /\ y.x \in 1 .. MaxDeadline
    BY <1>3
  <2>2. entry'[i] = [proc |-> y.proc, x |-> y.x - 1]
    BY <1>3
  <2> HIDE DEF y
  <2>3. y.x - 1 \in MinDeadline .. MaxDeadline
    BY <2>1, HeapAssumption
  <2>4. entry'[i] \in Entry
    BY <2>1, <2>2, <2>3, EntryFields
  <2> QED
    BY <2>2, <2>4 DEF y
<1>5. Occupied'
  BY <1>1, <1>4 DEF Occupied
<1>6. ASSUME NEW e \in Entry
      PROVE  Count(entry', size', e)
               = IF e.x < MaxDeadline THEN Bag[[e EXCEPT !.x = @ + 1]] ELSE 0
  <2>0. e.x \in MinDeadline .. MaxDeadline /\ e.proc \in Proc /\ e = [proc |-> e.proc, x |-> e.x]
    BY DEF Entry
  <2>1. CASE e.x < MaxDeadline
    <3> DEFINE g == [e EXCEPT !.x = @ + 1]
    <3>1. g \in Entry /\ g.proc = e.proc /\ g.x = e.x + 1 /\ g = [proc |-> e.proc, x |-> e.x + 1]
      BY <1>2, <2>0, <2>1, HeapAssumption DEF Entry
    <3> HIDE DEF g
    <3>2. \A i \in 0 .. size - 1 : entry'[i] = e <=> entry[i] = g
      <4> SUFFICES ASSUME NEW i \in 0 .. size - 1
                   PROVE  entry'[i] = e <=> entry[i] = g
        OBVIOUS
      <4> DEFINE y == entry[i]
                 z == entry'[i]
      <4>1. y \in Entry /\ z \in Entry /\ z.x = y.x - 1 /\ z.proc = y.proc
        BY <1>3, <1>4
      <4> HIDE DEF y, z
      <4>2. y.x \in Int /\ z.x \in Int /\ e.x \in Int /\ g.x \in Int
        BY <1>2, <2>0, <3>1, <4>1, EntryFields
      <4>3. z = e <=> z.proc = e.proc /\ z.x = e.x
        BY <2>0, <4>1, EntryFields
      <4>4. y = g <=> y.proc = g.proc /\ y.x = g.x
        BY <3>1, <4>1, EntryFields
      <4>5. z = e <=> y = g
        BY <3>1, <4>1, <4>2, <4>3, <4>4
      <4> QED
        BY <4>5 DEF y, z
    <3>3. Where(entry', size, e) = Where(entry, size, g)
      BY <3>2 DEF Where
    <3> QED
      BY <1>1, <2>1, <3>1, <3>3 DEF Count, Bag, g
  <2>2. CASE ~(e.x < MaxDeadline)
    <3>1. Where(entry', size, e) = {}
      BY <1>2, <1>3, <1>4, <2>0, <2>2 DEF Where
    <3> QED
      BY <1>1, <2>2, <3>1, FS_EmptySet DEF Count
  <2> QED
    BY <2>1, <2>2
<1>7. Bag' = [e \in Entry |-> IF e.x < MaxDeadline THEN Bag[[e EXCEPT !.x = @ + 1]] ELSE 0]
  BY <1>6 DEF Bag
<1> QED
  BY <1>1, <1>5, <1>7

\* The names of the abstract queue, for the bag of the array.
LEMMA QueueMeaning ==
  ASSUME HeapInv, Occupied
  PROVE  /\ Queue!Entry = Entry /\ Queue!NoEntry = NoEntry
         /\ Queue!Size = size
         /\ Queue!Present = {entry[i] : i \in 0 .. size - 1}
         /\ op = "idle" /\ size > 0 => entry[0] \in Queue!Earliest
<1>1. Queue!Entry = Entry /\ Queue!NoEntry = NoEntry
  BY DEF Queue!Entry, Entry, Queue!NoEntry, NoEntry
<1>2. size \in Nat /\ size \in 0 .. MaxHeapSize
  BY HeapFacts
<1>3. Queue!Size = size
  <2>1. Queue!Size = Cardinality(Copies(entry, size))
    <3>1. {ec \in Entry \X (1 .. MaxHeapSize) : ec[2] <= Bag[ec[1]]} = Copies(entry, size)
      BY DEF Copies, Bag
    <3>2. Queue!Size = Cardinality({ec \in Entry \X (1 .. MaxHeapSize) : ec[2] <= Bag[ec[1]]})
      <4> DEFINE Q == [e \in Entry |-> Cardinality({i \in 0 .. size - 1 : entry[i] = e})]
      <4>1. Queue!Size = Cardinality({ec \in Queue!Entry \X (1 .. MaxHeapSize) : ec[2] <= Q[ec[1]]})
        <5>1. \A S : Queue!Cardinality(S) = Cardinality(S)
          BY Zenon DEF Queue!Cardinality, Cardinality
        <5> QED
          BY <5>1, Zenon DEF Queue!Size
      <4>2. Q = Bag
        BY DEF Bag, Count, Where
      <4> HIDE DEF Q
      <4>3. {ec \in Queue!Entry \X (1 .. MaxHeapSize) : ec[2] <= Q[ec[1]]}
              = {ec \in Entry \X (1 .. MaxHeapSize) : ec[2] <= Bag[ec[1]]}
        BY <1>1, <4>2
      <4> QED
        BY <4>1, <4>3
    <3> QED
      BY <3>1, <3>2
  <2> QED
    BY <1>2, <2>1, CopiesCounted DEF Occupied
<1>4. Queue!Present = {entry[i] : i \in 0 .. size - 1}
  <2>1. Queue!Present = {e \in Entry : Count(entry, size, e) > 0}
    BY <1>1 DEF Queue!Present, Count, Where
  <2>2. \A e \in Entry : Count(entry, size, e) > 0 <=> \E i \in 0 .. size - 1 : entry[i] = e
    BY <1>2, CountType
  <2> QED
    BY <2>1, <2>2 DEF Occupied
<1>5. ASSUME op = "idle", size > 0
      PROVE  entry[0] \in Queue!Earliest
  <2>1. \A i \in 0 .. size - 1 : entry[0].x <= entry[i].x
    BY <1>5, RootIsEarliest
  <2>2. 0 \in 0 .. size - 1
    BY <1>2, <1>5
  <2> QED
    BY <1>4, <2>1, <2>2 DEF Queue!Earliest
<1> QED
  BY <1>1, <1>3, <1>4, <1>5

\* Every step of the array is a step of the queue, or none.
LEMMA StepRefines ==
  ASSUME HeapInv, Occupied, [Next]_vars
  PROVE  Occupied' /\ [Queue!Next]_(Queue!vars)
<1> DEFINE Q == [e \in Entry |-> Cardinality({i \in 0 .. size - 1 : entry[i] = e})]
<1>1. Q = Bag /\ Q' = Bag'
  BY DEF Bag, Count, Where
<1>2. /\ Queue!Entry = Entry /\ Queue!Size = size
      /\ Queue!Present = {entry[i] : i \in 0 .. size - 1}
      /\ op = "idle" /\ size > 0 => entry[0] \in Queue!Earliest
  BY QueueMeaning
<1>3. size \in Nat /\ size \in 0 .. MaxHeapSize
  BY HeapFacts
<1>4. ASSUME Bag' = Bag, ret' = ret, (op' = "hung") = (op = "hung")
      PROVE  UNCHANGED Queue!vars
  BY <1>1, <1>4 DEF Queue!vars
<1>5. ASSUME Hang, op = "idle", size >= MaxHeapSize \/ size = 0
      PROVE  Occupied' /\ [Queue!Next]_(Queue!vars)
  <2>1. /\ entry' = entry /\ size' = size /\ ret' = ret /\ op' = "hung"
        /\ Occupied' /\ Bag' = Bag
    BY <1>5, SameBag DEF Hang
  <2>2. Queue!Size = MaxHeapSize \/ Queue!Present = {}
    <3>1. CASE size >= MaxHeapSize
      BY <1>2, <1>3, <3>1, HeapAssumption
    <3>2. CASE size = 0
      <4>1. 0 .. size - 1 = {}
        BY <3>2
      <4> QED
        BY <1>2, <4>1
    <3> QED
      BY <1>5, <3>1, <3>2
  <2>3. Queue!Hang
    BY <1>1, <1>5, <2>1, <2>2 DEF Queue!Hang
  <2> QED
    BY <2>1, <2>3 DEF Queue!Next
<1>6. ASSUME NEW e \in Entry, HeapPush(e)
      PROVE  Occupied' /\ [Queue!Next]_(Queue!vars)
  <2>1. CASE size >= MaxHeapSize
    <3>1. Hang /\ op = "idle"
      BY <1>3, <1>6, <2>1, HeapAssumption DEF HeapPush
    <3> QED
      BY <1>5, <2>1, <3>1
  <2>2. CASE size < MaxHeapSize
    <3>1. /\ Occupied' /\ Bag' = [Bag EXCEPT ![e] = @ + 1]
          /\ op = "idle" /\ op' = "up" /\ ret' = ret
      BY <1>6, <2>2, PushBag
    <3>2. Queue!Push(e)
      BY <1>1, <1>2, <2>2, <3>1 DEF Queue!Push
    <3> QED
      BY <1>2, <3>1, <3>2 DEF Queue!Next
  <2> QED
    BY <1>3, <2>1, <2>2, HeapFacts
<1>7. ASSUME HeapGetTop
      PROVE  Occupied' /\ [Queue!Next]_(Queue!vars)
  <2>1. CASE size = 0
    BY <1>5, <1>7, <2>1 DEF HeapGetTop
  <2>2. CASE size > 0
    <3>1. /\ op = "idle" /\ op' = op /\ ret' = entry[0] /\ entry' = entry /\ size' = size
      BY <1>7, <2>2 DEF HeapGetTop
    <3>2. Occupied' /\ Bag' = Bag
      BY <3>1, SameBag
    <3>3. Queue!GetTop
      BY <1>1, <1>2, <2>2, <3>1, <3>2 DEF Queue!GetTop
    <3> QED
      BY <3>2, <3>3 DEF Queue!Next
  <2> QED
    BY <1>3, <2>1, <2>2
<1>8. ASSUME HeapPop
      PROVE  Occupied' /\ [Queue!Next]_(Queue!vars)
  <2>1. /\ Occupied' /\ op = "idle" /\ op' = "down"
        /\ entry[0] \in Entry /\ ret' = entry[0]
        /\ Bag' = [Bag EXCEPT ![entry[0]] = @ - 1]
    BY <1>8, PopBag
  <2>2. entry[0] \in Queue!Earliest
    BY <1>2, <1>8, <2>1 DEF HeapPop
  <2>3. Queue!Pop
    BY <1>1, <2>1, <2>2 DEF Queue!Pop
  <2> QED
    BY <2>1, <2>3 DEF Queue!Next
<1>9. ASSUME TickDecrease
      PROVE  Occupied' /\ [Queue!Next]_(Queue!vars)
  <2>1. /\ Occupied' /\ op = "idle" /\ op' = "idle" /\ ret' = ret
        /\ \A i \in 0 .. size - 1 : entry[i].x > 0
        /\ Bag' = [e \in Entry |->
                     IF e.x < MaxDeadline THEN Bag[[e EXCEPT !.x = @ + 1]] ELSE 0]
    BY <1>9, TickBag
  <2>2. \A e \in Queue!Present : e.x > 0
    BY <1>2, <2>1
  <2>3. Queue!Decrease
    BY <1>1, <1>2, <2>1, <2>2 DEF Queue!Decrease
  <2> QED
    BY <2>1, <2>3 DEF Queue!Next
<1>10. ASSUME BottomUp \/ TopDown
       PROVE  Occupied' /\ [Queue!Next]_(Queue!vars)
  <2>1. Occupied' /\ Bag' = Bag /\ ret' = ret /\ op # "hung" /\ op' # "hung"
    BY <1>10, BottomUpBag, TopDownBag
  <2> QED
    BY <1>4, <2>1
<1>11. ASSUME UNCHANGED vars
       PROVE  Occupied' /\ [Queue!Next]_(Queue!vars)
  <2>1. entry' = entry /\ size' = size /\ ret' = ret /\ op' = op
    BY <1>11 DEF vars
  <2> QED
    BY <1>4, <2>1, SameBag
<1> QED
  BY <1>6, <1>7, <1>8, <1>9, <1>10, <1>11 DEF Next, Spin

\* The heap implements the bounded priority queue that the scheduler is modelled
\* with: the sift loops of heap.c lose, double or change no entry, pop and gettop
\* return an earliest one, and a call spins only when the queue is full or empty.
THEOREM HeapImplementsQueue == Spec => ImplementsPriorityQueue
<1>1. Init => Queue!Init /\ Occupied
  <2> SUFFICES ASSUME Init
               PROVE  Queue!Init /\ Occupied
    OBVIOUS
  <2>1. size = 0 /\ op = "idle" /\ ret = NoEntry
    BY DEF Init
  <2>2. 0 .. size - 1 = {}
    BY <2>1
  <2>3. \A e : {i \in 0 .. size - 1 : entry[i] = e} = {}
    BY <2>2
  <2>4. \A e : Cardinality({i \in 0 .. size - 1 : entry[i] = e}) = 0
    BY <2>3, FS_EmptySet
  <2>5. Queue!Init
    BY <2>1, <2>4 DEF Queue!Init, Queue!Entry, Entry, Queue!NoEntry, NoEntry
  <2> QED
    BY <2>2, <2>5 DEF Occupied
<1>2. HeapInv /\ Occupied /\ [Next]_vars => Occupied' /\ [Queue!Next]_(Queue!vars)
  BY StepRefines
<1> QED
  BY <1>1, <1>2, HeapCorrect, PTL DEF Spec, Queue!Spec, ImplementsPriorityQueue
=============================================================================
