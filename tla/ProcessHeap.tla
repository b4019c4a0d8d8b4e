----------------------------- MODULE ProcessHeap -----------------------------
(***************************************************************************)
(* kern/libs/heap.c: the array-based min-heap that holds the EDF run       *)
(* queue, and tick_decrease_pt_heap of kern/schedule/sched_MY.c, which     *)
(* decrements every deadline in place.                                     *)
(*                                                                         *)
(* Each iteration of the two sift loops is a step, so that the state       *)
(* between two iterations, which the loops have to keep almost ordered,    *)
(* can be stated and proved about.  The caller has interrupts off: no      *)
(* other operation starts before op is "idle" again.                       *)
(***************************************************************************)
EXTENDS Integers, FiniteSets

CONSTANTS Proc,        \* the processes an entry can name
          MinDeadline, \* the range of the deadlines x that are pushed: forkRT takes
          MaxDeadline, \* any period, so a deadline may be below 0
          MaxHeapSize  \* MAX_HEAP_SIZE of heap.h

ASSUME HeapAssumption == /\ MaxHeapSize \in Nat \ {0}
                         /\ MinDeadline \in Int /\ MinDeadline <= 0
                         /\ MaxDeadline \in Nat

\* heap_entry_t; process_heap is a static variable, so unused slots are zero.
Entry == [proc : Proc, x : MinDeadline .. MaxDeadline]

NoEntry == [proc |-> "none", x |-> 0]

VARIABLES entry,  \* heap->entry: an array of MaxHeapSize slots, indexed from 0
          size,   \* heap->size
          op,     \* "idle", in the loop of a rearrange function, or "hung"
          pos,    \* son_pos of the bottom-up loop, father_pos of the top-down one
          val,    \* son_val and father_val: read once, before the loop
          ret     \* the entry the last heap_pop or heap_gettop returned

vars == <<entry, size, op, pos, val, ret>>

Slot == 0 .. MaxHeapSize - 1

\* C division truncates: the father of slot 0 is slot 0, which ends the loop.
Father(i) == IF i = 0 THEN 0 ELSE (i - 1) \div 2

\* Mutant: the left child of an array indexed from 1.
LcFromOne(i) == 2 * i

Lc(i) == 2 * i + 1

\* Mutant: no temporary variable.
ExchangeHalf(i, j) == [entry EXCEPT ![i] = entry[j]]

\* __exchange
Exchange(i, j) == [entry EXCEPT ![i] = entry[j], ![j] = entry[i]]

\* __min: the right child wins a tie.
MinChild(i) == IF entry[Lc(i)].x < entry[Lc(i) + 1].x THEN Lc(i) ELSE Lc(i) + 1

Init == /\ entry = [i \in Slot |-> NoEntry]
        /\ size = 0
        /\ op = "idle"
        /\ pos = 0
        /\ val = 0
        /\ ret = NoEntry

\* The "while(1);" of heap_push and heap_gettop.
Hang == /\ op' = "hung"
        /\ UNCHANGED <<entry, size, pos, val, ret>>

HeapPush(e) ==
  /\ op = "idle"
  /\ \/ /\ size >= MaxHeapSize
        /\ Hang
     \/ /\ size < MaxHeapSize
        /\ entry' = [entry EXCEPT ![size] = e]
        /\ size' = size + 1
        /\ op' = "up"
        /\ pos' = size
        /\ val' = e.x
        /\ UNCHANGED ret

\* Mutant: "if" in place of "while".
BottomUpOnce ==
  /\ op = "up"
  /\ entry' = IF Father(pos) # pos /\ entry[Father(pos)].x > val
                THEN Exchange(Father(pos), pos) ELSE entry
  /\ op' = "idle"
  /\ UNCHANGED <<size, pos, val, ret>>

\* One evaluation of the while condition of __rearrange_bottomup and its body.
BottomUp ==
  /\ op = "up"
  /\ IF Father(pos) # pos /\ entry[Father(pos)].x > val
       THEN /\ entry' = Exchange(Father(pos), pos)
            /\ pos' = Father(pos)
            /\ UNCHANGED op
       ELSE /\ op' = "idle"
            /\ UNCHANGED <<entry, pos>>
  /\ UNCHANGED <<size, val, ret>>

HeapGetTop ==
  /\ op = "idle"
  /\ \/ /\ size = 0
        /\ Hang
     \/ /\ size > 0
        /\ ret' = entry[0]
        /\ UNCHANGED <<entry, size, op, pos, val>>

\* MY_dequeue asserts that the heap is not empty before it pops.
HeapPop ==
  /\ op = "idle"
  /\ size > 0
  /\ ret' = entry[0]
  /\ entry' = IF size > 1 THEN [entry EXCEPT ![0] = entry[size - 1]] ELSE entry
  /\ size' = size - 1
  /\ op' = "down"
  /\ pos' = 0
  /\ val' = entry'[0].x

\* Mutant: father_pos does not follow the element.
TopDownStays ==
  /\ op = "down"
  /\ IF Lc(pos) < size - 1 /\ val > entry[MinChild(pos)].x
       THEN entry' = Exchange(pos, MinChild(pos)) /\ UNCHANGED op
       ELSE op' = "idle" /\ UNCHANGED entry
  /\ UNCHANGED <<size, pos, val, ret>>

\* One evaluation of the while condition of __rearrange_topdown and its body;
\* when the loop is left because only a left child remains, the "if" after it.
TopDown ==
  /\ op = "down"
  /\ \/ /\ Lc(pos) < size - 1
        /\ IF val > entry[MinChild(pos)].x
             THEN /\ entry' = Exchange(pos, MinChild(pos))
                  /\ pos' = MinChild(pos)
                  /\ UNCHANGED op
             ELSE /\ op' = "idle"
                  /\ UNCHANGED <<entry, pos>>
     \/ /\ Lc(pos) >= size - 1
        /\ entry' = IF Lc(pos) = size - 1 /\ val > entry[Lc(pos)].x
                      THEN Exchange(pos, Lc(pos)) ELSE entry
        /\ op' = "idle"
        /\ UNCHANGED pos
  /\ UNCHANGED <<size, val, ret>>

\* tick_decrease_pt_heap: the array is changed in place and not rearranged.
\* A deadline below 0 is a kernel panic, which module EDFSched models.
TickDecrease ==
  /\ op = "idle"
  /\ \A i \in 0 .. size - 1 : entry[i].x > 0
  /\ entry' = [i \in Slot |-> IF i < size THEN [proc |-> entry[i].proc, x |-> entry[i].x - 1]
                                          ELSE entry[i]]
  /\ UNCHANGED <<size, op, pos, val, ret>>

\* The processor spins for ever.
Spin == op = "hung" /\ UNCHANGED vars

Next == \/ \E e \in Entry : HeapPush(e)
        \/ BottomUp
        \/ HeapGetTop
        \/ HeapPop
        \/ TopDown
        \/ TickDecrease
        \/ Spin

Spec == Init /\ [][Next]_vars

\* A started loop runs on: the processor keeps executing it.
FairSpec == Spec /\ WF_vars(BottomUp) /\ WF_vars(TopDown)
-----------------------------------------------------------------------------
\* Every slot, index and loop register stays within its range.
TypeOK ==
  /\ entry \in [Slot -> Entry \cup {NoEntry}]
  /\ size \in 0 .. MaxHeapSize
  /\ op \in {"idle", "up", "down", "hung"}
  /\ pos \in Slot
  /\ val \in MinDeadline .. MaxDeadline
  /\ ret \in Entry \cup {NoEntry}

\* The loop registers describe the element the loop is moving.
Moving ==
  /\ op = "up" => pos < size
  /\ op = "down" => pos = 0 \/ pos < size
  /\ op \in {"up", "down"} => val = entry[pos].x

\* The order of the heap while an element moves: every other edge is ordered,
\* and the father of the moving element is not later than its children.
AlmostOrdered ==
  \A i \in 1 .. size - 1 :
    /\ \/ entry[Father(i)].x <= entry[i].x
       \/ op = "up" /\ i = pos
       \/ op = "down" /\ Father(i) = pos
    /\ op \in {"up", "down"} /\ Father(i) = pos /\ pos # 0
         => entry[Father(pos)].x <= entry[i].x

\* The inductive invariant.  Between two operations it says that the array is
\* a heap ("ordered top small bottom big", heap.h): push, pop and the in-place
\* decrement all have to restore that.
HeapInv == TypeOK /\ Moving /\ AlmostOrdered

\* What the scheduler relies on: between two operations slot 0, which
\* heap_gettop and heap_pop return, has the earliest deadline of all.
TopIsEarliest ==
  op = "idle" => \A i \in 0 .. size - 1 : entry[0].x <= entry[i].x

\* heap_pop removes an entry no queued entry is earlier than.
PopsEarliest ==
  [][size' < size => \A i \in 0 .. size - 1 : ret'.x <= entry[i].x]_vars

\* Both sift loops terminate, whatever the contents of the array.
RearrangeTerminates == op \in {"up", "down"} ~> op = "idle"

\* The heap implements the bounded priority queue: no entry is lost, doubled
\* or changed by a rearrangement, and pop returns an earliest one.
Queue == INSTANCE PriorityQueue
           WITH queue <- [e \in Entry |-> Cardinality({i \in 0 .. size - 1 : entry[i] = e})],
                hung <- op = "hung"

ImplementsPriorityQueue == Queue!Spec
=============================================================================
