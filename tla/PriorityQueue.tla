---------------------------- MODULE PriorityQueue ----------------------------
(***************************************************************************)
(* What the EDF run queue needs from kern/libs/heap.c: a bounded multiset  *)
(* of entries [proc, x] from which an entry with the earliest deadline x   *)
(* is always the one that is returned.  Module ProcessHeap implements it.  *)
(***************************************************************************)
EXTENDS Integers, FiniteSets

CONSTANTS Proc,        \* the processes an entry can name
          MinDeadline, \* the range of the deadlines x that are pushed: forkRT takes
          MaxDeadline, \* any period, so a deadline may be below 0
          MaxHeapSize  \* capacity of the queue

Entry == [proc : Proc, x : MinDeadline .. MaxDeadline]

NoEntry == [proc |-> "none", x |-> 0]

VARIABLES queue,   \* queue[e] is the number of copies of e in the queue
          ret,     \* the entry the last call returned
          hung     \* TRUE once a call spins forever with interrupts off

vars == <<queue, ret, hung>>

Present == {e \in Entry : queue[e] > 0}

\* At most MaxHeapSize entries in total: as a set of distinct (entry, copy) pairs.
Size == Cardinality({ec \in Entry \X (1 .. MaxHeapSize) : ec[2] <= queue[ec[1]]})

Earliest == {e \in Present : \A f \in Present : e.x <= f.x}

Init == /\ queue = [e \in Entry |-> 0]
        /\ ret = NoEntry
        /\ hung = FALSE

Push(e) == /\ ~hung
           /\ Size < MaxHeapSize
           /\ queue' = [queue EXCEPT ![e] = @ + 1]
           /\ UNCHANGED <<ret, hung>>

Pop == /\ ~hung
       /\ \E e \in Earliest : /\ queue' = [queue EXCEPT ![e] = @ - 1]
                              /\ ret' = e
       /\ UNCHANGED hung

GetTop == /\ ~hung
          /\ ret' \in Earliest
          /\ UNCHANGED <<queue, hung>>

\* Time passes: every queued deadline comes one tick nearer.
Decrease == /\ ~hung
            /\ \A e \in Present : e.x > 0
            /\ queue' = [e \in Entry |->
                           IF e.x < MaxDeadline THEN queue[[e EXCEPT !.x = @ + 1]] ELSE 0]
            /\ UNCHANGED <<ret, hung>>

\* Pushing on a full queue, or reading the top of an empty one, never returns.
Hang == /\ ~hung
        /\ Size = MaxHeapSize \/ Present = {}
        /\ hung' = TRUE
        /\ UNCHANGED <<queue, ret>>

Next == \/ \E e \in Entry : Push(e)
        \/ Pop
        \/ GetTop
        \/ Decrease
        \/ Hang

Spec == Init /\ [][Next]_vars
=============================================================================
