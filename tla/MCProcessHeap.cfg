\* Three levels, with and without a right child at the last, and two processes
\* with two deadlines: a comparison sort is right when it is right for 0 and 1.
CONSTANTS
  Proc = {"p", "q"}
  MinDeadline = 0
  MaxDeadline = 1
  MaxHeapSize = 6
SPECIFICATION FairSpec
INVARIANTS HeapInv
PROPERTIES RearrangeTerminates ImplementsPriorityQueue
