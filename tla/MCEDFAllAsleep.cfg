CONSTANTS
  idle = idle
  init = init
  a = a
  b = b
  Proc = {idle, init, a, b}
  Idle = idle
  InitProc = init
  ProcMaxDeadline = 2
  RTParams <- RTArgs
  ExecParams <- ExecArgs
  SleepTimes = {1, 2}
  MaxHeapSize = 4
  MaxPt = 3
SYMMETRY UserSlots
SPECIFICATION Spec
INVARIANTS AllMaySleep
