CONSTANTS
  idle = idle
  init = init
  k = k
  a = a
  b = b
  c = c
  d = d
  KswapdSleep = 2
  SetupPt = 40
  Proc = {idle, init, k, a, b, c, d}
  Idle = idle
  InitProc = init
  ProcMaxDeadline = 14
  RTParams <- RTArgs
  ExecParams <- ExecArgs
  SleepTimes = {2}
  MaxHeapSize = 7
  MaxPt = 200
SPECIFICATION LoadSpec
INVARIANTS MeetsDeadlines
PROPERTIES NoStarvation
