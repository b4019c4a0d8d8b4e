\* As tight as the static_assert allows: MAX_PID is one more than MAX_PROCESS.
CONSTANTS
  Proc = {"a", "b", "c", "d", "e", "f"}
  MaxProcess = 5
  MaxPid = 6
SPECIFICATION PidFairSpec
INVARIANTS UniquePids IntervalFree
PROPERTIES SearchEnds
