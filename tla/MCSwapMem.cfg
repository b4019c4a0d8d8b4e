SPECIFICATION Spec
CONSTANTS
  Thread = {t1, t2}
  First = {t1}
  Mm = {m1, m2}
  FirstMm = m1
  NAddr = 2
  NEntry = 1
  Addr <- MCAddr
  Entry <- MCEntry
  Shared = {2}
  Frame = {f1, f2}
  Val = {0, 1}
  Stored = {1}
  Cluster = 2
  Rounds = 1
  NoFrame = NoFrame
  NoMm = NoMm
  NoThread = NoThread
SYMMETRY MCSymmetry
CHECK_DEADLOCK FALSE
INVARIANTS RefsExact FramesPartition NoLostWaiter
PROPERTIES LossOnlyByRemap
