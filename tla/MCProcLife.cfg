CONSTANTS
  init = init
  kswapd = kswapd
  a = a
  b = b
  c = c
  m1 = m1
  m2 = m2
  Mm = {m1, m2}
  Proc = {init, kswapd, a, b, c}
  InitProc = init
  Kswapd = kswapd
  Nil = Nil
  AnyChild = AnyChild
  MaxProcess = 6
SYMMETRY Slots
SPECIFICATION Spec
INVARIANTS TreeConsistent RingsOfLiving NoLostWakeup AddressSpacesExact
CHECK_DEADLOCK FALSE
