CONSTANTS
  t1 = t1
  t2 = t2
  Thread = {t1, t2}
  NPage = 4
  Size = {20, 2000, 8000}
  MaxNum = 2
  MaxHeld = 3
  MaxOther = 1
  None = None
SYMMETRY Threads
SPECIFICATION Spec
INVARIANTS SlabsExact PagesReturned GeometryFits
