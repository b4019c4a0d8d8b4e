SPECIFICATION Spec
CONSTANTS
  Top = 14
  PgSize = 2
  UserBase = 2
  UserTop = 10
  Addrs = {0, 2, 4, 5, 6, 9, 13}
  Lens = {1, 3, 6}
  Stores = {3, 9}
  MmapFlags = {{}, {"w", "stack"}}
  NShm = 1
  NNode = 7
INVARIANTS LookupsExact MappingExact TreeFinds
PROPERTIES BackingStable
CHECK_DEADLOCK FALSE
