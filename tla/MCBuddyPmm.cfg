CONSTANTS
  NPage = 12
  MaxOrder = 2
  NZone = 2
  MemBase <- Bases
  ZoneSize <- Sizes
SPECIFICATION FairSpec
INVARIANTS Partition FlagsMatchLists RoomIsFound
PROPERTIES CallsReturn
