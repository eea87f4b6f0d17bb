SPECIFICATION FairSpec
CHECK_DEADLOCK FALSE
CONSTANTS
  k1 = k1
  k2 = k2
  k3 = k3
  Key = {k1, k2, k3}
  Val = {v1, v2}
  NOTHING = NOTHING
  TOMBSTONE = TOMBSTONE
  ABSENT = ABSENT
  HashStart <- MCStart
  HashMove <- MCMove
  InlineLength = 4
  InitialSizes = {0}
  MaxCapacity = 6
INVARIANTS
  TypeOK
  KeysFindable
  NoDuplicateOnRehash
  RoomToProbe
  SizeExact
  ValuesRetained
PROPERTIES
  ImplementsKVMap
  GrowthEnds
