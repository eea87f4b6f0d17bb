SPECIFICATION FairSpec
CONSTANTS
  k1 = k1
  k2 = k2
  k3 = k3
  Key = {k1, k2, k3}
  Val = {v1}
  NOTHING = NOTHING
  TOMBSTONE = TOMBSTONE
  ABSENT = ABSENT
  HashStart <- CyclicStart
  HashMove <- CyclicMove
  InlineLength = 4
  InitialSizes = {0}
  MaxCapacity = 6
INVARIANTS
  ProbeEnds
