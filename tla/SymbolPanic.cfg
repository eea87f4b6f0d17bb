SPECIFICATION SymSpec
CHECK_DEADLOCK FALSE
CONSTANTS
  empty = empty
  t1 = t1
  t2 = t2
  t3 = t3
  t4 = t4
  Key = {empty, t1, t2, t3, t4}
  Val <- MCSymbols
  EmptyText = empty
  NOTHING = NOTHING
  TOMBSTONE = TOMBSTONE
  ABSENT = ABSENT
  HashStart <- MCStart
  HashMove <- MCMove
  InlineLength = 4
  InitialSizes = {4}
  MaxCapacity = 9
INVARIANTS
  OnlySymbols
