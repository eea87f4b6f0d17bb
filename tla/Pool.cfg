SYMMETRY Symmetry
SPECIFICATION Spec
CONSTANTS
  BlockSize = 2
  InitialCapacity = 1
  CountWidth = 4
  Addr = {a1, a2, a3}
  NULL = NULL
  Content = {0, 1}
  Zero = 0
INVARIANTS
  TypeOK
  HandlesDense
  EntriesStable
  EntriesDisjoint
PROPERTIES
  ImplementsEntryStore
