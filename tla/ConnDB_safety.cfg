SPECIFICATION Spec
CONSTANTS
  Conns = {c1, c2, c3}
  IDs = {i1, i2, i3}
  MaxDB = 2
  None = None
  Closer = Closer
SYMMETRY Symmetry
INVARIANTS TypeOK SlotAccounting InstanceBound OwnDatabase NoOrphan ClientExclusive ReportsLiveDB
INVARIANTS DirLife DirSharedOnlyClosing
PROPERTIES PoolSpec
