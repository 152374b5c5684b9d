SPECIFICATION FairSpec
CONSTANTS
  Conns = {c1, c2}
  IDs = {i1, i2}
  MaxDB = 1
  None = None
  Closer = Closer
PROPERTIES AcceptServed RequestAnswered PoolFairSpec
