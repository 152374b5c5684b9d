SPECIFICATION FairSpec
CONSTANTS
  Conns = {c1, c2}
  IDs = {i1, i2}
  MaxDB = 1
  PIDFile = TRUE
  Waiters = {w1}
  MaxRuns = 2
  None = None
INVARIANTS PIDFileTrue NoLostWakeup RequestsFinish DirAccounted
PROPERTIES SignalEnds
