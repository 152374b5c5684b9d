SPECIFICATION FairSpec
CONSTANTS
  Reqs = {r1, r2}
  Interrupters = {k1, k2}
  Listers = {}
  QIDs = {q1}
  MaxRows = 0
  None = None
PROPERTIES InterruptStops DisconnectStops
