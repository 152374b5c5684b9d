SPECIFICATION Spec
CONSTANTS
  Reqs = {r1}
  Interrupters = {k1}
  Listers = {}
  QIDs = {q1}
  MaxRows = 1
  None = None
INVARIANT FullResult
