SPECIFICATION Spec
CONSTANTS
  Reqs = {r1, r2}
  Interrupters = {k1, k2}
  Listers = {l1}
  QIDs = {q1, q2}
  MaxRows = 1
  None = None
SYMMETRY Symmetry
INVARIANTS TypeOK Cancellable NoLeak NoSpuriousCancel
PROPERTIES ListsRunning
