SPECIFICATION Spec
CONSTANTS
  Entries = {e1, e2}
  Authenticator = TRUE
  NoAuthz = FALSE
  UI = TRUE
  Pprof = TRUE
  None = None
INVARIANTS Guarded LogExplained
