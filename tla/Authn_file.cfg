SPECIFICATION Spec
CONSTANTS
  Entry <- MCEntry
  Header <- MCHeader
  MaxEntries = 2
  None = None
INVARIANTS AcceptsExactly AuthenticatesOwner
CHECK_DEADLOCK FALSE
