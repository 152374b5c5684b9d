SPECIFICATION Spec
CONSTANT MaxQueries = 2
INVARIANTS ClosedOnError LimitsFirst LastSettings
