CONSTANTS
  NumRecords = 3
  MaxSituations = 2
SPECIFICATION GenSpec
INVARIANTS QueriesBelong
CHECK_DEADLOCK FALSE
