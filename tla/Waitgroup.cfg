SPECIFICATION FairSpec
CONSTANTS
  Owner = main
  Workers = {w1, w2, w3}
  Careless = {w1, w2}
  MaxDelta = 2
  INT_MAX = 7
  Announced = 5
  MaxCareless = 3
INVARIANTS WaitSafe RestoreKept
PROPERTIES Implements FinalizeReturns
CHECK_DEADLOCK FALSE
