SPECIFICATION Spec
CONSTANTS
  MaxTxs = 2
  Endpoints = 2
  Programs <- MCPayouts
INVARIANT OwedMeansUnpaid
CHECK_DEADLOCK FALSE
