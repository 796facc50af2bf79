\* Moves sized on reads the guard did not let through.
SPECIFICATION Spec
CONSTANTS
  h = h
  a = a
  b = b
  Profiles <- MCPair
  Residual = h
  Amounts <- MCAmounts
  Donations <- NoDonations
  InitFunds <- MCPairFunds
  MaxWrites = 2
  MaxSlot = 2
  MayLose = FALSE
  NoOne = NoOne
INVARIANTS NeverSpendsAnothers
CONSTRAINT Bounds
\* A profile may hold no work, and the transactions are bounded.
CHECK_DEADLOCK FALSE
