\* A crash, or a signer cut off, between a send and its signature's record.
SPECIFICATION Spec
CONSTANTS
  h = h
  a = a
  b = b
  Profiles <- MCPair
  Residual = h
  Amounts <- MCAmounts
  Donations <- NoDonations
  InitFunds <- MCPairFunds
  MaxWrites = 2
  MaxSlot = 2
  MayLose = TRUE
  NoOne = NoOne
INVARIANTS AlwaysExact
CONSTRAINT OneReader
\* A profile may hold no work, and the transactions are bounded.
CHECK_DEADLOCK FALSE
