\* The holder and one claimer, two writes in and out: lagging reads, crashes,
\* signers cut off after their send, moves sized on unsettled reads.
SPECIFICATION Spec
CONSTANTS
  h = h
  a = a
  b = b
  Profiles <- MCPair
  Residual = h
  Amounts <- MCAmounts
  Donations <- NoDonations
  InitFunds <- MCPairFunds
  MaxWrites = 2
  MaxSlot = 2
  MayLose = TRUE
  NoOne = NoOne
INVARIANTS TypeOK AttributionExact SettledDivides OneInFlight WalletInv KnownViewExact SpendsOwnMoney
PROPERTY ImplementsLedger
CONSTRAINT Bounds
\* A profile may hold no work, and the transactions are bounded.
CHECK_DEADLOCK FALSE
