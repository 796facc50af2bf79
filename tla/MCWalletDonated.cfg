\* The holder and two claimers, one write and transfers from outside.
SPECIFICATION Spec
CONSTANTS
  h = h
  a = a
  b = b
  Profiles <- MCProfiles
  Residual = h
  Amounts <- MCSpends
  Donations <- MCDonations
  InitFunds <- MCFunds
  MaxWrites = 1
  MaxSlot = 2
  MayLose = TRUE
  NoOne = NoOne
INVARIANTS AttributionExact KnownViewExact
PROPERTY ImplementsLedger
SYMMETRY Symmetry
CONSTRAINT Bounds
\* A profile may hold no work, and the transactions are bounded.
CHECK_DEADLOCK FALSE
