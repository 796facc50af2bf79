\* A crash after a close, then a failover before the intent is resumed.
SPECIFICATION Spec
CONSTANTS
  v = v
  w = w
  Venues <- MCVenues
  Home = v
  Nowhere = Nowhere
  MaxRebalances = 1
  MaxCalm = 1
  MaxFailures = 2
  MaxUnreadable = 2
  MaxIds = 3
  MaxMoves = 1
  MaxCrashes = 1
  MaxDays = 0
  MaxRepoints = 1
INVARIANTS FailoverBooks
