\* An open that lands after it was counted as failed leaves its intent behind.
SPECIFICATION Spec
CONSTANTS
  v = v
  w = w
  Venues <- MCVenues
  Home = v
  Nowhere = Nowhere
  MaxRebalances = 1
  MaxCalm = 1
  MaxFailures = 2
  MaxUnreadable = 2
  MaxIds = 3
  MaxMoves = 2
  MaxCrashes = 0
  MaxDays = 0
  MaxRepoints = 1
INVARIANTS NoStaleReplay
