\* One move, with every failure: the capital returns.
SPECIFICATION FairSpec
CONSTANTS
  v = v
  w = w
  Venues <- MCVenues
  Home = v
  Nowhere = Nowhere
  MaxRebalances = 1
  MaxCalm = 1
  MaxFailures = 2
  MaxUnreadable = 2
  MaxIds = 2
  MaxMoves = 1
  MaxCrashes = 1
  MaxDays = 1
  MaxRepoints = 1
PROPERTY CapitalReturns
