\* Two moves and two crashes on two venues.
SPECIFICATION Spec
CONSTANTS
  v = v
  w = w
  Venues <- MCVenues
  Home = v
  Nowhere = Nowhere
  MaxRebalances = 1
  MaxCalm = 1
  MaxFailures = 2
  MaxUnreadable = 2
  MaxIds = 3
  MaxMoves = 2
  MaxCrashes = 2
  MaxDays = 1
  MaxRepoints = 1
INVARIANTS TypeOK AtMostOne LedgerFollowsChain MovesCounted BudgetsHold IntentOnVenue IntentTrue
CONSTRAINT OneStray
