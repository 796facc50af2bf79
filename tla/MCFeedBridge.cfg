SPECIFICATION FairSpec
CONSTANTS
  Legacy = legacy
  Moved = moved
  Nothing = nothing
  MaxRows = 2
  MaxFaults = 2
  Feeds <- MCFeeds
INVARIANTS TypeOK SentOnceInOrder NothingSkipped
PROPERTY Delivered
CHECK_DEADLOCK FALSE
