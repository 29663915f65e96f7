SPECIFICATION FairSpec
CONSTANTS
  Day = 2
  LastDay = 2
  Retention = 2
  TimeLimit = 1
  RetryDelay = 1
  MaxRetries = 1
  Stuck = {3}
  MaxClock = 7
PROPERTIES Restorable KeptForRetention OldOnesGone Ends
