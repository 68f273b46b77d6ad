SPECIFICATION FairSpec
CONSTANTS
  Collection <- ReviewAndProduct
  Last = 1
  Criteria <- NothingElse
  AllowFuture <- NothingElse
  Wip <- ShippedLimits
  MaxReturns = 0
  MaxCrashes = 0
PROPERTIES WaitingStopsNoLane
