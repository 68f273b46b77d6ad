SPECIFICATION FairSpec
CONSTANTS
  Collection <- ThreeMilestones
  Last = 2
  Criteria <- ExitCriteria
  AllowFuture <- OpenWhileWaiting
  Wip <- ShippedLimits
  MaxReturns = 1
  MaxCrashes = 1
INVARIANTS CompletedIsProven AdvanceIsAtomic ScheduleIsSound
PROPERTIES ReadyIsServed
