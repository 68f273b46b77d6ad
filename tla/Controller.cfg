SPECIFICATION FairSpec
CONSTANTS
  Kinds <- AllWork
  Roles = 2
  MaxPlan = 2
  MaxRepair = 1
  MaxSame = 2
  MaxRestarts = 1
  MaxRechecks = 1
  MaxRedesigns = 1
  MaxCrashes = 1
  MaxLeaseLosses = 1
  MaxMoves = 1
  MaxSnapshots = 2
INVARIANTS RecordIsSound PassedWasVerified OnlyFailuresLoseWork
PROPERTIES BudgetsShrink Resolves
CONSTRAINT MovesAlone
