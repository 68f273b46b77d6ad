SPECIFICATION FairSpec
CONSTANTS
  i1 = i1
  c1 = c1
  c2 = c2
  r1 = r1
  r2 = r2
  Nobody = Nobody
  Dead = Dead
  Items <- OneItem
  ExternalItems <- OneItem
  Controllers <- TwoControllers
  Recoverers <- NoProc
  RoadmapStatus <- Roadmap
  Requested <- AllTargets
  LeaseTicks = 1
INVARIANTS EntryIsRecoverable RunningIsOwned
PROPERTIES LifecycleSpec DeadClaimsAreRecovered
