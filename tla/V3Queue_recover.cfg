SPECIFICATION SpecBeside
CONSTANTS
  i1 = i1
  c1 = c1
  c2 = c2
  r1 = r1
  r2 = r2
  Nobody = Nobody
  Dead = Dead
  Items <- OneItem
  ExternalItems <- NoItem
  Controllers <- OneController
  Recoverers <- TwoRecoverers
  RoadmapStatus <- JustProposed
  Requested <- FewTargets
  LeaseTicks = 1
INVARIANT LiveLeaseSurvivesRecovery
CONSTRAINT NotYet
SYMMETRY Invocations
