SPECIFICATION FairSpec
CONSTANTS
  c1 = c1
  o1 = o1
  p1 = p1
  p2 = p2
  Root = Root
  NoCommit = NoCommit
  Candidates <- OneCandidate
  Others <- OneOther
  Controllers <- OneController
  Preflights <- OnePreflight
  MaxDisturbances = 2
INVARIANTS OutcomeIsTrue PushesAreExact
PROPERTY Settles
CHECK_DEADLOCK FALSE
