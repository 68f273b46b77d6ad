CONSTANTS
  MaxIssues = 2
  MaxSuites = 2
  MaxChecked = 1
  MaxFaults = 1
  MaxActivations = 2
  MaxObservations = 5
  MaxDeaths = 2
  SuiteGrades <- MCSuiteGrades
  t1 = t1
  t2 = t2
  Tx <- TwoTx
  MaxForeign = 1
  MaxFailures = 1
  LateChecks = TRUE
SPECIFICATION HostSpec
INVARIANTS NonceIsUsedOnce CheckedOnce
PROPERTIES SelectionsMoveForward SoundIsAnswered RulesetIsRefreshed
PROPERTIES AnchorIsSound MergedIsAnchoredOrBlocked
CHECK_DEADLOCK FALSE
CONSTRAINT OneDisturbance
