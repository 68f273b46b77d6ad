SPECIFICATION WorkSpec
CONSTANTS
  MaxInstalled = 3
  MaxFaults = 2
  MaxMain = 2
  MaxAnswers = 2
  Plan <- TwoSources
  Claims <- TwoClaims
  Documents <- FiveDocuments
  MaxPlanning = 2
  MaxResearchFaults = 2
  MaxResearchMain = 1
  MaxEpoch = 3
  RevokedFrom = 3
  MaxReadFaults = 2
  Cases <- SomeCases
  World = 2
  MaxOutput = 1
  MaxAttempts = 2
INVARIANTS OneMessageOneResponse FailedAttemptIsArchived PublishedIsSupported DecisionIsEarned
PROPERTIES  AnsweredIsApplied ResearchEnds CommandEnds
CHECK_DEADLOCK FALSE
