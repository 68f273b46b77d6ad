SPECIFICATION Spec
CONSTANTS
  Tx = {t1, t2}
  MaxForeign = 0
  MaxFailures = 0
  LateChecks = FALSE
PROPERTIES MergedIsAnchored
CHECK_DEADLOCK FALSE
