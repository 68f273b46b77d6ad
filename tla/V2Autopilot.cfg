SPECIFICATION AutopilotSpec
CONSTANTS
  MaxCycles = 2
  Models = 2
  MaxTurnRaises = 1
  MaxReportRetries = 1
  MaxInterruptions = 2
  MaxRespecs = 1
  MaxRedesigns = 1
  MaxRecoveries = 1
INVARIANTS ReviewedIsReleased
PROPERTIES Settles
CHECK_DEADLOCK FALSE
