SPECIFICATION FairSpec
CONSTANTS MaxMain = 2 MaxSuite = 2 MaxReceipt = 2 MaxRestarts = 1 MaxFaults = 1
INVARIANTS StopIsAccountedFor
PROPERTIES StopIsRespected LimboEnds
CHECK_DEADLOCK FALSE
