CONSTANTS
    Files = {f1, f2}
    UnitFile = f1
    Entries = {e1, e2}
    MaxInstallFaults = 2
    MaxMain = 3
    MaxEdits = 1
    MaxRefreshFaults = 2
SPECIFICATION Spec
INVARIANTS InstallationIsSound RuntimeIsSound
PROPERTIES RollbackRestores
CHECK_DEADLOCK FALSE
