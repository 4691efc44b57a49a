SPECIFICATION FairSpec
CONSTANTS
    Tasks = {t1, t2, t3}
    Entries = {e1}
    Files = {f1, f2}
    GateOn = TRUE
    MaxExits = 1
    MaxRefreshes = 2
    NoTask = NoTask
    NoEntry = NoEntry
INVARIANTS
    OnePlacer
    InstalledComplete
    OnlyVerifiedFiles
PROPERTIES
    TasksSettle
CHECK_DEADLOCK FALSE
