SPECIFICATION FairSpec
CONSTANTS
    Requests = {q1, q2}
    Sites = {s1, s2}
    Parents = {s1, s2}
    ParentOf <- OwnParent
    Resources <- TwoSites
    Copies = {1, 2}
    Initial = 1
    MaxRuns = 3
    MaxEdits = 1
    MaxFaults = 1
    NoPlan = NoPlan
    Gone = Gone
    NoRow = NoRow
    NoDir = NoDir
    Missing = Missing
    Empty = Empty
    s1 = s1
    s2 = s2
INVARIANTS
    CompletedHasFiles
    LiveContentKept
    RetentionSpares
    NoOrphanSchedule
PROPERTIES
    RunsSettle
CHECK_DEADLOCK FALSE
