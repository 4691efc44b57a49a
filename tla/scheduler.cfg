SPECIFICATION FairSpec
CONSTANTS
    Jobs = {j1, j2}
    Requests = {q1}
    Ops = {"create", "update", "enable", "disable", "delete", "run"}
    Plans = {quick, long}
    Slow = {long}
    MaxOccurrences = 1
    MaxFailures = 2
    Scheduler = Scheduler
    Absent = Absent
    Deleted = Deleted
    NoJob = NoJob
    NoRun = NoRun
INVARIANTS
    OneExecution
    AtMostOncePerOccurrence
PROPERTIES
    OutcomeKept
    RunsSettle
    DueJobsRun
CHECK_DEADLOCK FALSE
