SPECIFICATION FairSpec
CONSTANTS
    Names = {run, latest, metrics, pid, log, budget}
    Run = run
    Latest = latest
    Metrics = metrics
    Pid = pid
    Log = log
    Budget = budget
    Builds = {1, 2, 3, 4}
    Horizon = 4
    Interval = 2
    KeepLast = 2
    Documents <- MCDocuments
    Absent = Absent
CHECK_DEADLOCK FALSE
INVARIANTS
    RecordedKept
    ExactTrajectory
    ProcessFound
    EvidenceStands
PROPERTIES
    RowsNeverLost
    ImplementsRun
    Completes
