SPECIFICATION Spec
CONSTANTS
    Names = {run, latest}
    Run = run
    Dropout = FALSE
    Latest = latest
    Builds = {1, 2, 3}
    Horizon = 4
    Interval = 2
    KeepLast = 2
    Documents <- MCDocuments
    Absent = Absent
CHECK_DEADLOCK FALSE
INVARIANTS
    RecordedKept
    ExactTrajectory
PROPERTIES
    ImplementsRun
