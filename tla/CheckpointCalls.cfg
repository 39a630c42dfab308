SPECIFICATION Spec
CONSTANTS
    Names = {latest}
    Latest = latest
    Builds = {1, 2}
    Horizon = 4
    Interval = 1
    KeepLast = 2
    MaxDamage = 1
    Documents <- MCDocuments
    Absent = Absent
CHECK_DEADLOCK FALSE
INVARIANTS
    SavedSurvives
    PointerNamesKept
    ReturnMeansDone
PROPERTIES
    OnlyOldPruned
