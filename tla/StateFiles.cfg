SPECIFICATION Spec
CONSTANTS
    Names = {run, metrics}
    Documents = {d1, d2, d3}
    Absent = Absent
CHECK_DEADLOCK FALSE
INVARIANTS
    RestartSucceeds
    SweptBeforeUse
PROPERTIES
    ImplementsRegister
