\* Two runs that may overlap, a window of two, three records a run.
CONSTANTS
    Run = {p1, p2}
    Server = {db, erp}
    Genesis = Genesis
    Garbled = Garbled
    recentCap = 2
    MaxRecords = 3
    MaxFailures = 2
SPECIFICATION Spec
SYMMETRY Interchangeable
INVARIANT WindowIsTail
INVARIANT LossIsNoticed
\* Every run ends.
CHECK_DEADLOCK FALSE
