\* Nobody edits: the directory cannot be read for a while.
CONSTANTS
    File = {f1, f2}
    NoFile = NoFile
    Content = {a, b}
    Skipped = {}
    Absent = Absent
    NoEntry = NoEntry
    NoDoc = NoDoc
    MaxUploads = 3
    Trouble = {"crash", "outage"}
    MaxTroubles = 2
SPECIFICATION Spec
INVARIANT PurgesOnlyDeleted
\* The environment is bounded.
CHECK_DEADLOCK FALSE
