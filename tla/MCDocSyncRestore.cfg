\* One file; any three edits and failed calls.
CONSTANTS
    File = {f1}
    NoFile = NoFile
    Content = {a, b}
    Skipped = {}
    Absent = Absent
    NoEntry = NoEntry
    NoDoc = NoDoc
    MaxUploads = 4
    Trouble = {"edit", "failure"}
    MaxTroubles = 3
SPECIFICATION Spec
INVARIANT UnchangedIsMirrored
\* The environment is bounded.
CHECK_DEADLOCK FALSE
