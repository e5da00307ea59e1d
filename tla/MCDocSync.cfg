\* Two files; any two edits and faults. No symmetry: liveness.
CONSTANTS
    File = {f1, f2}
    NoFile = NoFile
    Content = {a, b, big}
    Skipped = {big}
    Absent = Absent
    NoEntry = NoEntry
    NoDoc = NoDoc
    MaxUploads = 6
    Trouble = {"edit", "failure", "crash", "drop", "outage"}
    MaxTroubles = 2
SPECIFICATION FairSpec
INVARIANT TypeOK
INVARIANT QuietMeansExact
INVARIANT LeakBound
PROPERTY StaysMirrored
PROPERTY EventLeadsToExact
PROPERTY CrashHeals
\* The environment is bounded.
CHECK_DEADLOCK FALSE
