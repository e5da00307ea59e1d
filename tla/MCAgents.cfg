\* Two processes; a killed one and its successor. No symmetry, for liveness.
CONSTANTS
    Child = {c1, c2}
    Free = Free
    Ghost = Ghost
    Other = Other
    Orphan = Orphan
    MaxKills = 2
    MaxTroubles = 1
SPECIFICATION FairSpec
INVARIANT TypeOK
INVARIANT EndIsTidy
PROPERTY ServesAtLast
PROPERTY ConflictClears
\* A closed tray whose agents have ended.
CHECK_DEADLOCK FALSE
