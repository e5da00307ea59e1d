\* Three generations and a name for a child of each; no
\* symmetry, for liveness.
CONSTANTS
    Child = {c1, c2, c3}
    NoChild = NoChild
    MaxGeneration = 3
SPECIFICATION FairSpec
INVARIANT OneRespawnChain
PROPERTY IsOneChild
PROPERTY ComesBack
PROPERTY ShutdownEndsChildren
\* The tray exits, and the system with it.
CHECK_DEADLOCK FALSE
