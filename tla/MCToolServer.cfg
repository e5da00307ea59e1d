\* Two requests, two reconnects and two applies, writes on.
CONSTANTS
    m1 = m1
    m2 = m2
    list = list
    count = count
    executives = executives
    Req = {r1, r2}
    Connector = {c1, c2}
    Manifest <- MCManifest
    Tool <- MCTool
    ToolsOf <- MCToolsOf
    WriteNamed <- MCWriteNamed
    ErpWrite = TRUE
    NoHandle = NoHandle
    NoManifest = NoManifest
    MaxApplies = 2
SPECIFICATION Spec
SYMMETRY Interchangeable
INVARIANT TypeOK
INVARIANT RunsOnlyAllowed
INVARIANT AnsweredIsAudited
INVARIANT HandlesAccounted
\* Every goroutine runs once and ends.
CHECK_DEADLOCK FALSE
