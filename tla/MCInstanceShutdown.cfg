\* Two execute requests, on one run or on two, while the instance closes.
CONSTANTS
    Runs = {r1, r2}
    Handlers = {h1, h2}
    NoRun = NoRun
    NoHandler = NoHandler
    Conclusions = {"success"}
    HasDeadline = TRUE
SPECIFICATION ShutdownSpec
SYMMETRY Symmetry
INVARIANTS
    ShutdownTypeOK
    ClosedIsQuiet
    DirectoryFollowsInstance
    ShutdownIsNoCancellation
\* The instance stops when it is closed.
CHECK_DEADLOCK FALSE
