\* One run is enough for a runner that never exits by itself.
CONSTANTS
    Runs = {r1}
    Handlers = {h1, h2}
    NoRun = NoRun
    NoHandler = NoHandler
    Conclusions = {"success"}
    HasDeadline = TRUE
SPECIFICATION FairShutdownSpec
PROPERTIES
    CancelledRunCompletes
    CloseReturns
\* The instance stops when it is closed.
CHECK_DEADLOCK FALSE
