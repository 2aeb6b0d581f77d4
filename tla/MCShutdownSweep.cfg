\* A request that is in its setup when Close looks for runners.
CONSTANTS
    Runs = {r1}
    Handlers = {h1, h2}
    NoRun = NoRun
    NoHandler = NoHandler
    Conclusions = {"success"}
    HasDeadline = FALSE
SPECIFICATION ShutdownSpec
INVARIANTS
    ShutdownInterruptsRunners
\* The instance stops when it is closed.
CHECK_DEADLOCK FALSE
