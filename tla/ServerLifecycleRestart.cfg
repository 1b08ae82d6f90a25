SPECIFICATION Spec
CONSTANTS
    Proc = {p1, p2}
    NoProc = NoProc
    Config <- AllModes
    SideBySide = FALSE
    EarlyTimeout = TRUE
    MaxKills = 1
INVARIANTS ServingReachable CleanExit DomainLinkReachable
PROPERTY ShutdownCompletes
CHECK_DEADLOCK FALSE
