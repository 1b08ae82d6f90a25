SPECIFICATION Spec
CONSTANTS
    Proc = {p1, p2}
    NoProc = NoProc
    Config <- OneFamily
    SideBySide = TRUE
    EarlyTimeout = FALSE
    MaxKills = 0
INVARIANT ServesSomewhere
SYMMETRY ProcSymmetry
CHECK_DEADLOCK FALSE
