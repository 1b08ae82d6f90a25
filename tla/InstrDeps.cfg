SPECIFICATION Spec
CONSTANTS
    Regs = {1, 2}
    NumBars = 2
    Modes = {"serial", "barriers"}
    Codes <- Shapes
    RawLatency = 4
    WarLatency = 1
    WawLatency = 2
    UpperBound = 4
    MaxRounds = 6
INVARIANTS ScheduleKeepsConflicts HazardFree FlowCompletes
