SPECIFICATION Spec
CONSTANTS
    Ids <- MCIds
    Outcomes <- MCOutcomes
    Functions <- IfThen
    Fuel = 16
    MinRegs = 1
INVARIANT AllocationKeeps
