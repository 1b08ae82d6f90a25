SPECIFICATION Spec
CONSTANTS
    Ids <- MCIds
    Outcomes <- MCOutcomes
    Functions <- AllFunctions
    Fuel = 16
    MinRegs = 1
INVARIANTS PassesSucceed SemanticsKept StrictSsa LivenessExact PhiCongruenceSplit AllocationKeepsSplit
