CONSTANTS
    NumDst = 4
    NumSrc = 1
    TmpComps = 2
    Sm70 = TRUE
    Bit = {0, 1, 2, 3, 4}
    InitVal <- MCInitVal
    Kinds = {"GPR", "UGPR", "Pred", "Mem", "Bar", "Imm"}
SPECIFICATION FairSpec
INVARIANTS
    TypeOK
    PendingValueKept
    OnlyCyclesLeft
    ParallelSemantics
    EmittedLowerable
    Inductive
PROPERTIES
    Terminates
    ImplementsParCopy
