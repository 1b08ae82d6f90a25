CONSTANTS
    RegCount = 6
    NumSSA = 8
    MaxComps = 2
    MaxOperands = 3
    MaxSrcs = 2
    MaxDsts = 2
    MaxPinned = 1
    MaxInstrs = 1
SPECIFICATION Spec
INVARIANTS
    TablesAgree
    LiveValuesHeld
    SourcesHeld
    CopyWellFormed
    AssertsHold
PROPERTY PinnedStay
