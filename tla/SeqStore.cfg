CONSTANTS
    NKeys = 2
    Vals = {v1, v2}
    NoVal = NoVal
    SetLen = 3
    RemoveLen = 2
    Threshold = 2
    MaxGen = 6
    MaxCmds = 4
SYMMETRY Symmetry
SPECIFICATION Spec
INVARIANTS
    RecoveryExplained
    GetExact
    UncompactedKnown
CHECK_DEADLOCK FALSE
