CONSTANTS
    Keys = {k1, k2}
    Vals = {v1, v2}
    NoVal = NoVal
    MaxGen = 5
    MaxLen = 3
    SetLen = 3
    RemoveLen = 2
    Threshold = 4
    Faults = {}
SYMMETRY Symmetry
SPECIFICATION Spec
INVARIANTS
    SafePointSuffices
    IndexInLog
    NoIndexBelowSafePoint
    Durable
    UncompactedExact
PROPERTY OnlyCommandsChangeRecovery
CHECK_DEADLOCK FALSE
