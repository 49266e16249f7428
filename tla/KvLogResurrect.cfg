CONSTANTS
    Keys = {k1, k2}
    Vals = {v1}
    NoVal = NoVal
    MaxGen = 5
    MaxLen = 2
    SetLen = 3
    RemoveLen = 2
    Threshold = 4
    Faults = {"unlink"}
SYMMETRY Symmetry
SPECIFICATION Spec
INVARIANT Durable
CHECK_DEADLOCK FALSE
