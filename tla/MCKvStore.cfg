CONSTANTS
    Keys = {k1, k2}
    Vals = {v1, v2}
    NoVal = NoVal
    MaxGen = 4
    MaxLen = 2
    SetLen = 3
    RemoveLen = 2
    Threshold = 2
    Faults = {}
    Threads = {t1}
    Concurrency = 2
    NoOp = NoOp
    Unset = Unset
SYMMETRY Symmetry
SPECIFICATION StoreSpec
INVARIANTS
    GetFailsOnlyBesideCompaction
PROPERTY RefinesEngine
CHECK_DEADLOCK FALSE
