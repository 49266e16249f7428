CONSTANTS
    Keys = {k1, k2}
    Vals = {v1}
    NoVal = NoVal
    MaxGen = 5
    MaxLen = 2
    SetLen = 3
    RemoveLen = 2
    Threshold = 2
    Faults = {"write", "flush", "create", "unlink"}
SPECIFICATION FairSpec
PROPERTIES
    WriterReturns
    OpenReturns
CHECK_DEADLOCK FALSE
