CONSTANTS
    Keys = {k1, k2}
    Vals = {v1}
    NoVal = NoVal
    MaxGen = 3
    MaxLen = 2
    SetLen = 3
    RemoveLen = 2
    Threshold = 2
    Faults = {"write", "flush", "create", "unlink"}
    Threads = {t1, t2}
    Concurrency = 2
    NoOp = NoOp
    Unset = Unset
SPECIFICATION FairStoreSpec
 
PROPERTY GetReturns
CHECK_DEADLOCK FALSE
