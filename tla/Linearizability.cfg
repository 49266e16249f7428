SPECIFICATION FairSpec
CONSTANTS
  Keys = {1, 2}
  MaxOps = 3
  MaxTime = 3
INVARIANTS ListExact AcceptSound RejectSound
PROPERTY CheckReturns
CHECK_DEADLOCK FALSE
