SPECIFICATION FairSpec
CONSTANTS
  NMap = 2
  NReduce = 2
  Workers = {w1, w2}
  Urls = {1, 2}
  Records = 2
  Top = 1
  MaxRuns = 2
  Missing = Missing
INVARIANTS MapOutputExact CaseComplete
PROPERTIES ShutdownReturns
CHECK_DEADLOCK FALSE
