SPECIFICATION FairSpec
CONSTANTS
  Servers = {1, 2}
  Calls = {a}
  MaxInc = 2
INVARIANTS AckedPersisted SupersededSilent LinksSymmetric ReliableDelivers
CHECK_DEADLOCK FALSE
 
