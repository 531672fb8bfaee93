SPECIFICATION FairSpec
CONSTANTS
  b1 = b1 b2 = b2 h1 = h1 h2 = h2 j1 = j1 j2 = j2 j3 = j3
  Job = {j1, j2, j3}
  Key = {h1, h2}
  NoKey = NoKey
  KeyOf <- MCKeyOf
  Build = {b1, b2}
  Hosts <- MCHosts
  Packaged = {b1}
  NoJob = NoJob
  MaxVmid = 3
  MaxTroubles = 1
  MaxDisturbed = 1
  Faults = {"refused", "noanswer", "dberror", "crash", "stall", "apiloss", "cancel", "retry"}
INVARIANTS
  
  SuccessIsWhole
PROPERTIES
  DestroysItsOwn
  BuildsSettle
CHECK_DEADLOCK FALSE
