SPECIFICATION FairSpec
CONSTANTS
  Item = {u1,f1}
  Uploads = {u1}
  Parts = 1
  Ceiling = 2
  MaxItems = 1
  MaxCalls = 1
  MaxCrashes = 1
  Faults = {"crash", "nojob", "dberror"}
PROPERTIES
  TransfersEnd
  LeftoversGo
  SweepSparesTransfers
CHECK_DEADLOCK FALSE
