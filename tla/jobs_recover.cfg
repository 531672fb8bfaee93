SPECIFICATION FairSpec
CONSTANTS
  Job = {j1}
  k1 = k1
  Key = {k1}
  NoKey = NoKey
  KeyOf <- MCKeyOf
  Worker = {w1, w2}
  NoWorker = NoWorker
  NSteps = 2
  Gates = {1}
  Optional = {}
  MaxCalls = 1
  Faults = {"crash", "stall", "dberror", "redisloss"}
PROPERTIES
  NeverStuckInWorker
  EndedIsSettled
CHECK_DEADLOCK FALSE
