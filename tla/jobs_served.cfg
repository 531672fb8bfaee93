SPECIFICATION FairSpec
CONSTANTS
  Job = {j1}
  k1 = k1
  Key = {k1}
  NoKey = NoKey
  KeyOf <- MCKeyOf
  Worker = {w1}
  NoWorker = NoWorker
  NSteps = 2
  Gates = {1}
  Optional = {}
  MaxCalls = 2
  Faults = {"stall"}
PROPERTIES
  QueuedIsServed
  
CHECK_DEADLOCK FALSE
