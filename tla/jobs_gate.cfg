SPECIFICATION Spec
CONSTANTS
  Job = {j1}
  k1 = k1
  Key = {k1}
  NoKey = NoKey
  KeyOf <- MCKeyOf
  Worker = {w1, w2}
  NoWorker = NoWorker
  NSteps = 3
  Gates = {2}
  Optional = {1}
  MaxCalls = 2
  Faults = {"crash", "stall", "dberror", "playbook", "apiloss", "redisloss"}
SYMMETRY Symmetry
INVARIANTS
  TypeOK
  OneRunPerJob
  HeldAsRecorded
  GateHolds
  SuccessIsComplete
  StopsAfterCancel
PROPERTY ImplementsBoard
CHECK_DEADLOCK FALSE
