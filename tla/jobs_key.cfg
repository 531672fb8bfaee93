SPECIFICATION Spec
CONSTANTS
  Job = {j1, j2}
  k1 = k1
  Key = {k1}
  NoKey = NoKey
  KeyOf <- MCKeyOf
  Worker = {w1, w2}
  NoWorker = NoWorker
  NSteps = 1
  Gates = {}
  Optional = {}
  MaxCalls = 2
  Faults = {"crash"}
SYMMETRY Symmetry
INVARIANTS
  KeyIsExclusive
PROPERTY EndedStepsOnlyClose
CHECK_DEADLOCK FALSE
