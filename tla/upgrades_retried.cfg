SPECIFICATION Spec
CONSTANTS
  c1 = c1 p1 = p1 j1 = j1 j2 = j2 j3 = j3 d1 = d1 d2 = d2 n1 = n1 n2 = n2 n4 = n4
  cluster1 = cluster1 w1 = w1
  Job = {j1, j2, j3}
  Key <- MCKey
  NoKey = NoKey
  KeyOf <- MCKeyOf
  Child = {c1, p1}
  Order <- MCOrder
  Kind <- MCKind
  Target = {d1, d2, n1, n2, n4}
  NoTarget = NoTarget
  TargetsOf <- MCTargetsOf
  LeftOut <- MCLeftOut
  Releases <- MCReleases
  HasCeph = TRUE
  NoJob = NoJob NoChild = NoChild
  Driver = {w1}
  Composites = {TRUE}
  Alone = {c1}
  MaxTroubles = 1
  Faults = {"retry"}
PROPERTY EveryRebootIsPrepared
CHECK_DEADLOCK FALSE
