SPECIFICATION FairSpec
CONSTANTS
  a = a b = b c = c n1 = n1 n2 = n2 n3 = n3 r1 = r1 r2 = r2 r3 = r3 r4 = r4
  Guest = {a, b, c}
  Node = {n1, n2, n3}
  RuleId = {r1, r2, r3, r4}
  Choice <- MCChoice
  NoRule = NoRule
  Tick = {t1, t2}
  Situation <- MCSituation
  NoNode = NoNode
INVARIANT CorrectionMends
PROPERTIES
  
  MovesKeepRules
CHECK_DEADLOCK FALSE
