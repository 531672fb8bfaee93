SPECIFICATION FairSpec
CONSTANTS
  n1 = n1 n2 = n2 n3 = n3 n4 = n4 n5 = n5 g1 = g1 g2 = g2 g3 = g3
  Node = {n1, n2, n3, n4, n5}
  Guest = {g1, g2, g3}
  Nowhere = Nowhere
  Home <- MCHome
  Blocked = {g3}
  Rules <- MCRules
  Plans <- MCPlans
  MaxOutages = 2
  Faults = {"refused", "noanswer", "outage", "cancel"}
INVARIANTS
  AccountedFor
  
PROPERTIES
  RebootKeepsQuorum
  RebootsEmpty
  GroupsInOrder
  RunEnds
CHECK_DEADLOCK FALSE
