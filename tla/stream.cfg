SPECIFICATION FairSpec
CONSTANTS
  Writer = {w1, w2}
  Idle = Idle
  MaxEvents = 3
  MaxDrops = 2
  Limit = 2
  Faults = {"drop","deaf","mute","cold"}
INVARIANTS
  OnlyLateAreMissing
PROPERTIES
  ImplementsLog
  EndIsSeen
CHECK_DEADLOCK FALSE
