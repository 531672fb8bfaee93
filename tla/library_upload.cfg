SPECIFICATION Spec
CONSTANTS
  Item = {u1}
  Uploads = {u1}
  Parts = 2
  Ceiling = 2
  MaxItems = 1
  MaxCalls = 2
  MaxCrashes = 2
  Faults = {"crash", "stall", "apiloss", "nojob", "dberror"}
INVARIANTS
  PublishedIsWhole
PROPERTY PublishedStays
CHECK_DEADLOCK FALSE
