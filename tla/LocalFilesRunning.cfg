\* No crash: waiting and the order of writing.
SPECIFICATION RunningSpec
CONSTANTS
  b1 = b1
  b2 = b2
  Bases = {b1, b2}
  Old = {"none", "zero"}
  Failures = {}
  MaxFailures = 0
  Clears = FALSE
  MaxVersion = 4
  MaxInbox = 3
PROPERTY SyncWaitsForDisk WritesLand
CHECK_DEADLOCK FALSE
