\* New files and old ones, clearing and crashes: they implement the abstract store.
SPECIFICATION Spec
CONSTANTS
  b1 = b1
  b2 = b2
  Bases = {b1, b2}
  Old = {"none", "zero", "one", "newer1", "torn0", "torn1"}
  Failures = {}
  MaxFailures = 0
  Clears = TRUE
  MaxVersion = 3
  MaxInbox = 2
PROPERTY ImplementsStore
CHECK_DEADLOCK FALSE
