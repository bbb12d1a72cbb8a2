\* New files: two operations may fail, and crashes come anywhere.
SPECIFICATION Spec
CONSTANTS
  b1 = b1
  b2 = b2
  Bases = {b1, b2}
  Old = {"none"}
  Failures = {"save", "open", "rename"}
  MaxFailures = 2
  Clears = FALSE
  MaxVersion = 4
  MaxInbox = 2
INVARIANTS TypeOK ScheduledIsNewer NothingLost
SYMMETRY Symmetry
CHECK_DEADLOCK FALSE
