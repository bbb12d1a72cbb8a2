\* Nothing goes wrong, but _ackedIds is full when an older request is answered.
SPECIFICATION Spec
CONSTANTS
  Requests = {1, 2}
  AckedSize = 1
  WindowSize = 4
  Cut = FALSE
  Acks = {TRUE}
  Cancels = {}
  FaultKinds = {}
  MaxFaults = 0
  MaxId = 10
  MaxDown = 2
INVARIANT NoRequestLost
CHECK_DEADLOCK FALSE
