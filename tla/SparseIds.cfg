SPECIFICATION Spec
CONSTANTS
  None = None
  Initial = 2
  MaxId = 3
  News = {3}
  Deletable = {1, 3}
  Keys = {0, 2}
  LimitBefore = 1
  LimitAfter = 1
  Limit = 2
  MaxNet = 2
  MayFail = TRUE
INVARIANTS TypeOK NothingSkipped NothingKept CountCovers WindowWhole
CHECK_DEADLOCK FALSE
