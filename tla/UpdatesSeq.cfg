\* Containers by push and by result, lost and reordered; users may be unknown.
SPECIFICATION Spec
CONSTANTS
  Wait = 1
  MaxDate = 4
  MaxNet = 3
  Kinds = {"plain", "unknownUser"}
  Vias = {"push", "result"}
  MayFail = TRUE
INVARIANTS TypeOK NoSkippedSeq HeldIsWatched NothingFedTwice
CHECK_DEADLOCK FALSE
