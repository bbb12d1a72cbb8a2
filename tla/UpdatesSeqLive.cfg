\* Updates of channels that are not loaded, and timers that fire.
SPECIFICATION FairSpec
CONSTANTS
  Wait = 1
  MaxDate = 3
  MaxNet = 2
  Kinds = {"plain", "unknownChannel"}
  Vias = {"push"}
  MayFail = TRUE
PROPERTIES HeldIsReleased MissedIsTold
CHECK_DEADLOCK FALSE
