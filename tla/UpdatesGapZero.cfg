\* A pts_count of 0 cancels the wait for a gap.
SPECIFICATION Spec
CONSTANTS
  Common = Common
  NoChat = NoChat
  c1 = c1
  c2 = c2
  w1 = w1
  w2 = w2
  Channels = {}
  Windows = {}
  KnownChannels = {}
  Counts = {0, 1, 2}
  Eventful = {Common}
  MaxPts = 4
  MaxNet = 3
  MaxEvents = 9
  DialogReload = FALSE
  Unhandled = {}
INVARIANT GapIsWatched
CHECK_DEADLOCK FALSE
