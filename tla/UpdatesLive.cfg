\* Two windows over a channel: gaps and polling share a deadline, and both end.
SPECIFICATION FairSpec
CONSTANTS
  Common = Common
  NoChat = NoChat
  c1 = c1
  c2 = c2
  w1 = w1
  w2 = w2
  Channels = {c1}
  Windows = {w1, w2}
  KnownChannels = {c1}
  Counts = {1, 2}
  Eventful = {c1}
  MaxPts = 3
  MaxNet = 2
  MaxEvents = 9
  DialogReload = FALSE
  Unhandled = {"tooLong", "stateFailed"}
INVARIANT GapIsWatched ActiveChannelIsPolled
PROPERTY GapIsClosed ActiveChannelCatchesUp
CHECK_DEADLOCK FALSE
