\* The account, and a channel whose pts is not known at first: two events in one, or one in each.
SPECIFICATION Spec
CONSTANTS
  Common = Common
  NoChat = NoChat
  c1 = c1
  c2 = c2
  w1 = w1
  w2 = w2
  Channels = {c1}
  Windows = {}
  KnownChannels = {}
  Counts = {0, 1, 2}
  Eventful = {Common, c1}
  MaxPts = 3
  MaxNet = 2
  MaxEvents = 4
  DialogReload = TRUE
  Unhandled = {}
INVARIANT TypeOK NoSkippedUpdate QueueIsWatched RequestingIsBacked
PROPERTY PtsNeverRewinds
CHECK_DEADLOCK FALSE
