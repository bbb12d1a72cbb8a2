\* Two requests, one of which may be cancelled; one thing of any kind goes wrong.
SPECIFICATION FairSpec
CONSTANTS
  Requests = {1, 2}
  AckedSize = 4
  WindowSize = 4
  Cut = FALSE
  Acks = {TRUE}
  Cancels = {2}
  FaultKinds = {"break", "salt", "forget", "resend", "reset", "fatal", "old"}
  MaxFaults = 1
  MaxId = 10
  MaxDown = 2
INVARIANTS TypeOK NoRequestLost SentFromOnePlace RunsOnce NumberedInSession HandledOnce
PROPERTY RequestsAreAnswered
CHECK_DEADLOCK FALSE
