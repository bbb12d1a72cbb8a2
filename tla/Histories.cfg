\* One chat, read up to two places, with a part of its history, two deletions or
\* sendings, or ghost mode turned on and off.
SPECIFICATION FairSpec
CONSTANTS
  c1 = c1
  h1 = h1
  k1 = k1
  k2 = k2
  Chats = {c1}
  Parts = {h1}
  Keys = {k1, k2}
  MaxTill = 2
  Timeout = 1
  MaxMade = 2
  MaxEntries = 2
INVARIANTS TypeOK DeletionAlone EntryIsBacked ReadsTracked
PROPERTIES ReadIsSent EntryIsAnswered PartIsSent
CHECK_DEADLOCK FALSE
