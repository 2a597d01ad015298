SPECIFICATION FairStreamSpec
CONSTANTS
  u1 = u1
  u2 = u2
  Uploads = {u1, u2}
  MaxWorkers = 2
  Capacity = 2
  PartCount = 2
  None = None
  Faults = TRUE
CHECK_DEADLOCK FALSE
INVARIANTS
  StreamIInv
  NoSendAfterClose
  EndTellsAll
  ToldIsRecorded
  EntriesAreTrue
PROPERTIES
  HeardMovesForward
  CallEnds
