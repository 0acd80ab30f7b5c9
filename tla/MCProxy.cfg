SPECIFICATION FairSpec
CONSTANTS
  Capacity = 1
  MaxSend = 2
INVARIANTS TypeOK FlushArmed
PROPERTIES BytesKept BytesForwarded FinishedIsClosed
CHECK_DEADLOCK FALSE
