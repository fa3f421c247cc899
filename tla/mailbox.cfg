SPECIFICATION FairSpec
CONSTANTS
  Messages = {1, 2, 3}
  Starts <- AllStarts
  NULL = NULL
INVARIANT TypeOK
PROPERTIES SnoozeHolds KeepsChoice SidesAgree
CHECK_DEADLOCK FALSE
