SPECIFICATION FairSpec
CONSTANTS
  r1 = r1
  r2 = r2
  r3 = r3
  Requests = {r1, r2, r3}
  MaxMessages = 1
  MaxFires = 3
  MaxMails = 1
  MaxTime = 2
  Horizon = 1
  Grace = 1
  Starts <- LiveStarts
  NULL = NULL
PROPERTIES ScheduledIsSettled DispatchedIsDelivered
CHECK_DEADLOCK FALSE
