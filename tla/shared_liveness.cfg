SPECIFICATION FairSpec
CONSTANTS
  t1 = t1
  t2 = t2
  t3 = t3
  Tabs = {t1, t2}
  MaxAttempts = 1
  Starts <- LiveStarts
  NULL = NULL
PROPERTIES HiddenReleasesLockInTime VisibleIsConnected
CHECK_DEADLOCK FALSE
