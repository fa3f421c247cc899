SPECIFICATION FairSpec
CONSTANTS
  s1 = s1
  s2 = s2
  t1 = t1
  t2 = t2
  Sessions = {s1, s2}
  Topics = {t1, t2}
  Length = 4
  Callbacks <- AllCallbacks
  Waiters <- AllWaiters
  Starts <- AllStarts
  NULL = NULL
INVARIANTS TypeOK EveryListenerHasAnOwner ConfirmedIsHeard
PROPERTIES SubscribeIsAnswered SessionEnds
CHECK_DEADLOCK FALSE
