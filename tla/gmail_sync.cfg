SPECIFICATION FairSpec
CONSTANTS
  o1 = o1
  n1 = n1
  w1 = w1
  w2 = w2
  Old = {o1}
  New = {n1}
  Runs = {w1, w2}
  Starts <- AllStarts
  NULL = NULL
INVARIANTS TypeOK OneSyncAtATime CursorCovers
PROPERTY MailArrives
CHECK_DEADLOCK FALSE
