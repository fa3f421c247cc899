SPECIFICATION FairSpec
CONSTANTS
  a = a
  b = b
  x = x
  y = y
  z = z
  GroupJobs = {a, b}
  Callbacks = {c1}
  LoneJobs = {x, y, z}
  Poison = {z}
  Starts <- LiveStarts
  Workers = {w1, w2}
  Web = web
  Copies = 2
  RetryCount = 1
  MaxAttempts = 5
  NULL = NULL
PROPERTIES WorkGetsDone CallbackRuns
CHECK_DEADLOCK FALSE
