SPECIFICATION Spec
CONSTANTS
  a = a
  b = b
  x = x
  y = y
  z = z
  GroupJobs = {a, b}
  Callbacks = {c1, c2}
  LoneJobs = {x, y}
  Poison = {}
  Starts <- SafetyStarts
  Workers = {w1, w2}
  Web = web
  Copies = 2
  RetryCount = 1
  MaxAttempts = 5
  NULL = NULL
SYMMETRY WorkerSymmetry
INVARIANTS TypeOK CompletedMeansPerformed
PROPERTIES CallbackIsBarrier FinishedStaysFinished
CHECK_DEADLOCK FALSE
