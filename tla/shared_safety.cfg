SPECIFICATION Spec
CONSTANTS
  t1 = t1
  t2 = t2
  t3 = t3
  Tabs = {t1, t2, t3}
  MaxAttempts = 1
  Starts <- SafetyStarts
  NULL = NULL
SYMMETRY TabSymmetry
INVARIANTS TypeOK OneConnection VisibleContends WantedIsSubscribed
CHECK_DEADLOCK FALSE
