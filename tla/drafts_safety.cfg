SPECIFICATION Spec
CONSTANTS
  r1 = r1
  r2 = r2
  r3 = r3
  Requests = {r1, r2, r3}
  MaxMessages = 2
  MaxFires = 3
  MaxMails = 2
  MaxTime = 2
  Horizon = 2
  Grace = 1
  Starts <- SafetyStarts
  NULL = NULL
INVARIANTS TypeOK MailedOnce ChosenBeforeSent FiredWhenDueIfOnce
PROPERTIES KeepsPromise
CHECK_DEADLOCK FALSE
