SPECIFICATION FairSpec
CONSTANTS
  MaxDepth = 2
  MaxBreadth = 2
  MaxQueries = 4
  Starts <- AllStarts
  NULL = NULL
INVARIANTS TypeOK MailedOnce ReportIsWhole
PROPERTY ReportArrives
CHECK_DEADLOCK FALSE
