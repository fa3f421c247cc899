SPECIFICATION FairSpec
CONSTANTS
  s1 = s1
  s2 = s2
  c1 = c1
  c2 = c2
  Servers = {s1, s2}
  Clients = {c1, c2}
  o1 = o1
  o2 = o2
  Edits = {o1, o2, e1}
  OldRows <- TwoRows
  FirstId = 3
  Mergers = {m1, m2}
  Starts <- AllStarts
  NULL = NULL
INVARIANT TypeOK
PROPERTIES StoredNeverShrinks EditIsStoredInTime EveryoneSees
CHECK_DEADLOCK FALSE
