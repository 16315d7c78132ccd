SPECIFICATION FairSpec
CONSTANTS
  w1 = w1
  k1 = k1
  m1 = m1
  m2 = m2
  Workers = {w1}
  Clients = {k1}
  Mailboxes = {m1, m2}
  Limits = {1}
  DailyLimit = 1
  Observed = m1
  Null = Null
  MaxOps = 1
  MaxCrashes = 1
CHECK_DEADLOCK FALSE
INVARIANTS
  TypeOK
  OnlyWantedPairsRun
PROPERTIES
  ImplementsQuota
  ReadyMailboxWarmsUp
