SPECIFICATION Spec
CONSTANTS
  k1 = k1
  w1 = w1
  x = x
  y = y
  o1 = o1
  o2 = o2
  o3 = o3
  i1 = i1
  Clients = {k1}
  Workers = {w1}
  MaxUid = 3
  MaxGrants = 2
  MaxOps = 5
  People = {x, y}
  Known = {x, y}
  Mails = {o1, o2, o3}
  Manual = {o2}
  To <- Addressees
  For <- Named
  Refs <- References
  Letters <- TwoAnswers
  NoId = NoId
  NoMail = NoMail
  Nobody = Nobody
  NoThread = NoThread
  Poison = {3}
  Limit = 2
  MaxThreads = 2
  MaxFaults = 1
CHECK_DEADLOCK FALSE
INVARIANTS
  TypeOK
  StatusTellsTheGrant
  AccessComesFromTheGrant
  NothingPassedOver
  StoredOnce
  RepliesAreNoticed
