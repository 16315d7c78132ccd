SPECIFICATION Spec
CONSTANTS
  w1 = w1
  w2 = w2
  k1 = k1
  l4 = l4
  l5 = l5
  c1 = c1
  c2 = c2
  l1 = l1
  l2 = l2
  l3 = l3
  Workers = {w1, w2}
  Clients = {k1}
  Contacts = {c1}
  Leads = {l1, l2, l3, l4}
  DailyLimit = 1
  MaxStep = 2
  Sequences <- EditedSteps
  StopOnReply = {2}
  Null = Null
  MaxMail = 2
  MaxOps = 1
  MaxCrashes = 0
SYMMETRY Symmetry
CHECK_DEADLOCK FALSE
INVARIANTS
  AudienceIsDeduplicated
