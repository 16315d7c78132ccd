SPECIFICATION Spec
CONSTANTS
  w1 = w1
  w2 = w2
  k1 = k1
  l4 = l4
  l5 = l5
  c1 = c1
  c2 = c2
  l1 = l1
  l2 = l2
  l3 = l3
  Workers = {w1}
  Clients = {}
  Contacts = {c1, c2}
  Leads = {l1, l2, l3}
  DailyLimit = 2
  MaxStep = 3
  Sequences <- TwoSteps
  StopOnReply = {3}
  Null = Null
  MaxMail = 2
  MaxOps = 3
  MaxCrashes = 1
SYMMETRY Symmetry
CHECK_DEADLOCK FALSE
INVARIANTS
  SoleWorkerWithinLimit
  DuplicatesAreExplained
  NoStepSkipped
PROPERTIES
  ImplementsOutreach
