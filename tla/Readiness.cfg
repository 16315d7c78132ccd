SPECIFICATION Spec
CONSTANTS
  k1 = k1
  k2 = k2
  l1 = l1
  l2 = l2
  Clients = {k1, k2}
  Leads = {l1, l2}
  Answers <- SomeAnswers
  MaxSends = 2
  MaxOps = 3
SYMMETRY LeadSymmetry
CHECK_DEADLOCK FALSE
INVARIANTS
  TypeOK
  StatusMatchesRecords
  RefusedIsNotActive
  TroubleShows
  ScoreTellsReady
