SPECIFICATION FairSpec
CONSTANTS
  k1 = k1
  k2 = k2
  w1 = w1
  e1 = e1
  e2 = e2
  t1 = t1
  j1 = j1
  Emails = {e1, e2}
  Clients = {k1, k2}
  Workers = {w1}
  BadSyntax = {}
  Disposable = {}
  RoleBased = {e2}
  NoContact = NoContact
  Kinds = {"any"}
  MaxOps = 3
  Imports = {}
  Lines = {}
  NoEmail = NoEmail
  Mappings = {}
  Tasks = {t1}
  Leads <- BothLeads
  Unknown = Unknown
  NoTask = NoTask
  MaxCrashes = 1
CHECK_DEADLOCK FALSE
INVARIANTS
  TypeOK
  ListedIsBlocked
  FreeIsUnflagged
  VerdictIsWhole
  ValidMeansFullScore
  VerificationRowsAreHonest
  CompletedJobsVerifiedTheirLeads
PROPERTIES
  PublishedTasksEnd
