SPECIFICATION Spec
CONSTANTS
  k1 = k1
  k2 = k2
  w1 = w1
  e1 = e1
  e2 = e2
  t1 = t1
  j1 = j1
  Emails = {e1, e2}
  Clients = {k1, k2}
  Workers = {}
  BadSyntax = {}
  Disposable = {}
  RoleBased = {e2}
  NoContact = NoContact
  Kinds = {"any", "b2b"}
  MaxOps = 4
  Imports = {j1}
  Lines = {1, 2}
  NoEmail = NoEmail
  Mappings <- TwoMappings
  Tasks = {}
  Leads <- NoLeads
  Unknown = Unknown
  NoTask = NoTask
  MaxCrashes = 1
CHECK_DEADLOCK FALSE
INVARIANTS
  CompletedImportsAreWhole
