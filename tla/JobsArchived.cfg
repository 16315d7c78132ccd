SPECIFICATION Spec
CONSTANTS
  w1 = w1
  w2 = w2
  k1 = k1
  k2 = k2
  t1 = t1
  t2 = t2
  Workers = {w1}
  Clients = {k1}
  Tasks = {t1, t2}
  Null = Null
  MaxOps = 2
  MaxCrashes = 0
CHECK_DEADLOCK FALSE
PROPERTIES
  ArchivedNeedsRestore
