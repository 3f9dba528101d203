CONSTANTS
  Members = {m1}
  Theaters = {t1}
  Clients = {c1}
  Workers = {w1}
  Resolvers = {v1}
  None = None
  MaxReports = 2
  ThrottleMax = 2
  SelectionQuota = 1
  MaxCrashes = 0
  FaultyWrites = FALSE
  Outside = {"delete", "add"}
SPECIFICATION Spec
INVARIANTS
  ActiveIsNamed
