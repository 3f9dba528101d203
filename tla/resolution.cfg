CONSTANTS
  Members = {m1}
  Theaters = {t1}
  Clients = {c1}
  Workers = {w1, w2}
  Resolvers = {v1, v2}
  None = None
  MaxReports = 2
  ThrottleMax = 2
  SelectionQuota = 1
  MaxCrashes = 1
  FaultyWrites = TRUE
  Outside = {"lose", "erase", "scrape"}
SPECIFICATION Spec
SYMMETRY Symmetry
INVARIANTS
  IInv
  NoticesAreFinal
PROPERTIES
  AttemptResolvesOnce
  ImplementsJobs
