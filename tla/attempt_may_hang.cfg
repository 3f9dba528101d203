CONSTANTS
  Members = {m1}
  Theaters = {t1}
  Clients = {c1}
  Workers = {w1}
  Resolvers = {v1}
  None = None
  MaxReports = 1
  ThrottleMax = 2
  SelectionQuota = 1
  MaxCrashes = 1
  FaultyWrites = FALSE
  Outside = {}
SPECIFICATION FairSpec
PROPERTIES
  EveryAttemptEnds
