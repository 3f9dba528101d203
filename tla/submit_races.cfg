CONSTANTS
  Members = {m1, m2}
  Theaters = {t1}
  Clients = {c1, c2}
  Workers = {w1}
  Resolvers = {v1}
  None = None
  MaxReports = 3
  ThrottleMax = 2
  SelectionQuota = 1
  MaxCrashes = 0
  FaultyWrites = FALSE
  Outside = {}
SPECIFICATION Spec
SYMMETRY Symmetry
INVARIANTS
  OnePendingPerTheater
VIEW Unwatched
