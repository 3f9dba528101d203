CONSTANTS
  Members = {m1}
  Theaters = {t1, t2}
  Clients = {c1, c2}
  Workers = {w1}
  Resolvers = {v1}
  None = None
  MaxReports = 2
  ThrottleMax = 1
  SelectionQuota = 1
  MaxCrashes = 0
  FaultyWrites = FALSE
  Outside = {"suspend", "select", "slide"}
SPECIFICATION Spec
SYMMETRY Symmetry
INVARIANTS
  ThrottleHolds
PROPERTIES
  NewAttemptNeedsVerifiedMember
