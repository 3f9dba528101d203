SPECIFICATION Spec
CONSTANTS
  Members = {m1}
  Requests = {a1, a2}
  MaxTokens = 3
  MaxLinks = 2
  MaxPasswords = 2
  Staff = {u1, u2, u3}
  InitialAdmin = u1
  Roles = {ro1}
  Permissions = {b1, b2}
  StaffRequests = {a1, a2}
  Channels = {a1, a2}
  MaxClients = 6
  Schedules = {s1}
  Edits = {a1, a2}
  MaxVersions = 4
  Viewers = {a1, a2}
  Pipes = {c1, c2, c3}
  PipeCap = 2
  MaxEvents = 2
  Administrators = {a1, a2}
  Connections = {b1, b2}
  Maxima = {1, 2}
  Unset = Unset
  Minutes = 2
  MaxChanges = 1
  MaxRequests = 2
  Scrapers = {a1, a2}
  Movies = {b1}
  Screens = {s1}
  MaxScrapes = 2
  FirstDay = 2
  LastDay = 2
  Servers = {a1, a2}
  LastFile = 2
  Seeds = {b1, b2}
  MaxDeaths = 2
  Texts = {a1, a2, b1}
  Malformed = {b2}
  CacheSize = 2
  MaxParses = 6
SYMMETRY Symmetry
INVARIANTS
  
  OneSuccessor
  LinkSpentOnce
  
  NeverDeaf
  TasksFollowTable
  PipesAreServed
  ProgrammeHasShowtimes
  LimitedScrapesFit
PROPERTIES
  ErasureKnowsPassword
  ImplementsLedger
  LastAdminLostToRace
  ReplaceIsExact
  KnownDetailsStay
CHECK_DEADLOCK FALSE
