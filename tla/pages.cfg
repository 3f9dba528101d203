SPECIFICATION Spec
CONSTANTS
  Tabs = {a1, a2}
  Calls = {c1, c2, c3}
  MaxLogins = 2
  Theaters = {s1}
  Proposed = s1
  FreeQuota = 0
  PremiumQuota = 1
  MaxCalls = 1
  Names = {a1, a2}
  Contents = {Blank, b1}
  Blank = Blank
  Houses = {a1, a2}
  Films = {b1}
  OpeningDay = 2
  MaxMoves = 2
  Phrases = {a1, a2}
  MaxTyped = 6
  MaxMails = 2
  MaxPosts = 2
  MaxSecrets = 1
  MaxGestures = 4
  MaxMembers = 2
  PageSize = 1
  MaxListings = 2
  MaxRemote = 1
  MaxClicks = 4
SYMMETRY Symmetry
INVARIANTS
  
  ScreenIsCurrent
  UntouchedCronKept
  CardsHaveShowtimes
  FilterFollowsBox
PROPERTIES
  
  SavesWhatWasTyped
CHECK_DEADLOCK FALSE
