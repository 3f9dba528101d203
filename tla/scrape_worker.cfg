SPECIFICATION Spec
CONSTANTS
  Theaters = {t1, t2}
  Chromiums = {b1, b2}
  None = none
  MaxReports = 2
  MaxDates = 1
  MaxCrashes = 1
  CronEnabled = TRUE
INVARIANTS IInv OneBrowserUnlessOverlap 
PROPERTIES SummaryCoversPlan ActiveStays RunsWindDown
SYMMETRY Symmetry
CHECK_DEADLOCK FALSE
