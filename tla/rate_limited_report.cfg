SPECIFICATION Spec
CONSTANTS
  Theaters = {t1}
  Chromiums = {b1}
  None = none
  MaxReports = 1
  MaxDates = 2
  MaxCrashes = 0
  CronEnabled = FALSE
PROPERTIES RateLimitReported
CHECK_DEADLOCK FALSE
