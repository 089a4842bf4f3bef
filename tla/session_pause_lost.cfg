SPECIFICATION SessionSpec
CONSTANTS
  MaxRequests = 1
  MaxSessions = 1
  MaxStrikes = 1
  MaxThrows = 0
  AutoStart = FALSE
PROPERTY OnlyResumeUnpauses
CHECK_DEADLOCK FALSE
