SPECIFICATION FairSpec
CONSTANTS
  Reliable = FALSE
  SendErrors = FALSE
  Alternates = 1
  MaxNotices = 2
  Codes = {100, 200, 503}
PROPERTY TimedOutEnds
CHECK_DEADLOCK FALSE
