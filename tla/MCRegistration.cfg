SPECIFICATION FairSpec
CONSTANTS
  Reliable = FALSE
  SendErrors = TRUE
  Alternates = 1
  MaxNotices = 2
  Codes = {100, 200, 202, 302, 401, 404, 423, 503}
INVARIANTS TypeOK NotAbandoned ShownIsTrue OneAttempt WaitingIsServed
PROPERTIES UnregisterIsFinal Retried WaitingEnds
CHECK_DEADLOCK FALSE
