SPECIFICATION FairSpec
CONSTANTS
  Reliable = FALSE
  Codes = {100, 180, 200, 202, 486}
  MaxCalls = 2
INVARIANTS TypeOK OneEnding AckMeansFailure AnsweredHasTimer
PROPERTIES OutcomeSpec AnsweredEnds CallingEnds
CHECK_DEADLOCK FALSE
