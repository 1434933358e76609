SPECIFICATION FairSpec
CONSTANTS
  c1 = c1
  c2 = c2
  Cmd = {c1, c2}
  Looper = Looper
  NoCmd = NoCmd
  Errors <- MCErrors
INVARIANTS TypeOK NoSilentCommand ToldMeansTaken NoStrayTimeout
PROPERTIES LateLookupFindsNothing EveryCommandReported
CHECK_DEADLOCK FALSE
