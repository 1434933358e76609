SPECIFICATION FairSpec
CONSTANT MaxFaults = 1
PROPERTY TimedOutByeEnds
CHECK_DEADLOCK FALSE
