SPECIFICATION FairSpec
CONSTANT MaxFaults = 1
INVARIANTS TypeOK NobodyTalksAlone EndIsPending
PROPERTIES CallViewSpec HangUpEnds
CHECK_DEADLOCK FALSE
