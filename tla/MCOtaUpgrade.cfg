SPECIFICATION FairSpec
CONSTANTS
  NDev = 1
  MaxGen = 1
  MaxAdds = 1
  MaxReports = 2
  MaxOpens = 1
  MaxLogins = 0
INVARIANTS TypeOK UpgradeGuarded TimeoutHasState ProgressMeansUpgrading
PROPERTY UpgradeEnds
CHECK_DEADLOCK FALSE
