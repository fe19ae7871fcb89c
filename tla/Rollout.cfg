CONSTANTS
  Pods = {p1, p2, p3}
  MaxRestarts = 1
  MaxCrashes = 3
SPECIFICATION FairSpec
CHECK_DEADLOCK FALSE
INVARIANT TypeOK
INVARIANT ServesOnMigratedSchema
INVARIANT StuckOnlyWhenTorn
PROPERTY RolloutEnds
PROPERTY HistorySpec
