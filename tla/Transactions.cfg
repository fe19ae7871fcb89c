CONSTANTS
  r1 = r1
  r2 = r2
  r3 = r3
  r4 = r4
  r5 = r5
  RowIds = {r1, r2, r3, r4, r5}
  PerPage = 2
  MaxTime = 3
  Unset = Unset
  Limit = 3
  DayLength = 2
SPECIFICATION DatewiseSpec
SYMMETRY MCSymmetry
CHECK_DEADLOCK FALSE
INVARIANT TypeOK
INVARIANT OnlyTheOldestAreCut
INVARIANT DaysAreWhole
INVARIANT NewestFirst
PROPERTY ListingSpec
