\* Days of two units, weeks of two days.
CONSTANTS
  t1 = t1
  Triggers = {t1}
  Window = 1
  Day = 2
  Week = 4
  RowLimit <- MCRowLimit
  Room <- MCRoom
  Every <- MCEvery
  MaxTime = 4
  MaxWait = 1
  MaxEntries = 1
  MaxTroubles = 1
SPECIFICATION Spec
PROPERTY DiscoveryHeals
CHECK_DEADLOCK FALSE
