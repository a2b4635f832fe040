\* Two contents, three ids, the default (SSD) mode, one restart, one loss.
CONSTANTS
  k1 = k1
  k2 = k2
  NoRow = NoRow
  Keys <- MCKeys
  TextOf <- MCTextOf
  UseRamDisk = FALSE
  WalQueueMax = 1
  MaxId = 3
  MaxRestarts = 1
  MaxLosses = 0
SPECIFICATION FairSpec
INVARIANTS AlignedIds AckedKept WalInOrder
PROPERTY DuplicatesCollapse
CHECK_DEADLOCK FALSE
