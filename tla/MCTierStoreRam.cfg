\* RAM-disk mode: migrations, and a loss of the primary with a snapshot before it.
CONSTANTS
  k1 = k1
  k2 = k2
  NoRow = NoRow
  Keys <- MCKeys
  TextOf <- MCTextOf
  UseRamDisk = TRUE
  WalQueueMax = 1
  MaxId = 2
  MaxRestarts = 1
  MaxLosses = 1
SPECIFICATION Spec
PROPERTIES OnlyFailedLost RecoveryIsSuperset
CHECK_DEADLOCK FALSE
