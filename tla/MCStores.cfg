SPECIFICATION Spec
CONSTANTS
  a = a
  b = b
  Records = {a, b}
  Shards = {0}
  ShardOf <- MCShardOf
  SizeOf <- MCSizeOf
  Workers = {w1, w2}
  Order <- MCOrder
  WarcInfo = WarcInfo
  MaxRows = 2
  MaxBytes = 3
  MaxDuration = 1
  Flushing = TRUE
  MaxTime = 1
  MaxFaults = 1
SYMMETRY MCSymmetry
CHECK_DEADLOCK FALSE
INVARIANTS LedgerPathHeld BuffersBounded
PROPERTIES FlushReachesEveryStore
