SPECIFICATION FairSpec
CONSTANTS
  Fetchers = {w1, w2}
  Initial = 2
  Multiplier = 2
  MaxBackoff = 2
  DurationLimit = 8
  Threshold = 2
  Hints = {3}
  MaxCount = 3
  MaxMishaps = 1
INVARIANTS BreakerTypeOK
PROPERTIES BreakerRecovers StateClears
