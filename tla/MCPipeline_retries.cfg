SPECIFICATION Spec
CONSTANTS
  s = s
  c = c
  Urls = {s, c}
  Seeds = {s}
  Workers = {w1, w2}
  Publishers = {}
  NoUrl = NoUrl
  Links <- MCLinks
  TooDeep <- MCTooDeep
  Blocked = {}
  Capped = {c}
  Collisions = {c}
  DurableOutbox = FALSE
  MaxRetries = 2
  BatchSize = 1
  MaxFaults = 1
SYMMETRY MCSymmetry
INVARIANTS TypeOK TrailLeft RetriesBounded SkippedNeverFetched
