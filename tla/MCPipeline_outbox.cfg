SPECIFICATION FairSpec
CONSTANTS
  s = s
  c = c
  Urls = {s, c}
  Seeds = {s}
  Workers = {w1}
  Publishers = {p1, p2}
  NoUrl = NoUrl
  Links <- MCTwoLinks
  TooDeep <- MCTooDeep
  Blocked = {}
  Capped = {}
  Collisions = {}
  DurableOutbox = TRUE
  MaxRetries = 2
  BatchSize = 1
  MaxFaults = 1
INVARIANTS NoLinkLost
PROPERTIES LinksArrive EventuallyAcked
