SPECIFICATION FairSpec
CONSTANTS
  a = a
  b = b
  c = c
  NumShards = 3
  MaxPods = 2
  Explicit <- MCNone
  Environments = {"both"}
  Workers = {"w"}
  Urls = {a, b, c}
  Hosts = {"h0", "h1"}
  ShardOf <- MCShardOf
  MaxUrls <- MCMaxUrls
  HostOf <- MCHostOf
  Seeds = {a}
  LinksOf <- MCLinksOf
  Dispatches = {"outbox"}
  BatchSize = 2
  CursorSize = 3
  MaxFaults = 0
PROPERTIES LinksArrive
