SPECIFICATION FairSpec
CONSTANTS
  a1 = a1
  a2 = a2
  A = A
  Urls = {a1, a2}
  Hosts = {A}
  Workers = {w1}
  NoUrl = NoUrl
  HostOf <- MCHostOfA
  MaxUrls <- MCQuotaA
  LeaseTimeout = 1
  MaxDelay = 1
  BatchLimit = 2
  MaxBatch = 1
  MaxReady = 2
  MaxFaults = 1
PROPERTIES EventuallyAcked
