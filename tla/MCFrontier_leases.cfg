SPECIFICATION Spec
CONSTANTS
  a1 = a1
  a2 = a2
  A = A
  Urls = {a1, a2}
  Hosts = {A}
  Workers = {w1, w2}
  NoUrl = NoUrl
  HostOf <- MCHostOfA
  MaxUrls <- MCQuotaOneA
  LeaseTimeout = 2
  MaxDelay = 2
  BatchLimit = 1
  MaxBatch = 2
  MaxReady = 2
  MaxFaults = 1
SYMMETRY MCSymmetry
INVARIANTS TypeOK SingleCopy NothingLost WakePlanHeld NoStrandedHost QuotaHeld
PROPERTIES SettledStaysOut ImplementsDelivery
