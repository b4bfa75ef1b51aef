SPECIFICATION FairSpec
CONSTANTS
  Workers = {w1}
  MaxRestarts = 2
  BaseBackoff = 1
  MaxBackoff = 2
  ResetWindow = 2
CHECK_DEADLOCK FALSE
INVARIANTS TypeOK InFlightFinished AtMostOneLateClaim GiveUpJustified
PROPERTIES GracefulStop WorkerComesBack
