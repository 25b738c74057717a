SPECIFICATION FairSpec
CONSTANTS
  d1 = d1
  d2 = d2
  Dispatchers <- TwoProcesses
  NumRows = 3
  BatchSize = 2
  MaxFailures = 1
  MaxFaults = 1
INVARIANTS
  EveryAttemptIsCounted
PROPERTIES
  ImplementsDelivery
