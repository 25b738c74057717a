SPECIFICATION FairSpec
CONSTANTS
  q1 = q1
  q2 = q2
  Requests <- TwoRequests
  MaxTokens = 3
  MaxRequests = 4
  MaxFaults = 1
INVARIANTS
  InvalidatedStaysInvalid
  PasswordIsTheLastSet
  ClosedStaysClosed
  OneActivePerFamily
  DeadlockNeedsRevokeAll
PROPERTIES
  ConsumedStaysConsumed
  EveryRequestEnds
CHECK_DEADLOCK FALSE
