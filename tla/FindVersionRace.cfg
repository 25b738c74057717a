SPECIFICATION Spec
CONSTANTS
  q1 = q1
  q2 = q2
  Requests <- TwoRequests
  MaxTokens = 3
  MaxRequests = 4
  MaxFaults = 0
INVARIANTS
  BumpInvalidatesAccessTokens
CHECK_DEADLOCK FALSE
