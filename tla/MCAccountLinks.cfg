SPECIFICATION Spec
CONSTANTS
  q1 = q1
  q2 = q2
  Requests <- TwoRequests
  MaxTokens = 3
  MaxRequests = 5
  MaxFaults = 1
INVARIANTS
  LatestLinkWorks
  OnlyLatestLinkWorks
  LinkWorksOnce
CHECK_DEADLOCK FALSE
