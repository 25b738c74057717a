SPECIFICATION Spec
CONSTANTS
  TicksPerSecond = 2
  Window = 2
  MaxRequests = 2
  Lifetime = 3
  Requests = {q1, q2}
  q1 = q1
  q2 = q2
INVARIANTS
  TwoBudgetsAWindow
  LoggedOutToTheLastSecond
PROPERTIES
  LimitIsLifted
