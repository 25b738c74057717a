SPECIFICATION Spec
CONSTANTS
  Scans = {s1}
  Registered = {s1}
  Workers = {w1}
  Dispatchers = {d1}
  Cancellers = {c1}
  MaxAttempts = 2
  ValidateOutcomes = {"ok"}
  StageOutcomes <- SlowProcessing
  MaxFaults = 0
  MaxRedeliveries = 0
  None = None
  s1 = s1
  w1 = w1
  d1 = d1
  c1 = c1
PROPERTIES
  ExpiryEndsTheScan
