SPECIFICATION FairSpec
CONSTANTS
  Scans = {s1, s2}
  Registered = {}
  Workers = {w1, w2}
  Dispatchers = {d1}
  Cancellers = {c1}
  MaxAttempts = 1
  ValidateOutcomes = {"ok"}
  StageOutcomes <- TransientOutcomes
  MaxFaults = 0
  MaxRedeliveries = 1
  None = None
  s1 = s1
  s2 = s2
  w1 = w1
  w2 = w2
  d1 = d1
  c1 = c1
PROPERTIES
  EveryScanEnds
