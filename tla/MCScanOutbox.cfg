SPECIFICATION FairCountedSpec
CONSTANTS
  Scans = {s1}
  Registered = {s1}
  Workers = {w1, w2}
  Dispatchers = {d1, d2}
  Cancellers = {c1}
  MaxAttempts = 2
  ValidateOutcomes = {"ok", "config_error"}
  StageOutcomes <- HandledOutcomes
  MaxFaults = 0
  MaxRedeliveries = 1
  None = None
  s1 = s1
  w1 = w1
  w2 = w2
  d1 = d1
  d2 = d2
  c1 = c1
PROPERTIES
  EveryScanEnds
  CancellationIsNoticed
  EngineImplementsDelivery
