SPECIFICATION FairSpec
CONSTANTS
  s1 = s1
  s2 = s2
  s3 = s3
  f1 = f1
  f2 = f2
  Scans = {s1, s2, s3}
  Fingerprints = {f1, f2}
  Detections <- Crossing
  MaxFaults = 2
  NoRow = NoRow
  None = None
CHECK_DEADLOCK FALSE
INVARIANTS
  NoWaitCycle
  CreationIsAudited
  DoneMeansRecorded
PROPERTIES
  ImplementsRegister
  EveryRunEnds
