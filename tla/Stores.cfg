SPECIFICATION Spec
CONSTANTS
  Process = {p1, p2, p3}
  NoSnapshot = NoSnapshot
  MaxCommits = 2
  Decision = {e1, e2}
  Publisher = {q1, q2}
  Nobody = Nobody
  Doc = {d1, d2}
  Stager = {s1, s2}
  NoDoc = NoDoc
  MaxReadings = 3
  MaxAttempts = 3
  LastDay = 3
  Actions = {3}
  Starts = {1, 3}
  MaxRepairs = 2
  Filing = {f1}
  Worker = {t1}
  MaxGeneration = 2
  MaxMended = 1
INVARIANTS
  OwnershipInvariant
  
  StagingInvariant
  PriceInvariant
  RebuildIsSound
PROPERTIES
  ReadersAreServed
  StagersWriteRecords
  FetchesKeepEvidence
CHECK_DEADLOCK FALSE
