SPECIFICATION Spec
CONSTANTS
  Doc = {d1, d2}
  Nothing = Nothing
  Flagged = {d1}
  Seed = {k1}
  Sizes = {2}
  RateLimit = 2
  MaxReadings = 2
  MaxVerdicts = 2
  Cell = {"flagged", "unflagged"}
  Odds = 5
  MaxPopulation = 5
  Candidates = 4
  Workers = 2
  Threshold = 2
  Scan = {d1}
  Page = {1, 2}
  Runner = {r1, r2}
  Nil = Nil
  MaxPdf = 2
  MaxPublished = 2
INVARIANTS
  GateIsSound
  BoundIsSound
  BatchStops
  SweepIsSound
PROPERTIES
  VerdictsAreBound
CHECK_DEADLOCK FALSE
