SPECIFICATION AdmissionsSpec
CONSTANTS
  Binding = {x}
  Lane = {"local", "gemini"}
  NoLane = NoLane
  Attempt = {a1, a2}
  Outcome = {"candidate", "blocked", "needs_review"}
  Serial = {original, refusal, fresh}
  NoAttempt = NoAttempt
  NoTask = NoTask
  NoBundle = NoBundle
  Original = original
  Refusal = refusal
  Modes = {"full"}
  MaxFaults = 1
  Content = {p, q}
  Undated = undated
  Bad = bad
  HouseRecipe = house
  OcrRecipe = {g1}
  ManualReview = manual
  Restored = restored
  Sha = {s1, s2}
  NotListed = notListed
  MaxKey = 1
  MaxGenerations = 2
  MaxTransactions = 4
  MaxDays = 1
  Proposal = {extracted, corrected}
  Extracted = extracted
  Rowset = {w1, w2}
  MaxRecipe = 2
  MaxVerdicts = 2
  MaxDecisions = 3
SYMMETRY AdmissionsInterchangeable
INVARIANTS OneExtractionPerBinding HistoryIsFaithful
PROPERTIES NothingIsLost AdmissionsRestOnReviews
CHECK_DEADLOCK FALSE
