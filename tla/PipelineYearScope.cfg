SPECIFICATION Spec
CONSTANTS
  Binding = {x, y}
  Lane = {"gemini"}
  NoLane = NoLane
  Attempt = {a1}
  Outcome = {"candidate", "needs_review"}
  Serial = {original, refusal}
  NoAttempt = NoAttempt
  NoTask = NoTask
  NoBundle = NoBundle
  Original = original
  Refusal = refusal
  Modes = {"full", "years"}
  MaxFaults = 1
SYMMETRY Interchangeable
INVARIANTS
  PaidResponsesCount
CHECK_DEADLOCK FALSE
