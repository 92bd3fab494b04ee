SPECIFICATION FairSpec
CONSTANTS
  Binding = {x}
  Lane = {"local", "gemini"}
  NoLane = NoLane
  Attempt = {a1, a2}
  Outcome = {"candidate", "needs_review"}
  Serial = {original, refusal}
  NoAttempt = NoAttempt
  NoTask = NoTask
  NoBundle = NoBundle
  Original = original
  Refusal = refusal
  Modes = {"full"}
  MaxFaults = 1
PROPERTIES
  ResponsesAreDecided
  ReviewsEscalate
