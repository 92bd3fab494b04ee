SPECIFICATION Spec
CONSTANTS
  Binding = {x}
  Lane = {"gemini", "glm"}
  NoLane = NoLane
  Attempt = {a1, a2}
  Outcome = {"candidate", "retry_wait", "needs_review"}
  Serial = {original, refusal, fresh}
  NoAttempt = NoAttempt
  NoTask = NoTask
  NoBundle = NoBundle
  Original = original
  Refusal = refusal
  Modes = {"full"}
  MaxFaults = 1
SYMMETRY Interchangeable
INVARIANTS AdmissionsAreGrounded PaidResponsesCount
PROPERTIES ResolvedIsNotExtracted NothingForgotten UsesQueue
