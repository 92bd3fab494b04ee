SPECIFICATION Spec
CONSTANTS
  Binding = {x}
  Lane = {"gemini"}
  NoLane = NoLane
  Attempt = {a1}
  Outcome = {"candidate", "needs_review"}
  Serial = {original, refusal, fresh}
  NoAttempt = NoAttempt
  NoTask = NoTask
  NoBundle = NoBundle
  Original = original
  Refusal = refusal
  Modes = {"full"}
  MaxFaults = 0
SYMMETRY Interchangeable
PROPERTIES
  UnresolvedAdmissionIsRefused
CHECK_DEADLOCK FALSE
