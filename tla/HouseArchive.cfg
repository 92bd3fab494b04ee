SPECIFICATION Spec
CONSTANTS
  Doc = {d1, d2}
  Sha = {s1, s2}
  Meta = {m1}
  Absent = Absent
  LocalRecipe = {local}
  OcrRecipe = {ocr}
  ManualReview = manual
  MaxGenerations = 3
  MaxRows = 1
  MaxRuns = 2
  MaxRunsInRefresh = 2
SYMMETRY Interchangeable
CONSTRAINT FewRuns
INVARIANTS
  InSync
  FilingsAreConsistent
PROPERTIES
  ShownOnlyAdvances
  SettledIsCarried
CHECK_DEADLOCK FALSE
