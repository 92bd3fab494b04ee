SPECIFICATION Spec
CONSTANTS
  Doc = {d1, d2}
  Sha = {s1}
  Meta = {m1}
  Absent = Absent
  LocalRecipe = {local}
  OcrRecipe = {ocr}
  ManualReview = manual
  MaxGenerations = 3
  MaxRows = 1
  MaxRuns = 3
  MaxRunsInRefresh = 3
SYMMETRY Interchangeable
CONSTRAINT FewRuns
CHECK_DEADLOCK FALSE
INVARIANT RemovedRowsGo
