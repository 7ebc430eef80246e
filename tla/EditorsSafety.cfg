CONSTANTS
  c1 = c1
  c2 = c2
  lower = lower
  upper = upper
  MaxRows = 3
  MaxSize = 3
  Capacity = 2
  Catalog = {c1, c2}
  Spellings = {lower, upper}
  Available <- Found
  LensNames <- OfTheLens
SPECIFICATION Spec
INVARIANTS EditTypeOK EndsStay SelectionExists SuccessIsWhole FailureIsLocal RefusedUnchanged RangeIsRead CatalogOnce AnswerIsTrue
PROPERTIES CallsEnd
