\* Two items, three extractions, one restart, two overlapping requests against
\* the worker.
SPECIFICATION Spec
CONSTANTS
  Items <- TwoItems
  Extractions <- ThreeExtractions
  Requests = {q1, q2}
  MaxRuns = 2
  MaxRestarts = 1
  MaxCopies = 2
  None = None
INVARIANTS TypeOK NothingLost DocumentOrder CopiesBounded
PROPERTIES ReviewSurvives
SYMMETRY AnyRequest
CHECK_DEADLOCK FALSE
