\* One document, two requests, a fault.
SPECIFICATION FairSpec
CONSTANTS
  d1 = d1
  q1 = q1
  q2 = q2
  None = None
  Docs = {d1}
  Requests = {q1, q2}
  MaxConcurrent = 1
  MaxBody = 1
  Grace = 0
  FailedTTL = 1
  MaxRuns = 2
  MaxFaults = 1
INVARIANTS TypeOK SlotsBalance OnlyDueDisappears NoStrayFiles
PROPERTIES SourceGoesAway
CHECK_DEADLOCK FALSE
