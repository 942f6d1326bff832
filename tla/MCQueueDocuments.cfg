\* An uploaded and a swept document side by side.
SPECIFICATION Spec
CONSTANTS
  d1 = d1
  q1 = q1
  s1 = s1
  w1 = w1
  None = None
  Rfps = {d1, s1}
  SweepRfps = {s1}
  Workers = {w1}
  Requests = {q1}
  MaxRuns = 2
  MaxJobs = 3
  MaxAttempts = 3
  MaxFaults = 2

  
INVARIANTS
  TypeOK
