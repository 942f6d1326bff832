\* Two reprocess requests that overlap, boots between their reads and writes.
SPECIFICATION Spec
CONSTANTS
  d1 = d1
  q1 = q1
  q2 = q2
  w1 = w1
  None = None
  Rfps = {d1}
  SweepRfps = {}
  Workers = {w1}
  Requests = {q1, q2}
  MaxRuns = 4
  MaxJobs = 4
  MaxAttempts = 2
  MaxFaults = 1
SYMMETRY Symmetry
INVARIANTS
  WaitingHasWork
  BootRecovers
