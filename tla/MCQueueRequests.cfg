\* One document through three runs, requests one at a time, up to two faults:
\* enough for a surplus job to race with a request.
SPECIFICATION FairSpec
CONSTANTS
  d1 = d1
  q1 = q1
  w1 = w1
  None = None
  Rfps = {d1}
  SweepRfps = {}
  Workers = {w1}
  Requests = {q1}
  MaxRuns = 3
  MaxJobs = 4
  MaxAttempts = 3
  MaxFaults = 2
PROPERTIES
  
  EveryDocumentFinishes
  RecoveredDocumentFinishes
INVARIANTS
  OnlyLatestRunActive
  UnfinishedHasJob
  FailedIsRetryable
