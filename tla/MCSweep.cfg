\* Two days and the first minute of a third, two postings, a founder, a fault.
SPECIFICATION FairSpec
CONSTANTS
  n1 = n1
  n2 = n2
  s1 = s1
  s2 = s2
  f1 = f1
  None = None
  Notices = {n1, n2}
  Solicitation <- TwoSols
  Founders = {f1}
  Watched <- OneWatches
  Jobs <- TwoJobs
  At <- CronTimes
  Minutes = 2
  PageLimit = 1
  DeadPages = 1
  MaxMatches = 1
  MaxDay = 2
  MaxTime = 4
  MaxIds = 2
  MaxFaults = 1
INVARIANTS TypeOK OneMatchEach FilesInStep NothingSilent
PROPERTIES SweepEnds
CHECK_DEADLOCK FALSE
