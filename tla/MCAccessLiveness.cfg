\* Two requests at a time under fairness, one address, nothing expires.
SPECIFICATION FairSpec
CONSTANTS
  r1 = r1
  r2 = r2
  e1 = e1
  p1 = p1
  p2 = p2
  None = None
  Requests = {r1, r2}
  Emails = {e1}
  Passwords = {p1}
  Limits <- SmallLimits
  SessionTTL = 0
  ResetTTL = 0
  MaxSessions = 2
  MaxAccounts = 1
  MaxTokens = 1
  MaxTime = 0
  MaxHits <- SmallHits
PROPERTIES AnsweredUnlessHung
CHECK_DEADLOCK FALSE
