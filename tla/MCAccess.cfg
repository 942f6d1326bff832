\* Two requests at a time, one address, one expiry.
SPECIFICATION Spec
CONSTANTS
  r1 = r1
  r2 = r2
  e1 = e1
  p1 = p1
  p2 = p2
  None = None
  Requests = {r1, r2}
  Emails = {e1}
  Passwords = {p1}
  Limits <- SmallLimits
  SessionTTL = 0
  ResetTTL = 0
  MaxSessions = 3
  MaxAccounts = 1
  MaxTokens = 1
  MaxTime = 1
  MaxHits <- SmallHits
INVARIANTS TypeOK LockoutBound DeadStayDead Integrity
CHECK_DEADLOCK FALSE
