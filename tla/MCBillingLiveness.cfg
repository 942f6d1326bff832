\* Two purchases, deliveries in turn, a checkout reported twice.
SPECIFICATION FairSpec
CONSTANTS
  Matrices = {m1}
  Purchases = {p1, p2}
  Handlers = {h1}
  MaxEvents = 3
  MaxEnts = 2
  MaxTime = 0
  MaxReplays = 1
  MaxFaults = 1
  MAX_ATTEMPTS = 2
  None = None
PROPERTIES EveryPurchaseOpens
CHECK_DEADLOCK FALSE
