\* One purchase, three events delivered concurrently, two faults.
SPECIFICATION Spec
CONSTANTS
  Matrices = {m1}
  Purchases = {p1}
  Handlers = {h1, h2}
  MaxEvents = 3
  MaxEnts = 2
  MaxTime = 2
  MaxReplays = 0
  MaxFaults = 2
  MAX_ATTEMPTS = 2
  None = None
SYMMETRY Symmetry
INVARIANTS TypeOK OneGrantPerPurchase TombstoneHolds NoFreeMonth PaidStaysOpen AckedIsSettled
CHECK_DEADLOCK FALSE
