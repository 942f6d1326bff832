\* A deletion is delivered before its checkout.
SPECIFICATION Spec
CONSTANTS
  Matrices = {m1}
  Purchases = {p1}
  Handlers = {h1, h2}
  MaxEvents = 2
  MaxEnts = 1
  MaxTime = 1
  MaxReplays = 0
  MaxFaults = 0
  MAX_ATTEMPTS = 3
  None = None
SYMMETRY Symmetry
INVARIANTS CanceledNeverActive
CHECK_DEADLOCK FALSE
