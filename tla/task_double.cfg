SPECIFICATION OnePlanSpec
CONSTANTS
  p1 = p1
  p2 = p2
  p3 = p3
  Proc = {p1, p2}
  PlanSize = 2
  Risky = {1, 2}
  MaxRetries = 0
  MaxCrashes = 0
  MaxRows = 3
SYMMETRY Symmetry
INVARIANTS
  ApprovedRunsOnce
CHECK_DEADLOCK FALSE
