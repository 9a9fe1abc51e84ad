SPECIFICATION PlansSpec
CONSTANTS
  p1 = p1
  p2 = p2
  p3 = p3
  Proc = {p1, p2}
  PlanSize = 2
  Risky = {1, 2}
  MaxRetries = 1
  MaxCrashes = 1
  MaxRows = 4
SYMMETRY Symmetry
INVARIANTS
  PlansTypeOK
  PlansAreApproved
  ApprovedOnceInOrder
PROPERTIES
  PlanIsComplete
CHECK_DEADLOCK FALSE
