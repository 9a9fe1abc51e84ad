SPECIFICATION OnePlanWorkSpec
CONSTANTS
  p1 = p1
  p2 = p2
  p3 = p3
  Proc = {p1, p2}
  PlanSize = 1
  Risky = {1}
  MaxRetries = 0
  MaxCrashes = 0
  MaxRows = 2
PROPERTIES
  ApprovalWakesTask
CHECK_DEADLOCK FALSE
