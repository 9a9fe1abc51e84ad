SPECIFICATION Spec
CONSTANTS
  NoStep = NoStep
  Operator = Operator
  Step = {s1, s2}
INVARIANTS
  DurableIntent
CHECK_DEADLOCK FALSE
