SPECIFICATION Spec
CONSTANTS
  Worker = {w1, w2}
  Step = {s1, s2}
  LeaseTtl = 2
  HeartbeatExtend = 1
  MaxLeases = 4
  MaxTime = 3
INVARIANTS
  TypeOK
  ActiveIsLatest
  TokensIncrease
PROPERTIES
  RetiredForGood
CHECK_DEADLOCK FALSE
