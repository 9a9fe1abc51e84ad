SPECIFICATION FairSpec
CONSTANTS
  NoStep = NoStep
  Operator = Operator
  Step = {s1, s2}
INVARIANTS
  TypeOK
  CommittedRecordIsWhole
  NoBlindRepeat
  ResultMatchesRecord
PROPERTIES
  ImplementsLedger
  EveryStepEnds
CHECK_DEADLOCK FALSE
