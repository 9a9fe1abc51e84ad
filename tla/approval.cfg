SPECIFICATION Spec
CONSTANTS
  Principal = {p1, p2, p3}
  Request = {r1, r2}
  NoRequest = NoRequest
  Quorums = {1, 2}
  RequestTtl = 1
  MaxTime = 1
  MaxCasting = 2
SYMMETRY Symmetry
INVARIANTS
  TypeOK
  ApprovedByOthers
  OneVotePerVoter
PROPERTIES
  DecisionIsFinal
  RejectionPrevails
CHECK_DEADLOCK FALSE
