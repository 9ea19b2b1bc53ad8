CONSTANTS
  None = None
  Rounds = {r1, r2}
  Reviewers = {p1, p2}
  Calls = {c1, c2}
  MaxVersion = 2
  MaxFaults = 1
SPECIFICATION Spec
CHECK_DEADLOCK FALSE
SYMMETRY MCSymmetry
INVARIANTS
  ApprovalIsEarned
  DecidedRoundIsClosed
PROPERTY UnanimousOutcomeStands
