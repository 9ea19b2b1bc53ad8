CONSTANTS
  None = None
  Rounds = {r1}
  Reviewers = {p1, p2}
  Calls = {c1, c2}
  MaxVersion = 2
  MaxFaults = 0
SPECIFICATION Spec
CHECK_DEADLOCK FALSE
PROPERTY StaleDecisionIsRejected
