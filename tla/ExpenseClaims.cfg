CONSTANTS
  e1 = e1
  e2 = e2
  None = None
  Expenses = {e1, e2}
  Claims = {c1, c2}
  Requests = {r1, r2}
  Fund = 4
  Amount <- MCAmount
SPECIFICATION Spec
SYMMETRY MCSymmetry
INVARIANTS
  TypeOK
  ClaimLinesAgree
  ReimbursedLinesWereDebited
  DebitedAloneOnce
  FundAccounted
PROPERTY ClaimDecidedOnce
