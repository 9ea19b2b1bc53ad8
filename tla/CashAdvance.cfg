CONSTANTS
  Advances = {a1, a2}
  Transactions = {r1, r2}
  Amounts = {1, 2, 3}
SPECIFICATION AdvanceSpec
SYMMETRY MCSymmetry
INVARIANTS
  AdvanceTypeOK
  ReportAgreesWithExpenses
PROPERTY LedgerSpec
CHECK_DEADLOCK FALSE
