CONSTANTS
  None = None
  TimeEntries = {t1, t2}
  Expenses = {e1}
  InvoiceIds = {i1, i2}
  Requests = {r1, r2}
  Prices = {4, 6}
  Splits <- MCSplits
  Discounts = {0, 8}
  UnitsPerSatang = 4
  MaxRest = 7
  MaxPayers = 4
  MaxShare = 3
SPECIFICATION Spec
SYMMETRY MCSymmetry
INVARIANTS
  TypeOK
  WorkIsBilledOnce
  BilledWorkIsNotWaived
  PayersOweTheLines
  DivisionIsExactAndFair
PROPERTY BilledWorkIsFrozen
