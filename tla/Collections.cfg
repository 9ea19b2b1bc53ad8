CONSTANTS
  None = None
  Invoices = {i1, i2}
  Subtotals = {0, 3}
  Shares <- MCShares
  Sums = {1, 2}
  Keys = {k1, k2}
  MaxPayments = 4
SPECIFICATION PaymentsSpec
SYMMETRY MCSymmetry
INVARIANTS
  PaymentsTypeOK
  StatusFollowsPayments
  KeyNamesOnePayment
  RetryIsAnswered
PROPERTY SentTotalIsFrozen
