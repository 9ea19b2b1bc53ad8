CONSTANTS
  NMailboxes = 2
  Times = {t1}
  MaxActs = 1
  None = None
SPECIFICATION Spec
INVARIANT NoCopyIsForgotten
CHECK_DEADLOCK FALSE
