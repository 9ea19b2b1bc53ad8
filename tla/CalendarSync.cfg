CONSTANTS
  NMailboxes = 1
  Times = {t1, t2}
  MaxActs = 3
  None = None
SPECIFICATION Spec
INVARIANTS
  ClaimedVersionsWereWritten
  OnlyOwnersMovesAreTaken
PROPERTY
  CopyCatchesUp
CHECK_DEADLOCK FALSE
