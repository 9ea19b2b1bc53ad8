CONSTANTS
  None = None
  Reminders = {r1, r2}
  Contacts = {c1, c2}
  Owners = {o1, o2}
  Notes = {n1}
  Throttle = 2
  MaxClock = 2
  MaxUpdates = 3
  MaxCrashes = 1
SPECIFICATION ChaseSpec
CHECK_DEADLOCK FALSE
SYMMETRY MCSymmetry
INVARIANTS
  ChaseTypeOK
  RecordedReminderWasDelivered
PROPERTY NoFollowUpIsLost
