CONSTANTS
  Dates <- MCDates
  Due <- MCDue
  Lawyers = {u1, u2}
  Runs = {r1}
  MaxWrites = 4
  None = None
SPECIFICATION Spec
SYMMETRY MCSymmetry
INVARIANTS
  AcceptedDateIsTheCurrentOne
  DeadlinesFollowTheHearing
PROPERTY ReviewedDatesOnly
CHECK_DEADLOCK FALSE
