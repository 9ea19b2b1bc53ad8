CONSTANTS
  Senders = {s1, s2}
  Members = {m1}
  Approvers = {m1}
  Applicant = ap
  MaxFaults = 3
  None = None
SPECIFICATION Spec
INVARIANTS
  ClaimsAreLostOnlyByLapse
  NoticeIsNotRepeated
  AnnouncedVerdictStands
PROPERTY
  SickLeaveIsAnnounced
CHECK_DEADLOCK FALSE
