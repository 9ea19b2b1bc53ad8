CONSTANTS
  None = None
  Unset = Unset
  lead = lead
  owner = owner
  worker = worker
  ext = ext
  Requests = {r1, r2}
  Users = {lead, owner, worker, ext}
  Lead = lead
  Owners = {owner}
  Managers = {}
  Seniors = {lead, owner}
  External = {ext}
  Delegable <- MCDelegable
  Edits <- MCEdits
  MaxHandIns = 2
SPECIFICATION Spec
SYMMETRY MCSymmetry
INVARIANTS
  DatesFollowStatus
  HandInsDecidedOnce
  ReviewedWorkWasAccepted
  RecursOnce
