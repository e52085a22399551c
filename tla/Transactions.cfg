CONSTANTS
  Subject = {founder, s1, s2}
  Founder = founder
  Request = {r1, r2}
  MaxInvitations = 2
  Client = {r1, r2}
  MaxVersion = 3
  MaxAudit = 5
  Http = {r1, r2}
  Org = {o1}
  MaxSessions = 1
  MaxChanges = 1
SYMMETRY Symmetry
SPECIFICATION Spec
INVARIANTS
  MembersWereInvited
  OneInvitationEach
  AuditExplainsActive
  AdmittedWasLive
PROPERTIES
  AdminsByOwner
  NotOverwrittenOrSkipped
  OneAtATimeIsProfileStore
CHECK_DEADLOCK FALSE
