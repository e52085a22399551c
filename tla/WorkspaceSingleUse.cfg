CONSTANTS
  Subject = {founder, s1}
  Founder = founder
  Request = {r1, r2}
  MaxInvitations = 2
SPECIFICATION WorkspaceSpec
INVARIANT SingleUse
CHECK_DEADLOCK FALSE
