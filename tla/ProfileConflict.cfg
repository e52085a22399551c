CHECK_DEADLOCK FALSE
CONSTANTS
  Client = {p1, p2}
  MaxVersion = 3
  MaxAudit = 5
SPECIFICATION ProfilesSpec
INVARIANT OneActive
