CONSTANTS
  Caller = {c1, c2, c3}
  failure_threshold = 2
  recovery_timeout = 2
  half_open_calls = 2
  Worker = {w1, w2}
  Event = {e1}
  Integration = {i1, i2}
  max_attempts = 2
  Agent = {a1, a2}
  Lone = {a3}
  Duration = 2
  Interval = 1
  MinSamples = 2
  MaxRuns = 2
SPECIFICATION Spec
INVARIANTS
  ClosedIffHealthy
  ProbesAreRunning
  NothingVanishes
PROPERTIES
  Recovers
  Returns
  EveryCallAnswers
