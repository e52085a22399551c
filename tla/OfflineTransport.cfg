CONSTANTS
  e1 = e1
  e2 = e2
  e3 = e3
  sensor = sensor
  Event <- MCEvent
  Key = {sensor}
  KeyOf <- MCKeyOf
  TicksPerSecond = 1
  Size <- MCSize
  Priority = {50, 100}
  MaxEvents = 2
  MaxBytes = 4
  Retention = 1
  SeqBound = 3
  TimeBound = 2
  BytesPerSecond = 1
  BurstBytes = 3
  MaxBatchBytes = 3
  BatchId = {i1, i2}
  BatchEvents = 2
  AckOn = {"accepted", "duplicate"}
SYMMETRY Symmetry
SPECIFICATION Spec
INVARIANTS
  NothingLost
