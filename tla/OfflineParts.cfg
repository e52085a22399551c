CONSTANTS
  a1 = a1
  a2 = a2
  a3 = a3
  b1 = b1
  ka = ka
  kb = kb
  Event <- MCEvent
  Key <- MCKey
  KeyOf <- MCKeyOf
  Size <- MCSize
  Priority = {50, 100}
  BatchId = {i1, i2, i3}
  MaxEvents = 3
  MaxBytes = 4
  Retention = 1
  BytesPerSecond = 3
  BurstBytes = 4
  MaxBatchBytes = 3
  BatchEvents = 3
  TicksPerSecond = 2
  SeqBound = 3
  TimeBound = 2
SYMMETRY Symmetry
SPECIFICATION PartsSpec
INVARIANTS
  NumberNamesOneRow
  RateRespected
  SelectsARun
  CursorIsHighest
  NoInteriorGap
PROPERTIES
  EvictsLeastImportant
