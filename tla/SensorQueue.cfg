CONSTANTS
  e1 = e1
  e2 = e2
  e3 = e3
  e4 = e4
  e5 = e5
  Event <- MCEvent
  Size <- MCSize
  Replayer = {r1, r2}
  MaxEvents = 3
  MaxBytes = 4
  Retention = 1
  BatchSize = 2
  LockWait = 1
  SeqBound = 4
  TimeBound = 2
SYMMETRY Symmetry
SPECIFICATION Spec
INVARIANTS
  CountBounded
PROPERTIES
  NeverDropsUnsent
  DeliversInOrder
