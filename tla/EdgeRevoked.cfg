CONSTANTS
  e1 = e1
  e2 = e2
  Event <- MCEvent
  Size <- MCSize
  MaxEvents = 2
  MaxBytes = 3
  Retention = 1
  BatchSize = 2
  LockWait = 0
  SeqBound = 2
  TimeBound = 2
  Sensor = {s1}
  Tenant = {t1}
  Fingerprint = {f1}
  sensor_id = s1
  tenant_id = t1
  sender_loop = sender_loop
SPECIFICATION Spec

PROPERTY OnlyActiveSensorsEmit
