CONSTANTS
  Thread = {t1}
  RATE_LIMIT = 2
  RATE_WINDOW_SECONDS = 2
  MaxTime = 3
  MaxAdmitted = 3
SPECIFICATION ApiSpec
INVARIANTS
  DetectionAnswered
CHECK_DEADLOCK FALSE
