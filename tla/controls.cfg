CONSTANTS
  Callers = {t1, t2}
  Parts = {"pan", "tilt", "auto", "temp", "wdr"}
  Settings = {0, 1}
SPECIFICATION Spec
INVARIANT TypeOK
PROPERTY OkIsDone
PROPERTY OneMoment
CHECK_DEADLOCK FALSE
