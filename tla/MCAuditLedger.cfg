CONSTANTS
  Threads = {t1, t2, t3}
  NoThread = NoThread
  RecordIds = {r1, r2, r3, r4}
  NoRecord = NoRecord
  Separated = {}
  MayFail = TRUE
  MaxCrashes = 2
SPECIFICATION Spec
INVARIANTS
  AcknowledgedIsDurable
  ReadsAreComplete
  NoFalseAlarm
SYMMETRY MCSymmetry
CHECK_DEADLOCK FALSE
