CONSTANTS
  Threads = {t1}
  NoThread = NoThread
  RecordIds = {r1, r2}
  NoRecord = NoRecord
  Separated = {r1}
  MayFail = FALSE
  MaxCrashes = 0
SPECIFICATION Spec
INVARIANTS
  AppendsOneLine
CHECK_DEADLOCK FALSE
