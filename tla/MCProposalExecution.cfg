SPECIFICATION FairExecutionSpec
CONSTANTS
  m1 = m1
  drone = drone
  mX = mX
  k1 = k1
  k2 = k2
  kU = kU
  kP = kP
  kR = kR
  kA = kA
  kT = kT
  r1 = r1
  r2 = r2
  w = w
  h = h
  rest = rest
  held = held
  Entities = {m1, drone}
  Contents = {rest, held}
  Keys = {}
  Unknown = mX
  MaxVersion = 4
  Ids = {k1, k2, kU, kP, kR, kA, kT}
  CommandKeys = {k1, k2, kU, kP, kR, kA, kT}
  TargetOf <- MCTargetOf
  EffectOf <- MCEffectOf
  Notices = {kA}
  Adapter = "mock"
  MockStart = rest
  Nothing = Nothing
  MaxWrites = 1
  MaxOrg = 2
  MaxRaises = 0
  Executions = {r1, r2}
  Actions <- FourActions
  Unsupported = {kU}
  Weather = {w}
  People = {h}
  Holds <- MCHolds
  Recall = kR
  Alerts <- MCAlerts
  Track = kT
  Overlaps <- MCOverlaps
INVARIANTS
  ActionsInOrder
  RunsReportWhatIsVerified
  FastPathsReachDevices
  DroneHasOneTask
PROPERTIES
  RunsEnd
