SPECIFICATION SystemSpec
CONSTANTS
  i1 = i1
  i2 = i2
  m1 = m1
  m2 = m2
  mX = mX
  k1 = k1
  k2 = k2
  kX = kX
  kN = kN
  rest = rest
  held = held
  Entities = {m1}
  Contents = {rest, held}
  Keys = {"e"}
  Unknown = mX
  MaxVersion = 3
  Ids = {i1, i2}
  CommandKeys = {k1, kX, kN}
  TargetOf <- MCTargetOf
  EffectOf <- MCEffectOf
  Notices = {kN}
  Adapter = "ros2"
  MockStart = rest
  Nothing = Nothing
  MaxWrites = 1
  MaxOrg = 2
  MaxRaises = 1
INVARIANTS
  ExecutedAtMostOnce
  ExecutedWasCurrent
  
  CommitIsEvidenced
PROPERTIES
  ResultsAreFinal
SYMMETRY IdSymmetry
