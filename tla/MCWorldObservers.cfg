CONSTANTS
  Entities <- MCEntities
  Contents <- MCContents
  Keys = {k1, k2}
  Unknown = Unknown
  MaxVersion = 3
  Takers = {t1}
  Bridges = {b1}
  Monitors = {m1, m2}
  Incidents = {"storm"}
  Observed = {"player_1", "nobody"}
  NoThread = NoThread
  NoEvent = NoEvent
  NoSignal = NoSignal
  Evacuating <- MCEvacuating
  Sheltered = "safe"
  MaxSnapshots = 1
SPECIFICATION ObserversSpec
INVARIANTS
  VersionsNameContents
  KeysCommitOnce
  SnapshotIsOneVersion
  CommitsAreReported
  SignalsApplyOnce
