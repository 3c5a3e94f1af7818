CONSTANTS
  OperatorTexts <- MCTexts
  MaxResets = 1
  MaxWaiting = 1
SPECIFICATION FairSpec
INVARIANTS
  QueueWaitsOnLiveWork
  OneTimeline
  EmergencyIsApproved
PROPERTIES
  StaleWorkChangesNothing
  ClosedZoneIsNotEntered
  WorkEnds
