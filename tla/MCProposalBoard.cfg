CONSTANTS
  ProposalIds = {p1, p2}
  AgentRoles <- MCAgentRoles
  NoId = NoId
  MaxWorldVersion = 1
  MaxOrgVersion = 2
  MaxTime = 1
  MaxRecords = 3
SPECIFICATION Spec
INVARIANTS
  AcceptedWasCurrent
  TerminalStaysUnusable
  PublishedIsAudited
  RejectionHistoryMatchesLedger
  SweepLeavesNoStale
SYMMETRY MCSymmetry
