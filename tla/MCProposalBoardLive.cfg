CONSTANTS
  ProposalIds = {p1, p2}
  AgentRoles <- MCAgentRoles
  NoId = NoId
  MaxWorldVersion = 1
  MaxOrgVersion = 2
  MaxTime = 0
  MaxRecords = 3
SPECIFICATION FairSpec
PROPERTIES
  CallsReturn
  RecordsThenPublishes
