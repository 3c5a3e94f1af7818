CONSTANTS
  Callers = {c1, c2}
  NoCaller = NoCaller
  MaxRecords = 3
SPECIFICATION Spec
INVARIANTS
  LedgerReplaysToOrganization
  AuthorizedBeforeTransition
PROPERTIES
  OrganizationMovesLegally
  RecordsThenPublishes
SYMMETRY MCSymmetry
