\* A planning thread (others write nothing it reads); a person and two mowers
\* in two zones or none, with any of the mowers missing at first; two commits
\* and three transitions, so that the emergency can begin, end in recovery and
\* begin again.
SPECIFICATION Spec
CONSTANTS
  People = {p1}
  Machines <- MCMachines
  Zones = {z1, z2}
  Nowhere = Nowhere
  Threads = {t1}
  MaxVersion = 2
  MaxOrg = 4
INVARIANTS AcceptedAnswersTheWorld AcceptedInItsMode TeamIsStaffed
\* A thread plans for one incident, and the bounds stop the others.
CHECK_DEADLOCK FALSE
