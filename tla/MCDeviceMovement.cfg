CONSTANTS
  Start <- MCStart
  Targets <- MCTargets
  Persons = 2
  Spots <- MCSpots
  Clearance = 8
  Hazard <- MCHazard
  MaxCommands = 2
SPECIFICATION Spec
INVARIANT ArrivalIsReal
PROPERTY LegsAreSafe
