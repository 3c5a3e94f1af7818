--------------------------- MODULE DeviceMovement ---------------------------
(***************************************************************************)
(* One device on the course: moveDeviceSafely and executeRoute of          *)
(* ui/static/app.js, with the arbitration in front of a mowing assignment, *)
(* while people walk.  Commands come one after the other, and with them    *)
(* what finds or clears the hazard: OperatorConsole has their queue.       *)
(***************************************************************************)
EXTENDS RouteSafety

CONSTANTS
  Start,        \* where the device is at first
  Targets,      \* where it is sent
  Persons,      \* number of people on the course
  Spots,        \* where people are seen
  Clearance,    \* minimumClearance: 8 for a mower, 10 for the drone
  Hazard,       \* irrigation_leak_c: center, radius, the targets in its zone
  MaxCommands   \* bound: commands

ASSUME MovementAssumption ==
  /\ Start \in Points /\ Targets \subseteq Points /\ Spots \subseteq Points
  /\ Persons \in Nat /\ Clearance \in Nat \ {0} /\ MaxCommands \in Nat
  /\ Hazard \in [center : Points, radius : Nat, zone : SUBSET Targets]

VARIABLES
  position, status,
  route,      \* waypoints not reached yet
  people,     \* telemetry of each person
  closed,     \* hazard.active
  commands,   \* commands so far
  order,      \* history: the accepted command: is it arbitrated, what did it ask for
  seen        \* history: where people were when the leg being driven began

vars == <<position, status, route, people, closed, commands, order, seen>>

Init ==
  /\ position = Start /\ status = "WORKING" /\ route = <<>>
  /\ people \in [1..Persons -> Spots] /\ seen = people
  /\ closed = FALSE /\ commands = 0
  /\ order = [arbitrated |-> FALSE, target |-> Start]

Driving == status = "MOVING"

\* One person is seen somewhere else.
Walk ==
  /\ \E i \in 1..Persons, spot \in Spots : people' = [people EXCEPT ![i] = spot]
  /\ UNCHANGED <<position, status, route, closed, commands, order, seen>>

\* The leak is found, or cleared; both are commands of the queue.
ChangeHazard ==
  /\ ~Driving
  /\ closed' = ~closed
  /\ UNCHANGED <<position, status, route, people, commands, order, seen>>

\* moveDeviceSafely: a plan is found and its first leg begins.
Accept(arbitrated, target, plan) ==
  /\ status' = "MOVING"
  /\ route' = plan
  /\ order' = [arbitrated |-> arbitrated, target |-> target]
  /\ seen' = people
  /\ UNCHANGED position

\* applyMovementAuthorityHold
Hold ==
  /\ status' = "HOLDING"
  /\ UNCHANGED <<position, route, order, seen>>

\* A command to move; only a mowing assignment is arbitrated, by the route that
\* would be driven, or by where the device is if there is none.
Command(arbitrated, target) ==
  LET plans == Plans(position, target, people, Clearance)
      Held(plan) ==
        /\ arbitrated
        /\ Decide(closed, RouteAffected(<<position>> \o plan, target, Hazard))
             = "HOLD_FOR_INSPECTION"
  IN /\ ~Driving /\ commands < MaxCommands
     /\ commands' = commands + 1
     /\ \/ \E plan \in plans : ~Held(plan) /\ Accept(arbitrated, target, plan)
        \/ \E plan \in plans \cup (IF plans = {} THEN {<<>>} ELSE {}) : Held(plan) /\ Hold
        \/ plans = {} /\ ~Held(<<>>) /\ UNCHANGED <<position, status, route, order, seen>>
     /\ UNCHANGED <<people, closed>>

\* Mutant: the people of the plan are looked at instead of those there now.
MayLeaveAsPlanned(from, to) == LegIsClear(from, to, seen, Clearance)

\* The recheck of moveNext, without its tolerance of a thousandth
MayLeave(from, to) == LegIsClear(from, to, people, Clearance)

\* Mutant: the last leg is not driven.
StatusAfterAllButOne(waypoints) == IF Len(waypoints) <= 2 THEN "ARRIVED" ELSE "MOVING"

\* What the device is when the first of these waypoints is reached and it may
\* leave from there.
StatusAfter(waypoints) == IF Len(waypoints) = 1 THEN "ARRIVED" ELSE "MOVING"

\* The timer of a leg: the device is at the waypoint, which is on the grid to
\* which the code rounds it here; the next leg begins, or is refused, or there
\* is none.
LegReached ==
  /\ Driving
  /\ position' = Head(route)
  /\ IF Len(route) > 1 /\ ~MayLeave(route[1], route[2])
     THEN /\ status' = "HOLDING" /\ route' = <<>>
          /\ UNCHANGED seen
     ELSE /\ status' = StatusAfter(route) /\ route' = Tail(route)
          /\ seen' = people
  /\ UNCHANGED <<people, closed, commands, order>>

Next ==
  \/ Walk
  \/ ChangeHazard
  \/ \E arbitrated \in BOOLEAN, target \in Targets : Command(arbitrated, target)
  \/ LegReached

Spec == Init /\ [][Next]_vars

---------------------------------------------------------------------------
(* Properties *)

\* Reference: eleven points of a leg, in tenths of a unit, at distance at least
\* d (in units) from p.
KeepsAway(from, to, p, d) ==
  \A k \in 0..10 :
    Square(10 * (p.x - from.x) - k * (to.x - from.x))
      + Square(10 * (p.y - from.y) - k * (to.y - from.y)) >= Square(10 * d)

\* No leg is driven closer to a person than the clearance, as people were seen
\* when it began, nor, on an assignment, through the closed zone
\* (ARCHITECTURE.md:610, 612): however people walk between plan and legs.
LegsAreSafe ==
  [][position' # position =>
       /\ \A i \in 1..Persons : KeepsAway(position, position', seen[i], Clearance)
       /\ closed /\ order.arbitrated =>
            KeepsAway(position, position', Hazard.center, Hazard.radius)]_vars

\* A device that reports its arrival is where it was sent, up to one adjustment
\* for each person; no refused leg ends in an arrival (ARCHITECTURE.md:610).
ArrivalIsReal ==
  status = "ARRIVED" =>
    /\ route = <<>>
    /\ DistanceSquared(position, order.target)
         <= Square(Persons * (Clearance + TargetMargin + 1))
=============================================================================
