----------------------------- MODULE AgentTeam ------------------------------
(***************************************************************************)
(* The pure part of planning: organization/minimal_org_selector.py,        *)
(* agents/role_profile.py, the admission and the projected view of         *)
(* agents/harness.py, the handlers of agents/emergency_agents.py, and the  *)
(* planners of demo/stub_planners.py.  None of them reads shared state:    *)
(* each sees the snapshot and the organization it is given.                *)
(*                                                                         *)
(* Confidences, summaries and the report's unsafe_machines go nowhere a    *)
(* decision is taken and are left out; there is one operator to notify.    *)
(***************************************************************************)
EXTENDS Organization, Naturals, Sequences

CONSTANTS
  People, Machines, Zones,
  Nowhere    \* the zone of what has none

ASSUME AgentTeamAssumption == Nowhere \notin Zones

Places == Zones \cup {Nowhere}

\* What planning sees of a world: a machine may be missing, a person without
\* a zone is as good as missing.
Worlds == [people : [People -> Places],
           machines : UNION {[present -> Places] : present \in SUBSET Machines}]

Organizations == [version : Nat, mode : Modes]

Actions == [type : {"hold_position", "return_to_base", "continue_mowing", "notify_operator"},
            target : {"mower_1", "mower_2", "operator_1"}]

Action(type, target) == [type |-> type, target |-> target]
Notify == Action("notify_operator", "operator_1")

---------------------------------------------------------------------------
(* MinimalOrganizationSelector.select *)

TeamRoles == {"incident_commander", "safety", "operations", "communication"}

\* Mutant: an incident with constraints also gets the resource role.
SelectedWithResource(constrained) ==
  TeamRoles \cup (IF constrained THEN {"logistics", "resource"} ELSE {})

\* constrained: a route is blocked, the base unavailable or a resource short.
SelectedRoles(constrained) ==
  TeamRoles \cup (IF constrained THEN {"logistics"} ELSE {})

---------------------------------------------------------------------------
(* Role profiles and AgentHarness.handle *)

Emergency == {"EMERGENCY"}

Profiles ==
  [incident_commander |->
     [modes |-> Emergency, sees |-> {"machines", "zones", "weather"},
      accepts |-> {"SAFETY_REPORT", "OPERATIONS_PLAN", "NOTIFICATION_PLAN"}],
   safety |->
     [modes |-> Emergency, sees |-> {"people", "machines", "zones", "routes", "weather"},
      accepts |-> {"TASK_ASSIGNMENT"}],
   operations |->
     [modes |-> Emergency, sees |-> {"machines", "tasks", "routes", "zones"},
      accepts |-> {"TASK_ASSIGNMENT"}],
   communication |->
     [modes |-> Emergency, sees |-> {"people"}, accepts |-> {"TASK_ASSIGNMENT"}]]

\* A harness bound to `bound` refuses the message: one of its ordered checks
\* raises.  The team's harnesses are ACTIVE for their whole life.
HarnessRefuses(role, bound, message, snapshot, organization) ==
  \/ organization.version # bound
  \/ role \notin ActiveRoles[organization.mode]
  \/ organization.mode \notin Profiles[role].modes
  \/ message.to # role
  \/ message.org # organization.version
  \/ message.world # snapshot.version
  \/ message.type \notin Profiles[role].accepts

\* A handler sees the fields of its profile; `None or ()` is empty.
View(role, world) ==
  [people   |-> IF "people" \in Profiles[role].sees THEN world.people ELSE <<>>,
   machines |-> IF "machines" \in Profiles[role].sees THEN world.machines ELSE <<>>]

---------------------------------------------------------------------------
(* The handlers *)

\* Mutant: people without a zone occupy one.
OccupiedByAnybody(view) == {view.people[p] : p \in DOMAIN view.people}

OccupiedZones(view) == {view.people[p] : p \in DOMAIN view.people} \ {Nowhere}

\* safety_handler: the machines that must not move.
RequiredHolds(view) ==
  {m \in DOMAIN view.machines : view.machines[m] \in OccupiedZones(view)}

\* operations_handler: mower_1 holds when it must, mower_2 returns.
OperationsActions(view, holds) ==
  (IF "mower_1" \in holds /\ "mower_1" \in DOMAIN view.machines
   THEN <<Action("hold_position", "mower_1")>> ELSE <<>>)
  \o (IF "mower_2" \in DOMAIN view.machines
      THEN <<Action("return_to_base", "mower_2")>> ELSE <<>>)

\* incident_commander_handler: the plan of operations, then the notifications.
TeamActions(world) ==
  Append(OperationsActions(View("operations", world), RequiredHolds(View("safety", world))),
         Notify)

---------------------------------------------------------------------------
(* EmergencyTeamOrchestrator.run and the stub planners *)

\* The messages the harnesses are given, in order.
Conversation ==
  <<[to |-> "safety", type |-> "TASK_ASSIGNMENT"],
    [to |-> "operations", type |-> "TASK_ASSIGNMENT"],
    [to |-> "communication", type |-> "TASK_ASSIGNMENT"],
    [to |-> "incident_commander", type |-> "NOTIFICATION_PLAN"]>>

Sent(message, snapshot, organization) ==
  [to |-> message.to, type |-> message.type,
   world |-> snapshot.version, org |-> organization.version]

\* The guards at the head of run().
TeamStarts(organization) ==
  /\ organization.mode = "EMERGENCY"
  /\ TeamRoles \subseteq ActiveRoles[organization.mode]

\* One of the four calls of handle() raises.
TeamFails(snapshot, organization) ==
  \E i \in DOMAIN Conversation :
    LET role == Conversation[i].to
    IN  HarnessRefuses(role, organization.version,
                       Sent(Conversation[i], snapshot, organization), snapshot, organization)

Planners == {"team", "emergency_stub", "normal_stub"}

Starts(planner, organization) ==
  CASE planner = "team"           -> TeamStarts(organization)
    [] planner = "emergency_stub" -> /\ organization.mode = "EMERGENCY"
                                     /\ "incident_commander" \in ActiveRoles[organization.mode]
    [] planner = "normal_stub"    -> /\ organization.mode \in {"NORMAL", "WATCH"}
                                     /\ "operations" \in ActiveRoles[organization.mode]

ActionsOf(planner, world) ==
  CASE planner = "team"           -> TeamActions(world)
    [] planner = "emergency_stub" -> <<Action("hold_position", "mower_1"),
                                       Action("return_to_base", "mower_2"), Notify>>
    [] planner = "normal_stub"    -> <<Action("continue_mowing", "mower_1")>>

RoleOf(planner) == IF planner = "normal_stub" THEN "operations" ELSE "incident_commander"

---------------------------------------------------------------------------
(* What the team owes, said without its handlers *)

\* Somebody is in the zone of the machine.
Endangers(world, m) ==
  /\ m \in DOMAIN world.machines
  /\ world.machines[m] # Nowhere
  /\ \E p \in People : world.people[p] = world.machines[m]

\* Does this response hold and return what this world calls for?
Answers(actions, world) ==
  /\ actions[Len(actions)] = Notify
  /\ Endangers(world, "mower_1") <=>
       \E i \in DOMAIN actions : actions[i] = Action("hold_position", "mower_1")
  /\ "mower_2" \in DOMAIN world.machines <=>
       \E i \in DOMAIN actions : actions[i] = Action("return_to_base", "mower_2")
=============================================================================
