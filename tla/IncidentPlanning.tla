-------------------------- MODULE IncidentPlanning --------------------------
(***************************************************************************)
(* Planning while the world and the organization move on: a thread selects *)
(* the roles, takes a snapshot, reads the organization, plans with         *)
(* orchestration/emergency_team.py or a stub and submits the proposal, in  *)
(* the order of demo/thunderstorm_demo.py.  Nothing but the board compares *)
(* what it planned for with what is in force.                              *)
(*                                                                         *)
(* A snapshot is one step (WorldObservers!SnapshotIsOneVersion); submit()  *)
(* is its two reads (ProposalBoard has its clock, ids and audit).          *)
(***************************************************************************)
EXTENDS AgentTeam

CONSTANTS
  Threads,     \* threads that plan, each for one incident
  MaxVersion,  \* bound on commits
  MaxOrg       \* bound on transitions

ASSUME IncidentPlanningAssumption ==
  MaxVersion \in Nat /\ MaxOrg \in Nat \ {0}

VARIABLES
  world,         \* content of the kernel
  version,       \* its version
  organization,  \* of the mode manager
  planning,      \* thread -> its incident
  asked          \* history: thread -> what was in force when submit() began

vars == <<world, version, organization, planning, asked>>

Steps == {"start", "snapshot", "organization", "plan", "submit", "submitting",
          "accepted", "rejected", "raised", "failed"}

Moment == [world |-> world, version |-> version, organization |-> organization]

Idle == [step |-> "start", planner |-> "team", selected |-> {},
         snapshot |-> [version |-> 0, world |-> world],
         organization |-> organization, actions |-> <<>>, read |-> 0]

---------------------------------------------------------------------------

\* An incident arrives; the selector knows critical thunderstorms only, and
\* the organization registers every role it may select.
Select(t) ==
  /\ planning[t].step = "start"
  /\ \E critical \in BOOLEAN, constrained \in BOOLEAN, planner \in Planners :
       planning' = [planning EXCEPT ![t] =
         [@ EXCEPT !.planner = planner,
                   !.selected = IF critical THEN SelectedRoles(constrained) ELSE {},
                   !.step = IF critical /\ SelectedRoles(constrained) \subseteq RegisteredRoles
                            THEN "snapshot" ELSE "raised"]]
  /\ UNCHANGED <<world, version, organization, asked>>

Snapshot == [version |-> version, world |-> world]

TakeSnapshot(t) ==
  /\ planning[t].step = "snapshot"
  /\ planning' = [planning EXCEPT ![t] = [@ EXCEPT !.step = "organization", !.snapshot = Snapshot]]
  /\ UNCHANGED <<world, version, organization, asked>>

ReadOrganization(t) ==
  /\ planning[t].step = "organization"
  /\ planning' = [planning EXCEPT ![t] = [@ EXCEPT !.step = "plan", !.organization = organization]]
  /\ UNCHANGED <<world, version, organization, asked>>

\* run() or create_proposal(): a function of the snapshot and the organization.
Plan(t) ==
  /\ planning[t].step = "plan"
  /\ LET p == planning[t]
     IN  planning' = [planning EXCEPT ![t] = [@ EXCEPT
           !.actions = ActionsOf(p.planner, p.snapshot.world),
           !.step = IF ~Starts(p.planner, p.organization) THEN "raised"
                    ELSE IF p.planner = "team" /\ TeamFails(p.snapshot, p.organization)
                         THEN "failed" ELSE "submit"]]
  /\ UNCHANGED <<world, version, organization, asked>>

\* submit() reads the world version ...
BeginSubmit(t) ==
  /\ planning[t].step = "submit"
  /\ planning' = [planning EXCEPT ![t] = [@ EXCEPT !.step = "submitting", !.read = version]]
  /\ asked' = [asked EXCEPT ![t] = Moment]
  /\ UNCHANGED <<world, version, organization>>

\* Mutant: a proposal of an active role passes under any organization.
AdmitsAnyOrganization(p) ==
  /\ p.snapshot.version = p.read
  /\ RoleOf(p.planner) \in ActiveRoles[organization.mode]

Admits(p) ==
  /\ p.snapshot.version = p.read
  /\ p.organization.version = organization.version
  /\ RoleOf(p.planner) \in ActiveRoles[organization.mode]

\* ... then the organization, and decides.
Submit(t) ==
  /\ planning[t].step = "submitting"
  /\ planning' = [planning EXCEPT ![t] =
       [@ EXCEPT !.step = IF Admits(planning[t]) THEN "accepted" ELSE "rejected"]]
  /\ UNCHANGED <<world, version, organization, asked>>

\* Telemetry moves a person, or moves or adds a machine.
OthersWrite ==
  /\ version < MaxVersion
  /\ \/ \E p \in People, z \in Places :
          world' = [world EXCEPT !.people[p] = z]
     \/ \E m \in Machines, z \in Places :
          world' = [world EXCEPT !.machines =
                      [n \in DOMAIN @ \cup {m} |-> IF n = m THEN z ELSE @[n]]]
  /\ world' # world
  /\ version' = version + 1
  /\ UNCHANGED <<organization, planning, asked>>

OthersTransition ==
  /\ organization.version < MaxOrg
  /\ \E mode \in Modes :
       /\ <<organization.mode, mode>> \in LegalTransitions
       /\ organization' = [version |-> organization.version + 1, mode |-> mode]
  /\ UNCHANGED <<world, version, planning, asked>>

Init ==
  /\ world \in Worlds /\ version = 0
  /\ organization = [version |-> 1, mode |-> "NORMAL"]
  /\ planning = [t \in Threads |-> Idle]
  /\ asked = [t \in Threads |-> Moment]

Proceed(t) ==
  Select(t) \/ TakeSnapshot(t) \/ ReadOrganization(t) \/ Plan(t) \/ BeginSubmit(t) \/ Submit(t)

Next == (\E t \in Threads : Proceed(t)) \/ OthersWrite \/ OthersTransition

Spec == Init /\ [][Next]_vars

---------------------------------------------------------------------------
(* Properties *)

Incidents ==
  [step : Steps, planner : Planners, selected : SUBSET RegisteredRoles,
   snapshot : [version : 0..MaxVersion, world : Worlds],
   organization : Organizations, actions : Seq(Actions), read : 0..MaxVersion]

Moments == [world : Worlds, version : 0..MaxVersion, organization : Organizations]

\* The type invariant.
TypeOK ==
  /\ world \in Worlds /\ version \in 0..MaxVersion
  /\ organization \in Organizations
  /\ planning \in [Threads -> Incidents]
  /\ asked \in [Threads -> Moments]

\* A team's plan is accepted only when the world in force as it was submitted
\* is one it answers: whoever was endangered then is not passed over because
\* the snapshot, the plan and the admission are minutes apart.
AcceptedAnswersTheWorld ==
  \A t \in Threads :
    planning[t].step = "accepted" /\ planning[t].planner = "team" =>
      Answers(planning[t].actions, asked[t].world)

\* A plan is accepted only in a mode its planner plans for: no plan of normal
\* operations after the emergency began, and none of the emergency after it.
AcceptedInItsMode ==
  \A t \in Threads :
    planning[t].step = "accepted" => Starts(planning[t].planner, asked[t].organization)

\* The tables agree: the team that starts is not refused by one of its own
\* harnesses, its roles were all selected, and what was selected before the
\* emergency is active in it.
TeamIsStaffed ==
  \A t \in Threads :
    /\ planning[t].step # "failed"
    /\ planning[t].planner = "team" /\ planning[t].step \in {"submit", "submitting", "accepted"} =>
         /\ TeamRoles \subseteq planning[t].selected
         /\ planning[t].selected \subseteq ActiveRoles[planning[t].organization.mode]

\* "holding exposed equipment, returning safe assets": a machine that safety
\* requires to hold is not moved by the plan.
RequiredHoldsStay ==
  \A t \in Threads :
    planning[t].step = "accepted" /\ planning[t].planner = "team" =>
      \A i \in DOMAIN planning[t].actions :
        planning[t].actions[i].type = "return_to_base" =>
          planning[t].actions[i].target
            \notin RequiredHolds(View("safety", planning[t].snapshot.world))
=============================================================================
