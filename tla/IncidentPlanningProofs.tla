----------------------- MODULE IncidentPlanningProofs -----------------------
(***************************************************************************)
(* Proofs about IncidentPlanning, for any people, machines, zones and      *)
(* threads and every value of the bounds.                                  *)
(***************************************************************************)
EXTENDS IncidentPlanning, SequenceTheorems, TLAPS

\* What was seen is not ahead of the later world, and is it at equal versions.
WorldFollows(early, late) ==
  /\ early.version <= late.version
  /\ early.version = late.version => early.world = late.world

OrganizationFollows(early, late) ==
  /\ early.version <= late.version
  /\ early.version = late.version => early = late

Planned == {"submit", "submitting", "accepted"}

\* All that a thread has read, p, and what was in force when its submit()
\* began, a, are parts of the past ...
ReadsArePast(p, a) ==
  /\ WorldFollows(p.snapshot, Moment) /\ OrganizationFollows(p.organization, organization)
  /\ WorldFollows(a, Moment) /\ OrganizationFollows(a.organization, organization)

\* ... its plan follows from what it has read ...
PlanFollowsReads(p) ==
  p.step \in Planned =>
    Starts(p.planner, p.organization) /\ p.actions = ActionsOf(p.planner, p.snapshot.world)

\* ... submit() came after all of it ...
SubmittedLater(p, a) ==
  p.step \in {"submitting", "accepted"} =>
    /\ p.read = a.version
    /\ WorldFollows(p.snapshot, a) /\ OrganizationFollows(p.organization, a.organization)

\* ... what was accepted was still in force when submit() began ...
AcceptedInForce(p, a) ==
  p.step = "accepted" =>
    p.snapshot.version = a.version /\ p.organization.version = a.organization.version

\* ... and the team was selected and did not fail.
TeamWasSelected(p) ==
  /\ p.step \in Planned \cup {"snapshot", "organization", "plan"} =>
       TeamRoles \subseteq p.selected /\ p.selected \subseteq TeamRoles \cup {"logistics"}
  /\ p.step # "failed"

Sound(p, a) ==
  /\ ReadsArePast(p, a)
  /\ PlanFollowsReads(p)
  /\ SubmittedLater(p, a)
  /\ AcceptedInForce(p, a)
  /\ TeamWasSelected(p)

IInv == TypeOK /\ \A t \in Threads : Sound(planning[t], asked[t])

---------------------------------------------------------------------------
(* The operators *)

\* The profiles, the conversation and the organization tables fit together.
LEMMA TeamThatStartsSucceeds ==
  ASSUME NEW snapshot, NEW o \in Organizations, TeamStarts(o)
  PROVE  ~TeamFails(snapshot, o)
  <1>1. o.mode = "EMERGENCY" /\ TeamRoles \subseteq ActiveRoles[o.mode]
    BY DEF TeamStarts
  <1>2. ASSUME NEW i \in DOMAIN Conversation
        PROVE  ~HarnessRefuses(Conversation[i].to, o.version, Sent(Conversation[i], snapshot, o),
                               snapshot, o)
    <2>1. i \in 1..4
      BY <1>2 DEF Conversation
    <2>2. Conversation[i].to \in TeamRoles
      BY <2>1 DEF Conversation, TeamRoles
    <2>3. Conversation[i].type \in Profiles[Conversation[i].to].accepts
      BY <2>1 DEF Conversation, Profiles
    <2>4. "EMERGENCY" \in Profiles[Conversation[i].to].modes
      BY <2>1 DEF Conversation, Profiles, Emergency
    <2>5. QED
      BY <1>1, <2>2, <2>3, <2>4 DEF HarnessRefuses, Sent
  <1>3. QED
    BY <1>2 DEF TeamFails

\* Safety requires a hold exactly of the machines somebody is endangered by.
LEMMA HoldsAreTheEndangered ==
  ASSUME NEW w \in Worlds, NEW m
  PROVE  /\ m \in RequiredHolds(View("safety", w)) <=> Endangers(w, m)
         /\ View("operations", w).machines = w.machines
  <1>1. View("safety", w).people = w.people /\ View("safety", w).machines = w.machines
    BY DEF View, Profiles
  <1>2. View("operations", w).machines = w.machines
    BY DEF View, Profiles
  <1>3. DOMAIN w.people = People
    BY DEF Worlds
  <1>4. QED
    BY <1>1, <1>2, <1>3 DEF RequiredHolds, OccupiedZones, Endangers

\* The team's plan answers the world it was computed from.
LEMMA TeamAnswers ==
  ASSUME NEW w \in Worlds
  PROVE  Answers(TeamActions(w), w)
  <1> DEFINE holds == Endangers(w, "mower_1")
             returns == "mower_2" \in DOMAIN w.machines
             hold == Action("hold_position", "mower_1")
             return == Action("return_to_base", "mower_2")
  <1>1. holds <=> "mower_1" \in RequiredHolds(View("safety", w)) /\ "mower_1" \in DOMAIN w.machines
    BY HoldsAreTheEndangered DEF Endangers
  <1>2. TeamActions(w) = Append((IF holds THEN <<hold>> ELSE <<>>)
                                \o (IF returns THEN <<return>> ELSE <<>>), Notify)
    BY <1>1, HoldsAreTheEndangered DEF TeamActions, OperationsActions
  <1>3. hold # return /\ hold # Notify /\ return # Notify
    BY DEF Action, Notify
  <1> DEFINE S == {hold, return, Notify}
             front == IF holds THEN <<hold>> ELSE <<>>
             back == IF returns THEN <<return>> ELSE <<>>
             plan == Append(front \o back, Notify)
  <1>4. hold \in S /\ return \in S /\ Notify \in S
    OBVIOUS
  <1> HIDE DEF hold, return, S, holds, returns
  <1>5. /\ front \in Seq(S) /\ Len(front) = (IF holds THEN 1 ELSE 0)
        /\ back \in Seq(S) /\ Len(back) = (IF returns THEN 1 ELSE 0)
        /\ holds => front[1] = hold
        /\ returns => back[1] = return
    BY <1>4
  <1> HIDE DEF front, back
  <1>6. /\ front \o back \in Seq(S)
        /\ Len(front \o back) = Len(front) + Len(back)
        /\ \A i \in 1..Len(front) + Len(back) :
             (front \o back)[i] = IF i <= Len(front) THEN front[i] ELSE back[i - Len(front)]
    BY <1>5, ConcatProperties
  <1>7. /\ plan \in Seq(S) /\ Len(plan) = Len(front) + Len(back) + 1
        /\ \A i \in 1..Len(front) + Len(back) : plan[i] = (front \o back)[i]
        /\ plan[Len(front) + Len(back) + 1] = Notify
    BY <1>4, <1>5, <1>6, AppendProperties
  <1> HIDE DEF plan
  <1>8. DOMAIN plan = 1..Len(plan)
    BY <1>7
  <1>9. /\ plan[Len(plan)] = Notify
        /\ holds <=> \E i \in DOMAIN plan : plan[i] = hold
        /\ returns <=> \E i \in DOMAIN plan : plan[i] = return
    <2>1. CASE holds /\ returns
      BY <1>3, <1>5, <1>6, <1>7, <1>8, <2>1
    <2>2. CASE holds /\ ~returns
      <3>1. Len(front) = 1 /\ Len(back) = 0
        BY <1>5, <2>2
      <3>2. (front \o back)[1] = front[1] /\ plan[1] = (front \o back)[1]
        BY <1>6, <1>7, <3>1
      <3>3. Len(plan) = 2 /\ plan[1] = hold /\ plan[2] = Notify
        BY <1>5, <1>7, <2>2, <3>1, <3>2
      <3>4. QED
        BY <1>3, <1>8, <2>2, <3>3
    <2>3. CASE ~holds /\ returns
      <3>1. Len(front) = 0 /\ Len(back) = 1
        BY <1>5, <2>3
      <3>2. 1 \in 1..Len(front) + Len(back) /\ ~(1 <= Len(front)) /\ 1 - Len(front) = 1
        BY <3>1
      <3>3. (front \o back)[1] = back[1 - Len(front)] /\ plan[1] = (front \o back)[1]
        BY <1>6, <1>7, <3>2
      <3>4. Len(plan) = 2 /\ plan[1] = return /\ plan[2] = Notify
        BY <1>5, <1>7, <2>3, <3>1, <3>2, <3>3
      <3>5. QED
        BY <1>3, <1>8, <2>3, <3>4
    <2>4. CASE ~holds /\ ~returns
      BY <1>3, <1>5, <1>6, <1>7, <1>8, <2>4
    <2>5. QED
      BY <2>1, <2>2, <2>3, <2>4
  <1>10. TeamActions(w) = plan
    BY <1>2 DEF plan, front, back
  <1>11. QED
    BY <1>9, <1>10 DEF Answers, hold, return, holds, returns

LEMMA ActionsAreTyped ==
  ASSUME NEW w \in Worlds, NEW planner \in Planners
  PROVE  ActionsOf(planner, w) \in Seq(Actions)
  <1> DEFINE hold == Action("hold_position", "mower_1")
             return == Action("return_to_base", "mower_2")
             mow == Action("continue_mowing", "mower_1")
  <1>1. hold \in Actions /\ return \in Actions /\ mow \in Actions /\ Notify \in Actions
    BY DEF Actions, Action, Notify
  <1> HIDE DEF hold, return, mow
  <1>2. TeamActions(w) \in Seq(Actions)
    <2> DEFINE front == IF /\ "mower_1" \in RequiredHolds(View("safety", w))
                           /\ "mower_1" \in DOMAIN View("operations", w).machines
                        THEN <<hold>> ELSE <<>>
               back == IF "mower_2" \in DOMAIN View("operations", w).machines
                       THEN <<return>> ELSE <<>>
    <2>1. front \in Seq(Actions) /\ back \in Seq(Actions)
      BY <1>1
    <2> HIDE DEF front, back
    <2>2. Append(front \o back, Notify) \in Seq(Actions)
      BY <1>1, <2>1
    <2>3. QED
      BY <2>2 DEF TeamActions, OperationsActions, front, back, hold, return
  <1>3. <<hold, return, Notify>> \in Seq(Actions) /\ <<mow>> \in Seq(Actions)
    BY <1>1
  <1>4. QED
    BY <1>2, <1>3 DEF ActionsOf, Planners, hold, return, mow

---------------------------------------------------------------------------
(* The steps *)

LEMMA InitialState == Init => IInv
  <1> SUFFICES ASSUME Init PROVE IInv
    OBVIOUS
  <1>1. world \in Worlds /\ version = 0 /\ organization = [version |-> 1, mode |-> "NORMAL"]
    BY DEF Init
  <1>2. organization \in Organizations /\ version \in 0..MaxVersion
    BY <1>1, IncidentPlanningAssumption DEF Organizations, Modes
  <1>3. Idle.step = "start" /\ Idle.snapshot = [version |-> 0, world |-> world] /\ Idle.organization = organization
    BY DEF Idle
  <1>4. \A t \in Threads : planning[t] = Idle /\ asked[t] = Moment
    BY DEF Init
  <1>5. TypeOK
    <2>1. <<>> \in Seq(Actions)
      OBVIOUS
    <2>2. QED
      BY <1>1, <1>2, <2>1 DEF Init, TypeOK, Incidents, Moments, Idle, Moment, Steps, Planners
  <1>6. \A t \in Threads : ReadsArePast(planning[t], asked[t])
    BY <1>1, <1>2, <1>3, <1>4 DEF ReadsArePast, WorldFollows, OrganizationFollows, Moment, Organizations
  <1>7. \A t \in Threads : /\ PlanFollowsReads(planning[t]) /\ TeamWasSelected(planning[t])
                          /\ SubmittedLater(planning[t], asked[t])
                          /\ AcceptedInForce(planning[t], asked[t])
    BY <1>3, <1>4 DEF PlanFollowsReads, SubmittedLater, AcceptedInForce, TeamWasSelected, Planned
  <1>8. QED
    BY <1>5, <1>6, <1>7 DEF IInv, Sound

\* A thread that moves need only be sound itself.
LEMMA OneThreadMoves ==
  ASSUME IInv, NEW t \in Threads, NEW p \in Incidents, NEW a \in Moments,
         planning' = [planning EXCEPT ![t] = p], asked' = [asked EXCEPT ![t] = a],
         UNCHANGED <<world, version, organization>>, Sound(p, a)
  PROVE  IInv'
  <1>1. planning' \in [Threads -> Incidents] /\ asked' \in [Threads -> Moments]
    BY DEF IInv, TypeOK
  <1>2. TypeOK'
    BY <1>1 DEF IInv, TypeOK
  <1>3. \A u \in Threads : planning'[u] = (IF u = t THEN p ELSE planning[u])
                         /\ asked'[u] = (IF u = t THEN a ELSE asked[u])
    BY DEF IInv, TypeOK
  <1>4. ASSUME NEW u \in Threads PROVE Sound(planning[u], asked[u])'
    <2>1. Sound(planning'[u], asked'[u])
      BY <1>3 DEF IInv
    <2>2. QED
      BY <2>1 DEF Sound, ReadsArePast, PlanFollowsReads, SubmittedLater, AcceptedInForce,
                  TeamWasSelected, Moment
  <1>5. QED
    BY <1>2, <1>4 DEF IInv

LEMMA ThreadStep ==
  ASSUME IInv, NEW t \in Threads, Proceed(t)
  PROVE  IInv'
  <1> DEFINE p == planning[t]
             a == asked[t]
  <1>1. p \in Incidents /\ a \in Moments /\ Moment \in Moments /\ Sound(p, a)
    BY DEF IInv, TypeOK, Moments, Moment
  <1>2. asked = [asked EXCEPT ![t] = a]
    BY DEF IInv, TypeOK
  <1>3. CASE Select(t)
    <2>1. PICK critical \in BOOLEAN, constrained \in BOOLEAN, planner \in Planners :
            planning' = [planning EXCEPT ![t] =
              [p EXCEPT !.planner = planner,
                        !.selected = IF critical THEN SelectedRoles(constrained) ELSE {},
                        !.step = IF critical /\ SelectedRoles(constrained) \subseteq RegisteredRoles
                                 THEN "snapshot" ELSE "raised"]]
      BY <1>3 DEF Select
    <2> DEFINE q == [p EXCEPT !.planner = planner,
                        !.selected = IF critical THEN SelectedRoles(constrained) ELSE {},
                        !.step = IF critical /\ SelectedRoles(constrained) \subseteq RegisteredRoles
                                 THEN "snapshot" ELSE "raised"]
    <2>2. SelectedRoles(constrained) \subseteq RegisteredRoles
      BY DEF SelectedRoles, TeamRoles, RegisteredRoles
    <2>3. q \in Incidents
      BY <1>1, <2>2 DEF Incidents, Steps
    <2>4. TeamWasSelected(q)
      BY <1>1, <2>2 DEF TeamWasSelected, SelectedRoles, Incidents, Planned
    <2>5. Sound(q, a)
      BY <1>1, <2>4 DEF Sound, ReadsArePast, PlanFollowsReads, SubmittedLater, AcceptedInForce,
                        Incidents, Planned
    <2>6. planning' = [planning EXCEPT ![t] = q]
      BY <2>1
    <2>7. asked' = [asked EXCEPT ![t] = a] /\ UNCHANGED <<world, version, organization>>
      BY <1>2, <1>3 DEF Select
    <2> HIDE DEF p, a, q
    <2>8. QED
      BY <1>1, <2>3, <2>5, <2>6, <2>7, OneThreadMoves
  <1>4. CASE TakeSnapshot(t)
    <2> DEFINE q == [p EXCEPT !.step = "organization", !.snapshot = Snapshot]
    <2>1. q \in Incidents
      BY <1>1 DEF Incidents, Steps, Snapshot, IInv, TypeOK
    <2>2. WorldFollows(q.snapshot, Moment)
      BY <1>1 DEF WorldFollows, Snapshot, Moment, Incidents, IInv, TypeOK
    <2>3. Sound(q, a)
      BY <1>1, <1>4, <2>2 DEF TakeSnapshot, Sound, ReadsArePast, PlanFollowsReads, SubmittedLater,
                              AcceptedInForce, TeamWasSelected, Incidents, Planned
    <2>4. QED
      BY <1>1, <1>2, <1>4, <2>1, <2>3, OneThreadMoves DEF TakeSnapshot
  <1>5. CASE ReadOrganization(t)
    <2> DEFINE q == [p EXCEPT !.step = "plan", !.organization = organization]
    <2>1. q \in Incidents
      BY <1>1 DEF Incidents, Steps, IInv, TypeOK
    <2>2. OrganizationFollows(q.organization, organization)
      BY <1>1 DEF OrganizationFollows, Incidents, Organizations, IInv, TypeOK
    <2>3. Sound(q, a)
      BY <1>1, <1>5, <2>2 DEF ReadOrganization, Sound, ReadsArePast, PlanFollowsReads,
                              SubmittedLater, AcceptedInForce, TeamWasSelected, Incidents, Planned
    <2>4. QED
      BY <1>1, <1>2, <1>5, <2>1, <2>3, OneThreadMoves DEF ReadOrganization
  <1>6. CASE Plan(t)
    <2> DEFINE fails == p.planner = "team" /\ TeamFails(p.snapshot, p.organization)
               q == [p EXCEPT
                 !.actions = ActionsOf(p.planner, p.snapshot.world),
                 !.step = IF ~Starts(p.planner, p.organization) THEN "raised"
                          ELSE IF fails THEN "failed" ELSE "submit"]
    <2>1. p.snapshot.world \in Worlds /\ p.planner \in Planners /\ p.organization \in Organizations
      BY <1>1 DEF Incidents
    <2>2. Starts(p.planner, p.organization) => ~fails
      BY <2>1, TeamThatStartsSucceeds DEF Starts
    <2>3. ActionsOf(p.planner, p.snapshot.world) \in Seq(Actions)
      BY <2>1, ActionsAreTyped
    <2>4. q \in Incidents
      BY <1>1, <2>3 DEF Incidents, Steps
    <2>5. q.step \in {"raised", "submit"} /\ (q.step = "submit" => Starts(p.planner, p.organization))
      BY <1>1, <2>2 DEF Incidents
    <2>6. Sound(q, a)
      BY <1>1, <1>6, <2>5 DEF Plan, Sound, ReadsArePast, PlanFollowsReads, SubmittedLater,
                              AcceptedInForce, TeamWasSelected, Incidents, Planned
    <2>7. QED
      BY <1>1, <1>2, <1>6, <2>4, <2>6, OneThreadMoves DEF Plan
  <1>7. CASE BeginSubmit(t)
    <2> DEFINE q == [p EXCEPT !.step = "submitting", !.read = version]
    <2>1. q \in Incidents
      BY <1>1 DEF Incidents, Steps, IInv, TypeOK
    <2>2. WorldFollows(Moment, Moment) /\ OrganizationFollows(Moment.organization, organization)
      BY DEF WorldFollows, OrganizationFollows, Moment, Organizations, IInv, TypeOK
    <2>3. Sound(q, Moment)
      BY <1>1, <1>7, <2>2 DEF BeginSubmit, Sound, ReadsArePast, PlanFollowsReads, SubmittedLater,
                              AcceptedInForce, TeamWasSelected, Incidents, Planned, Moment
    <2>4. QED
      BY <1>1, <1>7, <2>1, <2>3, OneThreadMoves DEF BeginSubmit
  <1>8. CASE Submit(t)
    <2> DEFINE q == [p EXCEPT !.step = IF Admits(p) THEN "accepted" ELSE "rejected"]
    <2>1. q \in Incidents
      BY <1>1 DEF Incidents, Steps
    <2>2. Admits(p) => p.snapshot.version = a.version /\ p.organization.version = a.organization.version
      BY <1>1, <1>8 DEF Submit, Admits, Sound, ReadsArePast, SubmittedLater, OrganizationFollows,
                        Incidents, Moments, Organizations, IInv, TypeOK
    <2>3. Sound(q, a)
      BY <1>1, <1>8, <2>2 DEF Submit, Sound, ReadsArePast, PlanFollowsReads, SubmittedLater,
                              AcceptedInForce, TeamWasSelected, Incidents, Planned
    <2>4. QED
      BY <1>1, <1>2, <1>8, <2>1, <2>3, OneThreadMoves DEF Submit
  <1>9. QED
    BY <1>3, <1>4, <1>5, <1>6, <1>7, <1>8 DEF Proceed

\* A version that moves on leaves all that was seen in the past.
LEMMA OthersStep ==
  ASSUME IInv, OthersWrite \/ OthersTransition
  PROVE  IInv'
  <1>1. UNCHANGED <<planning, asked>>
    BY DEF OthersWrite, OthersTransition
  <1>2. TypeOK'
    <2>1. CASE OthersTransition
      BY <2>1 DEF OthersTransition, IInv, TypeOK, Organizations
    <2>2. CASE OthersWrite
      <3>1. world' \in Worlds
        <4>1. ASSUME NEW q \in People, NEW z \in Places, world' = [world EXCEPT !.people[q] = z]
              PROVE  world' \in Worlds
          BY <4>1 DEF Worlds, IInv, TypeOK
        <4>2. ASSUME NEW m \in Machines, NEW z \in Places,
                     world' = [world EXCEPT !.machines =
                       [n \in DOMAIN @ \cup {m} |-> IF n = m THEN z ELSE @[n]]]
              PROVE  world' \in Worlds
          <5>1. PICK present \in SUBSET Machines : world.machines \in [present -> Places]
            BY DEF Worlds, IInv, TypeOK
          <5>2. world'.machines \in [present \cup {m} -> Places]
            BY <4>2, <5>1 DEF Worlds, IInv, TypeOK
          <5>3. QED
            BY <4>2, <5>2 DEF Worlds, IInv, TypeOK
        <4>3. QED
          BY <2>2, <4>1, <4>2 DEF OthersWrite
      <3>2. version' \in 0..MaxVersion
        BY <2>2, IncidentPlanningAssumption DEF OthersWrite, IInv, TypeOK
      <3>3. QED
        BY <1>1, <2>2, <3>1, <3>2 DEF OthersWrite, IInv, TypeOK
    <2>3. QED
      BY <2>1, <2>2
  <1>3. ASSUME NEW t \in Threads PROVE Sound(planning[t], asked[t])'
    <2>1. planning[t] \in Incidents /\ asked[t] \in Moments /\ Sound(planning[t], asked[t])
      BY DEF IInv, TypeOK
    <2>2. ASSUME OthersWrite PROVE ReadsArePast(planning[t], asked[t])'
      <3>1. /\ version \in Int /\ version' = version + 1 /\ organization' = organization
            /\ planning[t].snapshot.version \in Int /\ asked[t].version \in Int
        BY <2>1, <2>2, IncidentPlanningAssumption DEF OthersWrite, Incidents, Moments, IInv, TypeOK
      <3>2. planning[t].snapshot.version <= version /\ asked[t].version <= version
        BY <2>1 DEF Sound, ReadsArePast, WorldFollows, Moment
      <3>3. planning[t].snapshot.version < version' /\ asked[t].version < version'
        BY <3>1, <3>2
      <3>4. WorldFollows(planning[t].snapshot, Moment)' /\ WorldFollows(asked[t], Moment)'
        BY <1>1, <3>1, <3>3 DEF WorldFollows, Moment
      <3>5. QED
        BY <1>1, <2>1, <3>1, <3>4 DEF Sound, ReadsArePast, OrganizationFollows
    <2>3. ASSUME OthersTransition PROVE ReadsArePast(planning[t], asked[t])'
      <3>1. /\ organization.version \in Int /\ organization'.version = organization.version + 1
            /\ version' = version /\ world' = world
            /\ planning[t].organization.version \in Int /\ asked[t].organization.version \in Int
        BY <2>1, <2>3 DEF OthersTransition, Incidents, Moments, Organizations, IInv, TypeOK
      <3>2. /\ planning[t].organization.version <= organization.version
            /\ asked[t].organization.version <= organization.version
        BY <2>1 DEF Sound, ReadsArePast, OrganizationFollows
      <3>3. /\ planning[t].organization.version < organization'.version
            /\ asked[t].organization.version < organization'.version
        BY <3>1, <3>2
      <3>4. /\ OrganizationFollows(planning[t].organization, organization)'
            /\ OrganizationFollows(asked[t].organization, organization)'
        BY <1>1, <3>1, <3>3 DEF OrganizationFollows
      <3>5. QED
        BY <1>1, <2>1, <3>1, <3>4 DEF Sound, ReadsArePast, WorldFollows, Moment
    <2>4. ReadsArePast(planning[t], asked[t])'
      BY <2>2, <2>3
    <2>5. QED
      BY <1>1, <2>1, <2>4 DEF Sound, PlanFollowsReads, SubmittedLater, AcceptedInForce, TeamWasSelected
  <1>4. QED
    BY <1>2, <1>3 DEF IInv

LEMMA EveryStep == IInv /\ [Next]_vars => IInv'
  <1> SUFFICES ASSUME IInv, [Next]_vars PROVE IInv'
    OBVIOUS
  <1>1. CASE UNCHANGED vars
    BY <1>1 DEF vars, IInv, TypeOK, Sound, ReadsArePast, PlanFollowsReads, SubmittedLater,
                AcceptedInForce, TeamWasSelected, Moment
  <1>2. QED
    BY <1>1, ThreadStep, OthersStep DEF Next

---------------------------------------------------------------------------
(* The theorems *)

\* Every reachable state is well typed.
THEOREM TypeCorrect == Spec => []TypeOK
  <1>1. IInv => TypeOK
    BY DEF IInv
  <1>2. QED
    BY <1>1, InitialState, EveryStep, PTL DEF Spec

\* The plan the board accepts from the team holds and returns what the world
\* called for when submit() began, whatever was committed while it planned.
THEOREM AcceptedPlansAnswer == Spec => []AcceptedAnswersTheWorld
  <1>1. IInv => AcceptedAnswersTheWorld
    <2> SUFFICES ASSUME IInv, NEW t \in Threads, planning[t].step = "accepted",
                        planning[t].planner = "team"
                 PROVE  Answers(planning[t].actions, asked[t].world)
      BY DEF AcceptedAnswersTheWorld
    <2>1. Sound(planning[t], asked[t]) /\ planning[t] \in Incidents
      BY DEF IInv, TypeOK
    <2>2. planning[t].snapshot.world = asked[t].world
      BY <2>1 DEF Sound, SubmittedLater, AcceptedInForce, WorldFollows
    <2>3. planning[t].actions = TeamActions(planning[t].snapshot.world)
      BY <2>1 DEF Sound, PlanFollowsReads, Planned, ActionsOf
    <2>4. Answers(TeamActions(planning[t].snapshot.world), planning[t].snapshot.world)
      BY <2>1, TeamAnswers DEF Incidents
    <2>5. QED
      BY <2>2, <2>3, <2>4
  <1>2. QED
    BY <1>1, InitialState, EveryStep, PTL DEF Spec

\* No plan is accepted outside the modes of its planner.
THEOREM PlansStayInTheirMode == Spec => []AcceptedInItsMode
  <1>1. IInv => AcceptedInItsMode
    BY DEF IInv, Sound, PlanFollowsReads, SubmittedLater, AcceptedInForce, OrganizationFollows,
           Planned, AcceptedInItsMode
  <1>2. QED
    BY <1>1, InitialState, EveryStep, PTL DEF Spec

\* The selector, the profiles, the conversation and the mode manager's tables
\* agree on who answers an emergency.
THEOREM TablesAgree == Spec => []TeamIsStaffed
  <1>1. IInv => TeamIsStaffed
    <2> SUFFICES ASSUME IInv, NEW t \in Threads
                 PROVE  /\ planning[t].step # "failed"
                        /\ planning[t].planner = "team" /\ planning[t].step \in Planned =>
                             /\ TeamRoles \subseteq planning[t].selected
                             /\ planning[t].selected \subseteq ActiveRoles[planning[t].organization.mode]
      BY DEF TeamIsStaffed, Planned
    <2>1. Sound(planning[t], asked[t])
      BY DEF IInv
    <2>2. TeamRoles \cup {"logistics"} \subseteq ActiveRoles["EMERGENCY"]
      BY DEF TeamRoles, ActiveRoles
    <2>3. planning[t].planner = "team" /\ planning[t].step \in Planned =>
            planning[t].organization.mode = "EMERGENCY"
      BY <2>1 DEF Sound, PlanFollowsReads, Starts, TeamStarts
    <2>4. QED
      BY <2>1, <2>2, <2>3 DEF Sound, TeamWasSelected
  <1>2. QED
    BY <1>1, InitialState, EveryStep, PTL DEF Spec
=============================================================================
