-------------------------- MODULE OperatorConsole ---------------------------
(***************************************************************************)
(* The operator page, ui/static/app.js: a single-threaded program whose    *)
(* events (messages, buttons, replies, device timers, intervals) each run  *)
(* to their end, and whose chat commands wait for one another on a chain   *)
(* of promises.  One step here is one event with the promise reactions     *)
(* that follow it at once.                                                 *)
(*                                                                         *)
(* Where a device is on the map, and with it the people, is RouteSafety's  *)
(* and DeviceMovement's; here a route may be unsafe, affected by the       *)
(* hazard or refused before a later leg, whichever.  What the page only    *)
(* shows (messages, evidence, routes, versions, typing) is left out: no    *)
(* guard reads it.  A text is chosen when its reply comes: nothing looks   *)
(* at it before.                                                           *)
(***************************************************************************)
EXTENDS OperatorChat, FiniteSetsExt

CONSTANTS
  OperatorTexts,  \* what the operator writes
  MaxResets,      \* bound: presses of the reset button
  MaxWaiting      \* bound: commands waiting behind the one at work

ASSUME ConsoleAssumption ==
  /\ OperatorTexts \subseteq Texts
  /\ MaxResets \in Nat
  /\ MaxWaiting \in Nat

VARIABLES
  page,        \* runtime: the page's state, with the browser's live timers
  generation,  \* runtime.generation
  chains,      \* generation -> the commands chained on its commandQueue
  consent      \* history: the approval in force came from a button or a text that says so

vars == <<page, generation, chains, consent>>

---------------------------------------------------------------------------
(* The scenario (scenario.js) *)

Daily == 0
Inspection == 1
DailyProposal == 2
StormEvent == 3
Risk == 4
Recommend == 5
Approval == 6
Reconfigure == 7      \* 8, 9, 10: location sweep, collaboration, proposal
Intervention == 11
PositionRecheck == 12
ShelterVerified == 13

Steps == Daily .. ShelterVerified

ModeOf(step) == IF step >= Reconfigure THEN "EMERGENCY" ELSE "NORMAL"

Statuses == {"MOWING", "PATROL", "INSPECTING", "HOLDING", "RETURNING", "TRACKING PERSON",
             "PARKED", "OVERWATCH", "TRANSITING"}
Places == NamedZones \cup {"ZONE C", "SERVICE ROAD", "AIR CORRIDOR", "MAINTENANCE", "CLUBHOUSE"}

DeviceStates == [status : Statuses, zone : Places]
At(status, zone) == [status |-> status, zone |-> zone]

Mowers == {"mower_1", "mower_2"}
Drone == "drone_1"
Devices == Mowers \cup {Drone}

InitialDevices ==
  [d \in Devices |-> CASE d = "mower_1" -> At("MOWING", "B")
                      [] d = "mower_2" -> At("MOWING", "D")
                      [] d = Drone -> At("PATROL", "ZONE C")]

HazardZone == "C"

\* statePatch of a step
Patched(devices, step) ==
  CASE step = Inspection -> [devices EXCEPT ![Drone].status = "INSPECTING"]
    [] step = DailyProposal -> [devices EXCEPT ![Drone].status = "PATROL"]
    [] step = Intervention ->
         [devices EXCEPT !["mower_1"].status = "HOLDING",
                         !["mower_2"] = At("RETURNING", "SERVICE ROAD"),
                         ![Drone].status = "TRACKING PERSON"]
    [] step = PositionRecheck ->
         [devices EXCEPT !["mower_2"] = At("RETURNING", "SERVICE ROAD"),
                         ![Drone] = At("TRACKING PERSON", "B")]
    [] step = ShelterVerified ->
         [devices EXCEPT !["mower_2"] = At("PARKED", "MAINTENANCE"),
                         ![Drone] = At("OVERWATCH", "CLUBHOUSE")]
    [] OTHER -> devices

\* moveToStep and advanceStep, with synchronizeHazards
Enter(p, step) ==
  [p EXCEPT !.cursor = step, !.mode = ModeOf(step), !.devices = Patched(@, step),
            !.hazard = IF step \in {Inspection, DailyProposal} THEN "active" ELSE @]

---------------------------------------------------------------------------
(* Timers.  p.timer is the handle runtime.timer (0 when null) to one of    *)
(* the live p.intervals; p.deviceTimers are the generations whose route    *)
(* has a live setTimeout.                                                  *)

NoTimer == 0

ClearTimer(p) == [p EXCEPT !.intervals = {i \in @ : i.id # p.timer}]

FreshId(p) == 1 + Max({i.id : i \in p.intervals} \cup {NoTimer})

SetTimer(p, kind) ==
  [p EXCEPT !.timer = FreshId(p),
            !.intervals = @ \cup {[id |-> FreshId(p), kind |-> kind, next |-> 0]}]

RunPreAuthorizationAssessment(p) == SetTimer(ClearTimer(p), "assess")

\* Mutant: the running assessment is left alone.
RunRemainingStepsBeside(p) == SetTimer(Enter(p, p.cursor + 1), "remaining")

RunRemainingSteps(p) == SetTimer(Enter(ClearTimer(p), p.cursor + 1), "remaining")

---------------------------------------------------------------------------
(* Approval and deferral *)

AwaitingApproval(p) == p.cursor = Approval /\ ~p.authorized /\ ~p.deferred

ApproveEmergency(p) ==
  IF p.authorized \/ p.cursor # Approval THEN p
  ELSE RunRemainingSteps([p EXCEPT !.authorized = TRUE, !.deferred = FALSE])

DeferEmergency(p) == IF AwaitingApproval(p) THEN [p EXCEPT !.deferred = TRUE] ELSE p

\* By chat: the steps up to the approval are made up for first.
AuthorizeByChat(p) ==
  IF p.cursor < StormEvent THEN p
  ELSE ApproveEmergency(IF p.cursor < Approval THEN Enter(p, Approval) ELSE p)

---------------------------------------------------------------------------
(* Commands.  Each yields the possible outcomes: the page, and what the    *)
(* command queue waits for next.                                           *)

Finished == [kind |-> "finished"]
Thrown == [kind |-> "thrown"]
Route(device, legs, final) == [kind |-> "route", device |-> device, legs |-> legs, final |-> final]

Done(p) == [page |-> p, then |-> Finished]

\* moveDeviceSafely: no safe route, or a route of one or two legs.
Move(p, device, moving, final) ==
  {Done(p)} \cup
  {[page |-> [p EXCEPT !.devices[device] = moving], then |-> Route(device, legs, final)] :
     legs \in {1, 2}}

ReturnMachineToBase(p, text) ==
  IF text.machine = Unnamed \/ p.devices[text.machine] = At("PARKED", "MAINTENANCE")
  THEN {Done(p)}
  ELSE Move(p, text.machine, At("RETURNING", "SERVICE ROAD"), At("PARKED", "MAINTENANCE"))

\* Mutant: only the way is looked at, not where it ends.
RouteAffectedOnTheWay(p, zone) == IF p.hazard # "active" THEN {FALSE} ELSE BOOLEAN

\* evaluateMowerMovementAuthority: a route elsewhere may cross the hazard too.
RouteAffected(p, zone) ==
  IF p.hazard # "active" THEN {FALSE} ELSE IF zone = HazardZone THEN {TRUE} ELSE BOOLEAN

AssignMowingZone(p, text) ==
  IF \/ p.mode # "NORMAL" \/ p.incidentActive
     \/ text.machine = Unnamed \/ text.zone = Unnamed
     \/ p.devices[text.machine] = At("MOWING", text.zone)
  THEN {Done(p)}
  ELSE IF text.zone \notin CourseZones
  THEN {[page |-> p, then |-> Thrown]}  \* const [x, y] = undefined
  ELSE UNION {IF affected
              THEN {Done([p EXCEPT !.devices[text.machine].status = "HOLDING"])}
              ELSE Move(p, text.machine, At("TRANSITING", "SERVICE ROAD"), At("MOWING", text.zone)) :
                affected \in RouteAffected(p, text.zone)}

\* A zone without coordinates is flown to as the middle of the course.
RedirectInspection(p, text) ==
  IF \/ p.cursor >= StormEvent \/ text.zone = Unnamed
     \/ p.devices[Drone] = At("INSPECTING", text.zone)
  THEN {Done(p)}
  ELSE Move(p, Drone, At("TRANSITING", "AIR CORRIDOR"), At("INSPECTING", text.zone))

ClearMaintenanceHazard(p) ==
  IF p.hazard # "active" THEN p
  ELSE [p EXCEPT !.hazard = "cleared",
                 !.devices = [d \in Devices |->
                    IF d \in Mowers /\ @[d].status = "HOLDING" /\ @[d].zone # HazardZone
                    THEN At("MOWING", @[d].zone) ELSE @[d]]]

ClearEmergency(p) ==
  IF p.mode # "EMERGENCY" \/ ~p.incidentActive THEN p
  ELSE [ClearTimer(p) EXCEPT !.timer = NoTimer, !.deviceTimers = {},
                             !.cursor = Daily, !.mode = "NORMAL",
                             !.devices = InitialDevices, !.incidentActive = FALSE,
                             !.authorized = FALSE, !.deferred = FALSE]

InjectThunderstorm(p) ==
  IF p.cursor < StormEvent
  THEN RunPreAuthorizationAssessment(Enter([p EXCEPT !.incidentActive = TRUE], StormEvent))
  ELSE p

\* The transitions a message asks for by name.
Transitions ==
  [START_INSPECTION |-> <<Daily, Inspection>>,
   CREATE_MAINTENANCE_TASK |-> <<Inspection, DailyProposal>>,
   ASSESS_RISK |-> <<StormEvent, Risk>>,
   PREPARE_EMERGENCY_ORGANIZATION |-> <<Risk, Recommend>>,
   REQUEST_AUTHORIZATION |-> <<Recommend, Approval>>]

FollowTransition(p, intent) ==
  IF p.cursor = Transitions[intent][1] THEN Enter(p, Transitions[intent][2]) ELSE p

ApplyRuntimeIntent(p, text, intent) ==
  CASE intent = "ANSWER" -> {Done(p)}
    [] intent = "RETURN_MACHINE_TO_BASE" -> ReturnMachineToBase(p, text)
    [] intent = "ASSIGN_MOWING_ZONE" -> AssignMowingZone(p, text)
    [] intent = "REDIRECT_INSPECTION" -> RedirectInspection(p, text)
    [] intent = "CLEAR_MAINTENANCE_HAZARD" -> {Done(ClearMaintenanceHazard(p))}
    [] intent = "CLEAR_EMERGENCY" -> {Done(ClearEmergency(p))}
    [] intent = "INJECT_THUNDERSTORM" -> {Done(InjectThunderstorm(p))}
    [] intent = "APPROVE_EMERGENCY" -> {Done(AuthorizeByChat(p))}
    [] intent = "DEFER_EMERGENCY" -> {Done(DeferEmergency(p))}
    [] intent \in DOMAIN Transitions -> {Done(FollowTransition(p, intent))}

InferMockIntent == [text \in OperatorTexts |-> ConsoleIntent(text)]

\* handleMockWorkerMessage: without a reply of the model the page decides alone.
HandleMockWorkerMessage(p, text) == ApplyRuntimeIntent(p, text, InferMockIntent[text])

\* applyModelIntent: an intent the page does not find in the text is blocked.
ApplyModelIntent(p, text, intent) ==
  IF intent = "ANSWER" \/ intent # InferMockIntent[text] THEN {Done(p)}
  ELSE ApplyRuntimeIntent(p, text, intent)

\* requestBackendReply: what fails after the reply is handled without it, again.
Handle(p, text, reply) ==
  IF reply.ok
  THEN UNION {IF o.then = Thrown THEN HandleMockWorkerMessage(o.page, text) ELSE {o} :
                o \in ApplyModelIntent(p, text, reply.intent)}
  ELSE HandleMockWorkerMessage(p, text)

---------------------------------------------------------------------------
(* The command queue *)

Idle == [kind |-> "idle"]
Asked == [kind |-> "asked"]

Empty == [work |-> Idle, waiting |-> 0]

\* The promise reactions of generation g when its command at work is done.
Resumed(g) ==
  IF g # generation \/ chains[g].waiting = 0 THEN Empty
  ELSE [work |-> Asked, waiting |-> chains[g].waiting - 1]

\* A command that threw rejects the queue, and with it all that wait or come.
After(g, then) ==
  CASE then = Finished -> Resumed(g)
    [] then = Thrown -> [work |-> Thrown, waiting |-> 0]
    [] OTHER -> [chains[g] EXCEPT !.work = then]

InitialPage ==
  [cursor |-> Daily, mode |-> ModeOf(Daily), authorized |-> FALSE, deferred |-> FALSE,
   incidentActive |-> FALSE, hazard |-> "unknown", devices |-> InitialDevices,
   timer |-> NoTimer, intervals |-> {}, deviceTimers |-> {}]

Init ==
  /\ page = InitialPage
  /\ generation = 0
  /\ chains = [g \in 0..MaxResets |-> Empty]
  /\ consent = FALSE

\* sendWorkerMessage
Send ==
  /\ LET chain == chains[generation]
     IN CASE chain.work = Idle -> chains' = [chains EXCEPT ![generation].work = Asked]
          [] chain.work = Thrown -> UNCHANGED chains
          [] OTHER -> /\ chain.waiting < MaxWaiting
                      /\ chains' = [chains EXCEPT ![generation].waiting = @ + 1]
  /\ UNCHANGED <<page, generation, consent>>

\* Mutant: the check is missing where the request failed.
IsDroppedIfAnswered(g, reply) == g # generation /\ reply.ok

\* A reply, or its failure, of a generation that is over is dropped.
IsDropped(g, reply) == g # generation

ChatReplies == [text \in OperatorTexts |-> Replies(text)]

\* The request of generation g is answered, refused or lost.
Reply(g) ==
  /\ chains[g].work = Asked
  /\ \E text \in OperatorTexts : \E reply \in ChatReplies[text] :
       IF IsDropped(g, reply)
       THEN /\ chains' = [chains EXCEPT ![g] = Resumed(g)]
            /\ UNCHANGED <<page, consent>>
       ELSE \E o \in Handle(page, text, reply) :
              /\ page' = IF o.then.kind = "route"
                         THEN [o.page EXCEPT !.deviceTimers = @ \cup {g}] ELSE o.page
              /\ chains' = [chains EXCEPT ![g] = After(g, o.then)]
              /\ consent' = ("approve" \in text.cues \/ (consent /\ o.page.authorized))
  /\ UNCHANGED generation

\* Mutant: the promise of the route is not resolved.
EndRouteUnresolved(g, p) ==
  /\ page' = [p EXCEPT !.deviceTimers = @ \ {g}]
  /\ UNCHANGED chains

\* The route of generation g is over, and with it the command.
EndRoute(g, p) ==
  /\ page' = [p EXCEPT !.deviceTimers = @ \ {g}]
  /\ chains' = [chains EXCEPT ![g] = Resumed(g)]

\* The timer of a leg fires: the device is at the waypoint, and has arrived,
\* drives on, or is stopped by the people it would come too close to.
DeviceTimer(g) ==
  /\ g \in page.deviceTimers
  /\ LET route == chains[g].work
     IN \/ /\ route.legs = 1
           /\ EndRoute(g, [page EXCEPT !.devices[route.device] = route.final])
        \/ /\ route.legs > 1
           /\ chains' = [chains EXCEPT ![g].work.legs = @ - 1]
           /\ UNCHANGED page
        \/ /\ route.legs > 1
           /\ EndRoute(g, [page EXCEPT !.devices[route.device].status = "HOLDING"])
  /\ UNCHANGED <<generation, consent>>

Ended(p) == [ClearTimer(p) EXCEPT !.timer = NoTimer]

\* Mutant: the last step is taken for done.
TickedEarly(p, i) ==
  CASE i.kind = "assess" /\ i.next < 3 ->
         [Enter(p, Risk + i.next) EXCEPT
            !.intervals = (@ \ {i}) \cup {[i EXCEPT !.next = @ + 1]}]
    [] i.kind = "remaining" /\ p.cursor < ShelterVerified - 1 -> Enter(p, p.cursor + 1)
    [] OTHER -> Ended(p)

\* The callback of interval i
Ticked(p, i) ==
  CASE i.kind = "assess" /\ i.next < 3 ->
         [Enter(p, Risk + i.next) EXCEPT
            !.intervals = (@ \ {i}) \cup {[i EXCEPT !.next = @ + 1]}]
    [] i.kind = "remaining" /\ p.cursor < ShelterVerified -> Enter(p, p.cursor + 1)
    [] OTHER -> Ended(p)

IntervalTick ==
  /\ \E i \in page.intervals : page' = Ticked(page, i)
  /\ UNCHANGED <<generation, chains, consent>>

\* The buttons of the card that is shown while an approval is awaited
ApproveButton ==
  /\ AwaitingApproval(page)
  /\ page' = ApproveEmergency(page)
  /\ consent' = TRUE
  /\ UNCHANGED <<generation, chains>>

DeferButton ==
  /\ AwaitingApproval(page)
  /\ page' = DeferEmergency(page)
  /\ UNCHANGED <<generation, chains, consent>>

\* What is left of the queue of a generation that is over: its waiting commands
\* will do nothing, and a route whose timer was cancelled never settles.
Abandoned(chain) == IF chain.work = Asked THEN [Empty EXCEPT !.work = Asked] ELSE Empty

\* resetDemo
Reset ==
  /\ generation < MaxResets
  /\ page' = [InitialPage EXCEPT !.intervals = ClearTimer(page).intervals]
  /\ generation' = generation + 1
  /\ chains' = [chains EXCEPT ![generation] = Abandoned(@)]
  /\ consent' = FALSE

Next ==
  \/ Send
  \/ \E g \in 0..MaxResets : Reply(g) \/ DeviceTimer(g)
  \/ IntervalTick
  \/ ApproveButton
  \/ DeferButton
  \/ Reset

Spec == Init /\ [][Next]_vars

\* Replies, timers and intervals come; nothing obliges the operator.
FairSpec ==
  /\ Spec
  /\ WF_vars(IntervalTick)
  /\ \A g \in 0..MaxResets : WF_vars(Reply(g)) /\ WF_vars(DeviceTimer(g))

---------------------------------------------------------------------------
(* Properties *)

Intervals == [id : Nat \ {NoTimer}, kind : {"assess", "remaining"}, next : 0..3]

Pages ==
  [cursor : Steps, mode : {"NORMAL", "EMERGENCY"}, authorized : BOOLEAN, deferred : BOOLEAN,
   incidentActive : BOOLEAN, hazard : {"unknown", "active", "cleared"},
   devices : [Devices -> DeviceStates],
   timer : Nat, intervals : SUBSET Intervals, deviceTimers : SUBSET (0..MaxResets)]

Routes == [kind : {"route"}, device : Devices, legs : {1, 2}, final : DeviceStates]

\* The type invariant of the page, its timers and its queues.
TypeOK ==
  /\ page \in Pages
  /\ generation \in 0..MaxResets
  /\ chains \in [0..MaxResets -> [work : {Idle, Asked, Thrown} \cup Routes,
                                 waiting : 0..MaxWaiting]]
  /\ consent \in BOOLEAN

\* The command queue waits for a route exactly while a live timer will end it:
\* resetDemo and clearEmergency cancel timers without settling the promises
\* that wait for them.
QueueWaitsOnLiveWork ==
  page.deviceTimers = {g \in {generation} : chains[g].work.kind = "route"}

\* At most one interval moves the scenario on, and it is the one runtime.timer
\* can cancel: no approval, injection or reset leaves a second one running.
OneTimeline ==
  \A i, j \in page.intervals : i = j /\ i.id = page.timer

\* What was asked before a reset changes nothing of the page when its answer,
\* or the failure of it, comes after the reset.
StaleWorkChangesNothing ==
  [][\A g \in 0..MaxResets : g < generation /\ chains'[g] # chains[g] => UNCHANGED page]_vars

\* The page is in EMERGENCY exactly while an approval stands, for a storm that
\* was injected, and the approval was a button or a message with the words of
\* one: no reply of the model, failure or assessment timer authorizes.
EmergencyIsApproved ==
  /\ page.authorized <=> page.mode = "EMERGENCY"
  /\ page.authorized => consent /\ page.incidentActive

\* While the C zone is closed no mower comes into it, whatever was accepted
\* before the leak was found (ARCHITECTURE.md:612).
ClosedZoneIsNotEntered ==
  [][\A m \in Mowers : page.hazard = "active" /\ page.devices[m].zone # HazardZone
                          => page'.devices[m].zone # HazardZone]_vars

\* The queue never waits for a route for ever, and an authorized emergency comes
\* to its last step unless it is cleared or reset.
WorkEnds ==
  /\ []<>(chains[generation].work.kind # "route")
  /\ page.authorized ~> (page.cursor = ShelterVerified \/ ~page.authorized)

---------------------------------------------------------------------------
(* What the repository says and the code does not do *)

\* A waiting command leaves the queue only to be processed: "前一条模型调用和 Runtime
\* 动作完成后才处理下一条" (ARCHITECTURE.md:608).
CommandsAreProcessed ==
  [][generation' = generation /\ chains'[generation].waiting < chains[generation].waiting
       => chains'[generation].work = Asked]_vars

\* During an emergency no mower goes back to mowing:
\* "紧急事件期间割草机不能恢复日常割草任务" (app.js:248).
EmergencyStopsMowing ==
  [][\A m \in Mowers : page.mode = "EMERGENCY" /\ page'.mode = "EMERGENCY"
                          /\ page.devices[m].status # "MOWING"
                          => page'.devices[m].status # "MOWING"]_vars
=============================================================================
