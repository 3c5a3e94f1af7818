----------------------- MODULE OperatorConsoleProofs -----------------------
(***************************************************************************)
(* Proofs about OperatorConsole, for everything an operator may write and  *)
(* any number of resets and waiting commands.                              *)
(***************************************************************************)
EXTENDS OperatorConsole, SequenceTheorems, TLAPS

---------------------------------------------------------------------------
(* What a page in order is *)

\* The timeline of the scenario: which interval may run at which step.
MayRunAt(i, step) ==
  IF i.kind = "assess" THEN step \in StormEvent..Approval ELSE step >= Reconfigure

PageInv(p) ==
  /\ p \in Pages
  /\ \A i, j \in p.intervals : i = j /\ i.id = p.timer
  /\ \A i \in p.intervals : MayRunAt(i, p.cursor)
  /\ p.mode = ModeOf(p.cursor)
  /\ p.authorized <=> p.cursor >= Reconfigure
  /\ p.incidentActive <=> p.cursor >= StormEvent

\* No mower of page q is in the closed zone that was not in it on page p.
NobodyEnters(p, q) ==
  \A m \in Mowers : q.devices[m].zone = HazardZone => p.devices[m].zone = HazardZone

Follows(p, q) ==
  /\ PageInv(q)
  /\ q.deviceTimers = p.deviceTimers
  /\ NobodyEnters(p, q)

---------------------------------------------------------------------------
(* Devices and steps *)

LEMMA StepNumbers ==
  /\ Daily = 0 /\ Inspection = 1 /\ DailyProposal = 2 /\ StormEvent = 3 /\ Risk = 4
  /\ Recommend = 5 /\ Approval = 6 /\ Reconfigure = 7 /\ Intervention = 11
  /\ PositionRecheck = 12 /\ ShelterVerified = 13 /\ Steps = 0..13
  BY DEF Daily, Inspection, DailyProposal, StormEvent, Risk, Recommend, Approval, Reconfigure,
         Intervention, PositionRecheck, ShelterVerified, Steps

LEMMA DeviceNames ==
  /\ Devices = {"mower_1", "mower_2", "drone_1"}
  /\ Mowers = {"mower_1", "mower_2"} /\ Drone = "drone_1" /\ HazardZone = "C"
  BY DEF Devices, Mowers, Drone, HazardZone

LEMMA PlaceNames ==
  /\ {"A", "B", "C", "D", "E", "F", "G", "H", "ZONE C", "SERVICE ROAD", "AIR CORRIDOR",
      "MAINTENANCE", "CLUBHOUSE"} \subseteq Places
  /\ NamedZones \subseteq Places /\ CourseZones \subseteq NamedZones
  BY DEF Places, NamedZones, CourseZones

LEMMA StateOf ==
  ASSUME NEW s \in Statuses, NEW z \in Places
  PROVE  At(s, z) \in DeviceStates /\ At(s, z).zone = z
  BY DEF At, DeviceStates

LEMMA InitialDevicesTyped ==
  /\ InitialDevices \in [Devices -> DeviceStates]
  /\ \A m \in Mowers : InitialDevices[m].zone # HazardZone
  <1>1. /\ At("MOWING", "B") \in DeviceStates /\ At("MOWING", "B").zone = "B"
        /\ At("MOWING", "D") \in DeviceStates /\ At("MOWING", "D").zone = "D"
        /\ At("PATROL", "ZONE C") \in DeviceStates
    BY StateOf, PlaceNames DEF Statuses
  <1>2. QED
    BY <1>1, DeviceNames DEF InitialDevices

LEMMA StatusSet ==
  ASSUME NEW devices \in [Devices -> DeviceStates], NEW d \in Devices, NEW s \in Statuses
  PROVE  /\ [devices EXCEPT ![d].status = s] \in [Devices -> DeviceStates]
         /\ \A e \in Devices : [devices EXCEPT ![d].status = s][e].zone = devices[e].zone
  BY DEF DeviceStates

LEMMA StateSet ==
  ASSUME NEW devices \in [Devices -> DeviceStates], NEW d \in Devices,
         NEW s \in DeviceStates, s.zone # HazardZone
  PROVE  /\ [devices EXCEPT ![d] = s] \in [Devices -> DeviceStates]
         /\ \A e \in Devices : [devices EXCEPT ![d] = s][e].zone = HazardZone
                                 => devices[e].zone = HazardZone
  OBVIOUS

LEMMA PatchedDevices ==
  ASSUME NEW devices \in [Devices -> DeviceStates], NEW step \in Steps
  PROVE  /\ Patched(devices, step) \in [Devices -> DeviceStates]
         /\ \A m \in Mowers : Patched(devices, step)[m].zone = HazardZone
                                => devices[m].zone = HazardZone
  <1>1. /\ At("RETURNING", "SERVICE ROAD") \in DeviceStates
        /\ At("RETURNING", "SERVICE ROAD").zone # HazardZone
        /\ At("TRACKING PERSON", "B") \in DeviceStates
        /\ At("TRACKING PERSON", "B").zone # HazardZone
        /\ At("PARKED", "MAINTENANCE") \in DeviceStates
        /\ At("PARKED", "MAINTENANCE").zone # HazardZone
        /\ At("OVERWATCH", "CLUBHOUSE") \in DeviceStates
        /\ At("OVERWATCH", "CLUBHOUSE").zone # HazardZone
    BY StateOf, PlaceNames, DeviceNames DEF Statuses
  <1>2. \A s \in {"INSPECTING", "PATROL", "HOLDING", "TRACKING PERSON"} : s \in Statuses
    BY DEF Statuses
  <1>3. CASE step \in {Inspection, DailyProposal}
    <2>1. PICK s \in {"INSPECTING", "PATROL"} :
            Patched(devices, step) = [devices EXCEPT ![Drone].status = s]
      <3>1. CASE step = Inspection
        <4>1. Patched(devices, step) = [devices EXCEPT ![Drone].status = "INSPECTING"]
          BY <3>1, StepNumbers DEF Patched
        <4>2. QED
          BY <4>1
      <3>2. CASE step = DailyProposal
        <4>1. Patched(devices, step) = [devices EXCEPT ![Drone].status = "PATROL"]
          BY <3>2, StepNumbers DEF Patched
        <4>2. QED
          BY <4>1
      <3>3. QED
        BY <1>3, <3>1, <3>2
    <2>2. s \in Statuses /\ Drone \in Devices
      BY <1>2, DeviceNames
    <2>3. QED
      BY <2>1, <2>2, StatusSet, DeviceNames
  <1>4. CASE step = Intervention
    <2> DEFINE d1 == [devices EXCEPT !["mower_1"].status = "HOLDING"]
               d2 == [d1 EXCEPT !["mower_2"] = At("RETURNING", "SERVICE ROAD")]
               d3 == [d2 EXCEPT !["drone_1"].status = "TRACKING PERSON"]
    <2>1. /\ d1 \in [Devices -> DeviceStates]
          /\ \A e \in Devices : d1[e].zone = devices[e].zone
      <3>1. "HOLDING" \in Statuses /\ "mower_1" \in Devices
        BY <1>2, DeviceNames
      <3>2. QED
        BY <3>1, StatusSet
    <2>2. /\ d2 \in [Devices -> DeviceStates]
          /\ \A e \in Devices : d2[e].zone = HazardZone => d1[e].zone = HazardZone
      <3> HIDE DEF d1
      <3>1. QED
        BY <1>1, <2>1, StateSet, DeviceNames
    <2>3. /\ d3 \in [Devices -> DeviceStates]
          /\ \A e \in Devices : d3[e].zone = d2[e].zone
      <3> HIDE DEF d2
      <3>1. "TRACKING PERSON" \in Statuses /\ "drone_1" \in Devices
        BY <1>2, DeviceNames
      <3>2. QED
        BY <2>2, <3>1, StatusSet
    <2>4. Patched(devices, step) = d3
      BY <1>4, StepNumbers, DeviceNames DEF Patched
    <2>5. QED
      BY <2>1, <2>2, <2>3, <2>4, DeviceNames
  <1>5. CASE step \in {PositionRecheck, ShelterVerified}
    <2>1. PICK s1 \in DeviceStates, s2 \in DeviceStates :
            /\ s1.zone # HazardZone /\ s2.zone # HazardZone
            /\ Patched(devices, step) = [devices EXCEPT !["mower_2"] = s1, ![Drone] = s2]
      <3>1. CASE step = PositionRecheck
        <4>1. Patched(devices, step) =
                [devices EXCEPT !["mower_2"] = At("RETURNING", "SERVICE ROAD"),
                                ![Drone] = At("TRACKING PERSON", "B")]
          BY <3>1, StepNumbers DEF Patched
        <4>2. QED
          BY <1>1, <4>1
      <3>2. CASE step = ShelterVerified
        <4>1. Patched(devices, step) =
                [devices EXCEPT !["mower_2"] = At("PARKED", "MAINTENANCE"),
                                ![Drone] = At("OVERWATCH", "CLUBHOUSE")]
          BY <3>2, StepNumbers DEF Patched
        <4>2. QED
          BY <1>1, <4>1
      <3>3. QED
        BY <1>5, <3>1, <3>2
    <2>2. QED
      BY <2>1, DeviceNames
  <1>6. CASE step \notin {Inspection, DailyProposal, Intervention, PositionRecheck, ShelterVerified}
    BY <1>6 DEF Patched
  <1>7. QED
    BY <1>3, <1>4, <1>5, <1>6

LEMMA EnterChanges ==
  ASSUME NEW p \in Pages, NEW step \in Steps
  PROVE  /\ Enter(p, step) \in Pages
         /\ Enter(p, step).cursor = step /\ Enter(p, step).mode = ModeOf(step)
         /\ Enter(p, step).authorized = p.authorized
         /\ Enter(p, step).incidentActive = p.incidentActive
         /\ Enter(p, step).timer = p.timer
         /\ Enter(p, step).intervals = p.intervals
         /\ Enter(p, step).deviceTimers = p.deviceTimers
         /\ Enter(p, step).devices = Patched(p.devices, step)
         /\ step \notin {Inspection, DailyProposal} => Enter(p, step).hazard = p.hazard
  BY PatchedDevices DEF Enter, Pages, ModeOf

\* A step of the scenario leaves a page in order if the interval that runs may
\* run there and approval and storm are those of the step.
LEMMA EnterFollows ==
  ASSUME NEW p, PageInv(p), NEW step \in Steps,
         p.authorized <=> step >= Reconfigure,
         p.incidentActive <=> step >= StormEvent,
         \A i \in p.intervals : MayRunAt(i, step)
  PROVE  Follows(p, Enter(p, step))
  <1>1. p \in Pages
    BY DEF PageInv
  <1>2. NobodyEnters(p, Enter(p, step))
    BY <1>1, EnterChanges, PatchedDevices DEF NobodyEnters, Pages
  <1>3. PageInv(Enter(p, step))
    BY <1>1, EnterChanges DEF PageInv
  <1>4. QED
    BY <1>1, <1>2, <1>3, EnterChanges DEF Follows

---------------------------------------------------------------------------
(* Timers *)

LEMMA TimerCleared ==
  ASSUME NEW p, PageInv(p)
  PROVE  ClearTimer(p) = [p EXCEPT !.intervals = {}]
  <1>1. {i \in p.intervals : i.id # p.timer} = {}
    BY DEF PageInv
  <1>2. QED
    BY <1>1 DEF ClearTimer

LEMMA FirstTimer ==
  ASSUME NEW p, p.intervals = {}, NEW kind
  PROVE  SetTimer(p, kind) = [p EXCEPT !.timer = 1,
                                       !.intervals = {[id |-> 1, kind |-> kind, next |-> 0]}]
  <1>1. {i.id : i \in p.intervals} \cup {NoTimer} = {0}
    BY DEF NoTimer
  <1>2. Max({0}) = 0
    BY DEF Max
  <1>3. FreshId(p) = 1
    BY <1>1, <1>2 DEF FreshId
  <1>4. QED
    BY <1>3 DEF SetTimer
---------------------------------------------------------------------------
(* Approval and deferral *)

\* The assessment of a storm that has just begun.
LEMMA AssessmentFollows ==
  ASSUME NEW p, PageInv(p), ~p.authorized, p.cursor \in StormEvent..Approval
  PROVE  /\ Follows(p, RunPreAuthorizationAssessment(p))
         /\ RunPreAuthorizationAssessment(p).authorized = p.authorized
  <1> DEFINE c == [p EXCEPT !.intervals = {}]
             i == [id |-> 1, kind |-> "assess", next |-> 0]
  <1>1. p \in Pages
    BY DEF PageInv
  <1>2. RunPreAuthorizationAssessment(p) = [c EXCEPT !.timer = 1, !.intervals = {i}]
    <2>1. ClearTimer(p) = c
      BY TimerCleared
    <2>2. c.intervals = {}
      BY <1>1 DEF Pages
    <2> HIDE DEF c
    <2>3. SetTimer(c, "assess") = [c EXCEPT !.timer = 1, !.intervals = {i}]
      BY <2>2, FirstTimer
    <2>4. QED
      BY <2>1, <2>3 DEF RunPreAuthorizationAssessment
  <1>3. i \in Intervals /\ i.id = 1 /\ i.kind = "assess"
    BY DEF Intervals, NoTimer
  <1>4. MayRunAt(i, p.cursor)
    BY <1>3 DEF MayRunAt
  <1> DEFINE q == RunPreAuthorizationAssessment(p)
  <1>5. /\ q \in Pages /\ q.timer = 1 /\ q.intervals = {i} /\ q.cursor = p.cursor
        /\ q.mode = p.mode /\ q.authorized = p.authorized /\ q.devices = p.devices
        /\ q.incidentActive = p.incidentActive /\ q.deviceTimers = p.deviceTimers
    <2>1. /\ c \in Pages /\ c.cursor = p.cursor /\ c.mode = p.mode
          /\ c.authorized = p.authorized /\ c.devices = p.devices
          /\ c.incidentActive = p.incidentActive /\ c.deviceTimers = p.deviceTimers
      BY <1>1 DEF Pages
    <2> DEFINE r == [c EXCEPT !.timer = 1, !.intervals = {i}]
    <2> HIDE DEF c, i
    <2>2. /\ r \in Pages /\ r.timer = 1 /\ r.intervals = {i} /\ r.cursor = c.cursor
          /\ r.mode = c.mode /\ r.authorized = c.authorized /\ r.devices = c.devices
          /\ r.incidentActive = c.incidentActive /\ r.deviceTimers = c.deviceTimers
      BY <1>3, <2>1 DEF Pages
    <2>3. q = r
      BY <1>2
    <2> HIDE DEF q, r
    <2>4. QED
      BY <2>1, <2>2, <2>3
  <1> HIDE DEF q
  <1>6. PageInv(q)
    BY <1>3, <1>4, <1>5 DEF PageInv
  <1>7. QED
    BY <1>5, <1>6 DEF Follows, NobodyEnters, q

LEMMA StormFollows ==
  ASSUME NEW p, PageInv(p)
  PROVE  /\ Follows(p, InjectThunderstorm(p))
         /\ InjectThunderstorm(p).authorized = p.authorized
  <1>1. p \in Pages /\ StormEvent = 3 /\ Reconfigure = 7 /\ Approval = 6
    BY StepNumbers DEF PageInv
  <1>2. CASE p.cursor < StormEvent
    <2> DEFINE s == [p EXCEPT !.incidentActive = TRUE]
               q == Enter(s, StormEvent)
    <2>1. p.intervals = {}
      BY <1>1, <1>2, StepNumbers DEF PageInv, MayRunAt, Pages
    <2>2. /\ s \in Pages /\ s.intervals = {} /\ s.authorized = p.authorized
          /\ s.incidentActive = TRUE /\ s.devices = p.devices
          /\ s.deviceTimers = p.deviceTimers /\ ~p.authorized
      <3>1. ~p.authorized
        BY <1>1, <1>2, StepNumbers DEF Pages, PageInv
      <3>2. QED
        BY <1>1, <2>1, <3>1 DEF Pages
    <2> HIDE DEF s
    <2>3. StormEvent \in Steps /\ StormEvent \in StormEvent..Approval
      BY StepNumbers
    <2>4. /\ q \in Pages /\ q.cursor = StormEvent /\ q.mode = ModeOf(StormEvent)
          /\ q.authorized = p.authorized /\ q.incidentActive = TRUE /\ q.intervals = {}
          /\ q.deviceTimers = p.deviceTimers
          /\ q.devices = Patched(p.devices, StormEvent)
      BY <2>2, <2>3, EnterChanges
    <2>5. PageInv(q)
      <3> HIDE DEF q
      <3>1. QED
        BY <2>2, <2>4, StepNumbers DEF PageInv
    <2> HIDE DEF q
    <2>6. NobodyEnters(p, q)
      BY <1>1, <2>3, <2>4, PatchedDevices DEF NobodyEnters, Pages
    <2>7. Follows(q, RunPreAuthorizationAssessment(q))
      BY <2>2, <2>3, <2>4, <2>5, AssessmentFollows
    <2>8. InjectThunderstorm(p) = RunPreAuthorizationAssessment(q)
      BY <1>2 DEF InjectThunderstorm, q, s
    <2>9. RunPreAuthorizationAssessment(q).authorized = p.authorized
      BY <2>2, <2>3, <2>4, <2>5, AssessmentFollows
    <2>10. QED
      BY <2>4, <2>6, <2>7, <2>8, <2>9 DEF Follows, NobodyEnters
  <1>3. CASE ~(p.cursor < StormEvent)
    BY <1>3 DEF InjectThunderstorm, Follows, NobodyEnters
  <1>4. QED
    BY <1>2, <1>3

LEMMA ApproveFollows ==
  ASSUME NEW p, PageInv(p)
  PROVE  Follows(p, ApproveEmergency(p)) /\ ApproveEmergency(p).hazard = p.hazard
  <1>1. p \in Pages
    BY DEF PageInv
  <1>2. CASE p.authorized \/ p.cursor # Approval
    BY <1>2 DEF ApproveEmergency, Follows, NobodyEnters
  <1>3. CASE ~p.authorized /\ p.cursor = Approval
    <2> DEFINE s == [p EXCEPT !.authorized = TRUE, !.deferred = FALSE]
               c == [s EXCEPT !.intervals = {}]
               q == Enter(c, Reconfigure)
               i == [id |-> 1, kind |-> "remaining", next |-> 0]
               r == [q EXCEPT !.timer = 1, !.intervals = {i}]
    <2>1. /\ {j \in p.intervals : j.id # p.timer} = {}
      BY DEF PageInv
    <2>2. ClearTimer(s) = c
      BY <1>1, <2>1 DEF ClearTimer, Pages
    <2>3. /\ c \in Pages /\ c.intervals = {} /\ c.authorized = TRUE /\ c.cursor = Approval
          /\ c.incidentActive = p.incidentActive /\ c.devices = p.devices
          /\ c.deviceTimers = p.deviceTimers /\ c.hazard = p.hazard
      BY <1>1, <1>3 DEF Pages
    <2>4. Reconfigure \in Steps /\ Approval + 1 = Reconfigure
      BY StepNumbers
    <2>5. /\ q \in Pages /\ q.cursor = Reconfigure /\ q.mode = ModeOf(Reconfigure)
          /\ q.authorized = TRUE /\ q.incidentActive = p.incidentActive
          /\ q.intervals = {} /\ q.deviceTimers = p.deviceTimers
          /\ q.devices = Patched(p.devices, Reconfigure) /\ q.hazard = p.hazard
      <3> HIDE DEF c
      <3>1. QED
        BY <2>3, <2>4, EnterChanges, StepNumbers
    <2>6. ApproveEmergency(p) = r
      <3>1. ApproveEmergency(p) = SetTimer(Enter(c, c.cursor + 1), "remaining")
        BY <1>3, <2>2 DEF ApproveEmergency, RunRemainingSteps
      <3>2. ApproveEmergency(p) = SetTimer(q, "remaining")
        BY <3>1, <2>3, <2>4
      <3> HIDE DEF q
      <3>3. QED
        BY <2>5, <3>2, FirstTimer
    <2> HIDE DEF q
    <2>7. i \in Intervals /\ i.id = 1 /\ i.kind = "remaining"
      BY DEF Intervals, NoTimer
    <2>8. /\ r \in Pages /\ r.timer = 1 /\ r.intervals = {i} /\ r.cursor = Reconfigure
          /\ r.mode = ModeOf(Reconfigure) /\ r.authorized = TRUE
          /\ r.incidentActive = p.incidentActive /\ r.deviceTimers = p.deviceTimers
          /\ r.devices = Patched(p.devices, Reconfigure) /\ r.hazard = p.hazard
      BY <2>5, <2>7 DEF Pages
    <2>9. MayRunAt(i, Reconfigure)
      BY <2>7, StepNumbers DEF MayRunAt
    <2>10. PageInv(r)
      BY <1>3, <2>7, <2>8, <2>9, StepNumbers DEF PageInv
    <2>11. NobodyEnters(p, r)
      BY <1>1, <2>4, <2>8, PatchedDevices DEF NobodyEnters, Pages
    <2>12. QED
      BY <2>6, <2>8, <2>10, <2>11 DEF Follows
  <1>4. QED
    BY <1>2, <1>3

LEMMA DeferFollows ==
  ASSUME NEW p, PageInv(p)
  PROVE  /\ Follows(p, DeferEmergency(p))
         /\ DeferEmergency(p).authorized = p.authorized
         /\ DeferEmergency(p).hazard = p.hazard
  <1> DEFINE q == [p EXCEPT !.deferred = TRUE]
  <1>1. p \in Pages
    BY DEF PageInv
  <1>2. /\ q \in Pages /\ q.intervals = p.intervals /\ q.timer = p.timer
        /\ q.cursor = p.cursor /\ q.mode = p.mode /\ q.authorized = p.authorized
        /\ q.incidentActive = p.incidentActive /\ q.devices = p.devices
        /\ q.deviceTimers = p.deviceTimers /\ q.hazard = p.hazard
    BY <1>1 DEF Pages
  <1> HIDE DEF q
  <1>3. PageInv(q)
    BY <1>2 DEF PageInv
  <1>4. DeferEmergency(p) = p \/ DeferEmergency(p) = q
    BY DEF DeferEmergency, q
  <1>5. QED
    BY <1>2, <1>3, <1>4 DEF Follows, NobodyEnters

LEMMA AuthorizeFollows ==
  ASSUME NEW p, PageInv(p)
  PROVE  Follows(p, AuthorizeByChat(p))
  <1>1. p \in Pages
    BY DEF PageInv
  <1>2. CASE p.cursor < StormEvent
    BY <1>2 DEF AuthorizeByChat, Follows, NobodyEnters
  <1>3. CASE p.cursor >= StormEvent /\ p.cursor < Approval
    <2>1. /\ Approval \in Steps /\ ~p.authorized /\ p.incidentActive
          /\ \A i \in p.intervals : MayRunAt(i, Approval)
          /\ Approval >= StormEvent /\ ~(Approval >= Reconfigure)
      BY <1>1, <1>3, StepNumbers DEF PageInv, Pages, MayRunAt
    <2>2. Follows(p, Enter(p, Approval))
      BY <2>1, EnterFollows
    <2>3. Follows(Enter(p, Approval), ApproveEmergency(Enter(p, Approval)))
      BY <2>2, ApproveFollows DEF Follows
    <2>4. AuthorizeByChat(p) = ApproveEmergency(Enter(p, Approval))
      BY <1>1, <1>3, StepNumbers DEF AuthorizeByChat, Pages
    <2>5. QED
      BY <2>2, <2>3, <2>4 DEF Follows, NobodyEnters
  <1>4. CASE p.cursor >= Approval
    <2>1. AuthorizeByChat(p) = ApproveEmergency(p)
      BY <1>1, <1>4, StepNumbers DEF AuthorizeByChat, Pages
    <2>2. QED
      BY <2>1, ApproveFollows
  <1>5. QED
    BY <1>1, <1>2, <1>3, <1>4, StepNumbers DEF Pages
---------------------------------------------------------------------------
(* What a command makes of a page *)

\* A route into the closed zone is under way only while the zone is open.
OpenWay(work, p) ==
  work.kind = "route" /\ work.device \in Mowers /\ work.final.zone = HazardZone
    => p.hazard # "active"

Outcome(p, text, o) ==
  /\ PageInv(o.page)
  /\ o.page.deviceTimers \subseteq p.deviceTimers
  /\ NobodyEnters(p, o.page)
  /\ o.page.authorized => p.authorized \/ "approve" \in text.cues
  /\ o.then \in {Finished, Thrown} \cup Routes
  /\ OpenWay(o.then, o.page)

LEMMA DoneOutcome ==
  ASSUME NEW p, NEW q, Follows(p, q), NEW text,
         q.authorized => p.authorized \/ "approve" \in text.cues
  PROVE  Outcome(p, text, Done(q))
  BY DEF Outcome, Follows, Done, Finished, OpenWay

LEMMA SamePage ==
  ASSUME NEW p, PageInv(p)
  PROVE  Follows(p, p)
  BY DEF Follows, NobodyEnters

\* Only the devices of the page change, and none comes into the closed zone.
LEMMA DevicesSet ==
  ASSUME NEW p, PageInv(p), NEW devices \in [Devices -> DeviceStates],
         \A m \in Mowers : devices[m].zone = HazardZone => p.devices[m].zone = HazardZone
  PROVE  /\ Follows(p, [p EXCEPT !.devices = devices])
         /\ [p EXCEPT !.devices = devices].authorized = p.authorized
         /\ [p EXCEPT !.devices = devices].hazard = p.hazard
  <1> DEFINE q == [p EXCEPT !.devices = devices]
  <1>1. /\ q \in Pages /\ q.intervals = p.intervals /\ q.timer = p.timer /\ q.hazard = p.hazard
        /\ q.cursor = p.cursor /\ q.mode = p.mode /\ q.authorized = p.authorized
        /\ q.incidentActive = p.incidentActive /\ q.devices = devices
        /\ q.deviceTimers = p.deviceTimers
    BY DEF Pages, PageInv
  <1> HIDE DEF q
  <1>2. PageInv(q)
    BY <1>1 DEF PageInv
  <1>3. QED
    BY <1>1, <1>2 DEF Follows, NobodyEnters, q

LEMMA MoveOutcome ==
  ASSUME NEW p, PageInv(p), NEW text, NEW device \in Devices,
         NEW moving \in DeviceStates, moving.zone # HazardZone, NEW final \in DeviceStates,
         device \in Mowers /\ final.zone = HazardZone => p.hazard # "active",
         NEW o \in Move(p, device, moving, final)
  PROVE  Outcome(p, text, o)
  <1>1. CASE o = Done(p)
    BY <1>1, SamePage, DoneOutcome
  <1>2. ASSUME NEW legs \in {1, 2},
               o = [page |-> [p EXCEPT !.devices[device] = moving],
                    then |-> Route(device, legs, final)]
        PROVE  Outcome(p, text, o)
    <2> DEFINE devices == [p.devices EXCEPT ![device] = moving]
               q == [p EXCEPT !.devices = devices]
    <2>1. p.devices \in [Devices -> DeviceStates] /\ Mowers \subseteq Devices
      BY DeviceNames DEF PageInv, Pages
    <2>2. /\ devices \in [Devices -> DeviceStates]
          /\ \A m \in Mowers : devices[m].zone = HazardZone => p.devices[m].zone = HazardZone
      BY <2>1, StateSet
    <2>3. Follows(p, q) /\ q.authorized = p.authorized /\ q.hazard = p.hazard
      <3> HIDE DEF devices
      <3>1. QED
        BY <2>2, DevicesSet
    <2>4. o.page = q /\ o.then = Route(device, legs, final)
      BY <1>2
    <2>5. Route(device, legs, final) \in Routes
      BY DEF Route, Routes
    <2> HIDE DEF q
    <2>6. OpenWay(o.then, o.page)
      BY <2>3, <2>4 DEF OpenWay, Route
    <2>7. QED
      BY <2>3, <2>4, <2>5, <2>6 DEF Outcome, Follows
  <1>3. QED
    BY <1>1, <1>2 DEF Move

\* What a text says of zones and machines.
LEMMA TextParts ==
  ASSUME NEW text \in OperatorTexts
  PROVE  /\ text.machine = Unnamed \/ text.machine \in Mowers
         /\ text.zone = Unnamed \/ text.zone \in NamedZones
         /\ Mowers \subseteq Devices /\ Drone \in Devices /\ Drone \notin Mowers
  BY ConsoleAssumption, DeviceNames DEF Texts, Unnamed

LEMMA ReturnOutcome ==
  ASSUME NEW p, PageInv(p), NEW text \in OperatorTexts,
         NEW o \in ReturnMachineToBase(p, text)
  PROVE  Outcome(p, text, o)
  <1>1. CASE o = Done(p)
    BY <1>1, SamePage, DoneOutcome
  <1>2. CASE /\ text.machine # Unnamed
             /\ o \in Move(p, text.machine, At("RETURNING", "SERVICE ROAD"),
                           At("PARKED", "MAINTENANCE"))
    <2>1. /\ At("RETURNING", "SERVICE ROAD") \in DeviceStates
          /\ At("RETURNING", "SERVICE ROAD").zone # HazardZone
          /\ At("PARKED", "MAINTENANCE") \in DeviceStates
          /\ At("PARKED", "MAINTENANCE").zone # HazardZone
      BY StateOf, PlaceNames, DeviceNames DEF Statuses
    <2>2. text.machine \in Devices
      BY <1>2, TextParts
    <2>3. QED
      BY <1>2, <2>1, <2>2, MoveOutcome
  <1>3. QED
    BY <1>1, <1>2 DEF ReturnMachineToBase

LEMMA AssignOutcome ==
  ASSUME NEW p, PageInv(p), NEW text \in OperatorTexts,
         NEW o \in AssignMowingZone(p, text)
  PROVE  Outcome(p, text, o)
  <1> DEFINE moving == At("TRANSITING", "SERVICE ROAD")
             final == At("MOWING", text.zone)
             held == [p EXCEPT !.devices[text.machine].status = "HOLDING"]
  <1>1. \/ o = Done(p)
        \/ o = [page |-> p, then |-> Thrown]
        \/ /\ text.machine \in Devices /\ text.zone \in CourseZones
           /\ \/ o = Done(held)
              \/ /\ FALSE \in RouteAffected(p, text.zone)
                 /\ o \in Move(p, text.machine, moving, final)
    <2>1. CASE \/ p.mode # "NORMAL" \/ p.incidentActive
               \/ text.machine = Unnamed \/ text.zone = Unnamed
               \/ p.devices[text.machine] = At("MOWING", text.zone)
      BY <2>1 DEF AssignMowingZone
    <2>2. CASE ~(\/ p.mode # "NORMAL" \/ p.incidentActive
                 \/ text.machine = Unnamed \/ text.zone = Unnamed
                 \/ p.devices[text.machine] = At("MOWING", text.zone))
      <3>1. text.machine \in Devices
        BY <2>2, TextParts
      <3>2. CASE text.zone \notin CourseZones
        BY <2>2, <3>2 DEF AssignMowingZone
      <3>3. CASE text.zone \in CourseZones
        <4>1. PICK affected \in RouteAffected(p, text.zone) :
                o \in IF affected THEN {Done(held)} ELSE Move(p, text.machine, moving, final)
          BY <2>2, <3>3 DEF AssignMowingZone
        <4>2. affected \in BOOLEAN
          BY DEF RouteAffected
        <4>3. QED
          BY <3>1, <3>3, <4>1, <4>2
      <3>4. QED
        BY <3>2, <3>3
    <2>3. QED
      BY <2>1, <2>2
  <1>2. CASE o = Done(p)
    BY <1>2, SamePage, DoneOutcome
  <1>3. CASE o = [page |-> p, then |-> Thrown]
    BY <1>3, SamePage DEF Outcome, Follows, OpenWay, Thrown
  <1>4. CASE text.machine \in Devices /\ o = Done(held)
    <2> DEFINE devices == [p.devices EXCEPT ![text.machine].status = "HOLDING"]
    <2>1. p.devices \in [Devices -> DeviceStates] /\ Mowers \subseteq Devices
      BY DeviceNames DEF PageInv, Pages
    <2>2. "HOLDING" \in Statuses
      BY DEF Statuses
    <2>3. /\ devices \in [Devices -> DeviceStates]
          /\ \A e \in Devices : devices[e].zone = p.devices[e].zone
      BY <1>4, <2>1, <2>2, StatusSet
    <2>4. held = [p EXCEPT !.devices = devices]
      OBVIOUS
    <2> HIDE DEF devices, held
    <2>5. Follows(p, held) /\ held.authorized = p.authorized
      BY <2>1, <2>3, <2>4, DevicesSet
    <2>6. QED
      BY <1>4, <2>5, DoneOutcome
  <1>5. CASE /\ text.machine \in Devices /\ text.zone \in CourseZones
             /\ FALSE \in RouteAffected(p, text.zone)
             /\ o \in Move(p, text.machine, moving, final)
    <2>1. p.hazard = "active" => text.zone # HazardZone
      BY <1>5 DEF RouteAffected
    <2>2. /\ moving \in DeviceStates /\ moving.zone # HazardZone
          /\ final \in DeviceStates /\ final.zone = text.zone
      BY <1>5, StateOf, PlaceNames, DeviceNames DEF Statuses
    <2> HIDE DEF moving, final
    <2>3. QED
      BY <1>5, <2>1, <2>2, MoveOutcome
  <1>6. QED
    BY <1>1, <1>2, <1>3, <1>4, <1>5

LEMMA RedirectOutcome ==
  ASSUME NEW p, PageInv(p), NEW text \in OperatorTexts,
         NEW o \in RedirectInspection(p, text)
  PROVE  Outcome(p, text, o)
  <1> DEFINE moving == At("TRANSITING", "AIR CORRIDOR")
             final == At("INSPECTING", text.zone)
  <1>1. CASE o = Done(p)
    BY <1>1, SamePage, DoneOutcome
  <1>2. CASE text.zone # Unnamed /\ o \in Move(p, Drone, moving, final)
    <2>1. text.zone \in Places /\ Drone \in Devices /\ Drone \notin Mowers
      BY <1>2, TextParts, PlaceNames
    <2>2. moving \in DeviceStates /\ moving.zone # HazardZone /\ final \in DeviceStates
      BY <2>1, StateOf, PlaceNames, DeviceNames DEF Statuses
    <2> HIDE DEF moving, final
    <2>3. QED
      BY <1>2, <2>1, <2>2, MoveOutcome
  <1>3. QED
    BY <1>1, <1>2 DEF RedirectInspection
LEMMA ClearHazardOutcome ==
  ASSUME NEW p, PageInv(p), NEW text
  PROVE  Outcome(p, text, Done(ClearMaintenanceHazard(p)))
  <1>1. CASE p.hazard # "active"
    BY <1>1, SamePage, DoneOutcome DEF ClearMaintenanceHazard
  <1>2. CASE p.hazard = "active"
    <2> DEFINE devices ==
                 [d \in Devices |->
                    IF d \in Mowers /\ p.devices[d].status = "HOLDING"
                       /\ p.devices[d].zone # HazardZone
                    THEN At("MOWING", p.devices[d].zone) ELSE p.devices[d]]
               q == [p EXCEPT !.hazard = "cleared"]
    <2>1. p \in Pages /\ p.devices \in [Devices -> DeviceStates] /\ Mowers \subseteq Devices
      BY DeviceNames DEF PageInv, Pages
    <2>2. ASSUME NEW d \in Devices
          PROVE  devices[d] \in DeviceStates /\ devices[d].zone = p.devices[d].zone
      <3>1. "MOWING" \in Statuses /\ p.devices[d] \in DeviceStates /\ p.devices[d].zone \in Places
        BY <2>1 DEF Statuses, DeviceStates
      <3>2. QED
        BY <3>1, StateOf
    <2>3. devices \in [Devices -> DeviceStates]
      BY <2>2
    <2>4. /\ q \in Pages /\ q.intervals = p.intervals /\ q.timer = p.timer
          /\ q.cursor = p.cursor /\ q.mode = p.mode /\ q.authorized = p.authorized
          /\ q.incidentActive = p.incidentActive /\ q.devices = p.devices
          /\ q.deviceTimers = p.deviceTimers
      BY <2>1 DEF Pages
    <2>5. ClearMaintenanceHazard(p) = [q EXCEPT !.devices = devices]
      BY <1>2 DEF ClearMaintenanceHazard
    <2> HIDE DEF q
    <2>6. PageInv(q)
      BY <2>4 DEF PageInv
    <2>7. \A m \in Mowers : devices[m].zone = HazardZone => q.devices[m].zone = HazardZone
      BY <2>1, <2>2, <2>4
    <2> HIDE DEF devices
    <2>8. /\ Follows(q, ClearMaintenanceHazard(p))
          /\ ClearMaintenanceHazard(p).authorized = q.authorized
      BY <2>3, <2>5, <2>6, <2>7, DevicesSet
    <2>9. Follows(p, ClearMaintenanceHazard(p))
      BY <2>4, <2>8 DEF Follows, NobodyEnters
    <2>10. QED
      BY <2>4, <2>8, <2>9, DoneOutcome
  <1>3. QED
    BY <1>1, <1>2

LEMMA ClearEmergencyOutcome ==
  ASSUME NEW p, PageInv(p), NEW text
  PROVE  Outcome(p, text, Done(ClearEmergency(p)))
  <1>1. CASE p.mode # "EMERGENCY" \/ ~p.incidentActive
    BY <1>1, SamePage, DoneOutcome DEF ClearEmergency
  <1>2. CASE p.mode = "EMERGENCY" /\ p.incidentActive
    <2> DEFINE q == ClearEmergency(p)
               c == [p EXCEPT !.intervals = {}]
    <2>1. p \in Pages /\ NoTimer \in Nat
      BY DEF PageInv, NoTimer
    <2>2. c \in Pages /\ c.intervals = {} /\ ClearTimer(p) = c
      BY <2>1, TimerCleared DEF Pages
    <2>3. q = [c EXCEPT !.timer = NoTimer, !.deviceTimers = {},
                        !.cursor = Daily, !.mode = "NORMAL",
                        !.devices = InitialDevices, !.incidentActive = FALSE,
                        !.authorized = FALSE, !.deferred = FALSE]
      BY <1>2, <2>2 DEF ClearEmergency
    <2>4. Daily \in Steps /\ ModeOf(Daily) = "NORMAL"
      BY StepNumbers DEF ModeOf
    <2> HIDE DEF c
    <2>5. /\ q \in Pages /\ q.intervals = {} /\ q.deviceTimers = {} /\ q.cursor = Daily
          /\ q.mode = "NORMAL" /\ ~q.incidentActive /\ ~q.authorized
          /\ q.devices = InitialDevices
      BY <2>1, <2>2, <2>3, <2>4, InitialDevicesTyped DEF Pages
    <2> HIDE DEF q
    <2>6. PageInv(q)
      BY <2>4, <2>5, StepNumbers DEF PageInv
    <2>7. NobodyEnters(p, q)
      BY <2>5, InitialDevicesTyped DEF NobodyEnters
    <2>8. Done(q).page = q /\ Done(q).then = Finished /\ Finished.kind = "finished"
      BY DEF Done, Finished
    <2>9. Outcome(p, text, Done(q))
      BY <2>5, <2>6, <2>7, <2>8 DEF Outcome, OpenWay
    <2>10. QED
      BY <2>9 DEF q
  <1>3. QED
    BY <1>1, <1>2

LEMMA TransitionFollows ==
  ASSUME NEW p, PageInv(p), NEW intent \in DOMAIN Transitions
  PROVE  /\ Follows(p, FollowTransition(p, intent))
         /\ FollowTransition(p, intent).authorized = p.authorized
  <1>1. p \in Pages
    BY DEF PageInv
  <1>2. CASE p.cursor # Transitions[intent][1]
    BY <1>2, SamePage DEF FollowTransition
  <1>3. CASE p.cursor = Transitions[intent][1]
    <2> DEFINE step == Transitions[intent][2]
    <2>1. /\ step \in Steps /\ ~(step >= Reconfigure) /\ ~(p.cursor >= Reconfigure)
          /\ step >= StormEvent <=> p.cursor >= StormEvent
      BY <1>3, StepNumbers DEF Transitions
    <2> HIDE DEF step
    <2>2. \A i \in p.intervals : MayRunAt(i, step)
      BY <1>1, <2>1, StepNumbers DEF PageInv, MayRunAt, Pages
    <2>3. Follows(p, Enter(p, step))
      BY <2>1, <2>2, EnterFollows DEF PageInv
    <2>4. FollowTransition(p, intent) = Enter(p, step)
      BY <1>3 DEF FollowTransition, step
    <2>5. QED
      BY <1>1, <2>1, <2>3, <2>4, EnterChanges
  <1>4. QED
    BY <1>2, <1>3

---------------------------------------------------------------------------
(* Detection *)

IntentNames ==
  {"ANSWER", "RETURN_MACHINE_TO_BASE", "ASSIGN_MOWING_ZONE", "REDIRECT_INSPECTION",
   "CLEAR_MAINTENANCE_HAZARD", "CLEAR_EMERGENCY", "INJECT_THUNDERSTORM", "APPROVE_EMERGENCY",
   "DEFER_EMERGENCY", "START_INSPECTION", "CREATE_MAINTENANCE_TASK", "ASSESS_RISK",
   "PREPARE_EMERGENCY_ORGANIZATION", "REQUEST_AUTHORIZATION"}

\* Rules that take for an approval only what says so.
HonestRules ==
  {r \in [needs : SUBSET Cues, intent : IntentNames] :
     r.intent = "APPROVE_EMERGENCY" => r.needs = {"approve"}}

LEMMA HonestRule ==
  ASSUME NEW needs \in SUBSET Cues, NEW intent \in IntentNames,
         intent = "APPROVE_EMERGENCY" => needs = {"approve"}
  PROVE  Rule(needs, intent) \in HonestRules
  BY DEF Rule, HonestRules

LEMMA ConsoleRulesAreHonest == ConsoleRules \in Seq(HonestRules) /\ Len(ConsoleRules) = 14
  <1>1. ClearanceRules \in Seq(HonestRules) /\ Len(ClearanceRules) = 2
    <2>1. /\ Rule({"cleared"}, "CLEAR_MAINTENANCE_HAZARD") \in HonestRules
          /\ Rule({"allclear"}, "CLEAR_EMERGENCY") \in HonestRules
      BY HonestRule DEF IntentNames, Cues
    <2>2. QED
      BY <2>1 DEF ClearanceRules
  <1>2. DecisionRules \in Seq(HonestRules) /\ Len(DecisionRules) = 2
    <2>1. /\ Rule({"approve"}, "APPROVE_EMERGENCY") \in HonestRules
          /\ Rule({"defer"}, "DEFER_EMERGENCY") \in HonestRules
      BY HonestRule DEF IntentNames, Cues
    <2>2. QED
      BY <2>1 DEF DecisionRules
  <1>3. MovementRules \in Seq(HonestRules) /\ Len(MovementRules) = 4
    <2>1. /\ Rule({"mower", "home"}, "RETURN_MACHINE_TO_BASE") \in HonestRules
          /\ Rule({"mower", "go"}, "ASSIGN_MOWING_ZONE") \in HonestRules
          /\ Rule({"drone", "go"}, "REDIRECT_INSPECTION") \in HonestRules
          /\ Rule({"inspect", "go"}, "REDIRECT_INSPECTION") \in HonestRules
      BY HonestRule DEF IntentNames, Cues
    <2>2. QED
      BY <2>1 DEF MovementRules
  <1>4. ScenarioRules \in Seq(HonestRules) /\ Len(ScenarioRules) = 6
    <2>1. /\ Rule({"start"}, "START_INSPECTION") \in HonestRules
          /\ Rule({"task"}, "CREATE_MAINTENANCE_TASK") \in HonestRules
          /\ Rule({"storm"}, "INJECT_THUNDERSTORM") \in HonestRules
          /\ Rule({"assess"}, "ASSESS_RISK") \in HonestRules
          /\ Rule({"organize"}, "PREPARE_EMERGENCY_ORGANIZATION") \in HonestRules
          /\ Rule({"request"}, "REQUEST_AUTHORIZATION") \in HonestRules
      BY HonestRule DEF IntentNames, Cues
    <2>2. QED
      BY <2>1 DEF ScenarioRules
  <1> HIDE DEF HonestRules
  <1>5. QED
    <2> DEFINE four == ClearanceRules \o DecisionRules
               eight == four \o MovementRules
    <2> HIDE DEF HonestRules
    <2>1. four \in Seq(HonestRules) /\ Len(four) = 4
      <3>1. /\ ClearanceRules \o DecisionRules \in Seq(HonestRules)
            /\ Len(ClearanceRules \o DecisionRules) = Len(ClearanceRules) + Len(DecisionRules)
        BY <1>1, <1>2, ConcatProperties, Zenon
      <3>2. QED
        BY <1>1, <1>2, <3>1 DEF four
    <2> HIDE DEF four
    <2>2. eight \in Seq(HonestRules) /\ Len(eight) = 8
      <3>1. /\ four \o MovementRules \in Seq(HonestRules)
            /\ Len(four \o MovementRules) = Len(four) + Len(MovementRules)
        BY <1>3, <2>1, ConcatProperties, Zenon
      <3>2. QED
        BY <1>3, <2>1, <3>1 DEF eight
    <2> HIDE DEF eight
    <2>3. eight \o ScenarioRules \in Seq(HonestRules) /\ Len(eight \o ScenarioRules) = 14
      <3>1. /\ eight \o ScenarioRules \in Seq(HonestRules)
            /\ Len(eight \o ScenarioRules) = Len(eight) + Len(ScenarioRules)
        BY <1>4, <2>2, ConcatProperties, Zenon
      <3>2. QED
        BY <1>4, <2>2, <3>1
    <2>4. QED
      BY <2>3 DEF ConsoleRules, four, eight

\* A nonempty set of the numbers of rules has a least one.
LEMMA LeastNumber ==
  ASSUME NEW S \in SUBSET (1..14), S # {}
  PROVE  \E i \in S : \A j \in S : i <= j
  <1> SUFFICES ASSUME \A i \in S : \E j \in S : j < i
               PROVE  FALSE
    OBVIOUS
  <1>1. 1 \notin S /\ 2 \notin S /\ 3 \notin S
    OBVIOUS
  <1>2. 4 \notin S /\ 5 \notin S /\ 6 \notin S
    BY <1>1
  <1>3. 7 \notin S /\ 8 \notin S /\ 9 \notin S
    BY <1>1, <1>2
  <1>4. 10 \notin S /\ 11 \notin S /\ 12 \notin S
    BY <1>1, <1>2, <1>3
  <1>5. 13 \notin S
    BY <1>1, <1>2, <1>3, <1>4
  <1>6. 14 \notin S
    BY <1>1, <1>2, <1>3, <1>4, <1>5
  <1>7. \A i \in 1..14 : i \notin S
    BY <1>1, <1>2, <1>3, <1>4, <1>5, <1>6
  <1>8. QED
    BY <1>7, Zenon

\* What the page reads from a text is an intent it can apply, and an approval
\* only if the text says so.
LEMMA ConsoleIntents ==
  ASSUME NEW text
  PROVE  /\ ConsoleIntent(text) \in IntentNames
         /\ ConsoleIntent(text) = "APPROVE_EMERGENCY" => "approve" \in text.cues
  <1> DEFINE hits == {i \in DOMAIN ConsoleRules : ConsoleRules[i].needs \subseteq text.cues}
             first == CHOOSE i \in hits : \A j \in hits : i <= j
  <1>1. /\ DOMAIN ConsoleRules = 1..14
        /\ \A i \in DOMAIN ConsoleRules : ConsoleRules[i] \in HonestRules
    <2>1. \A s \in Seq(HonestRules) :
            /\ DOMAIN s = 1..Len(s)
            /\ \A i \in DOMAIN s : s[i] \in HonestRules
      OBVIOUS
    <2>2. QED
      BY <2>1, ConsoleRulesAreHonest
  <1>2. CASE hits = {}
    <2>1. ConsoleIntent(text) = "ANSWER"
      BY <1>2 DEF ConsoleIntent, Detect
    <2>2. QED
      BY <2>1 DEF IntentNames
  <1>3. CASE hits # {}
    <2>1. hits \in SUBSET (1..14)
      BY <1>1
    <2>2. \E i \in hits : \A j \in hits : i <= j
      <3> HIDE DEF hits
      <3>1. QED
        BY <1>3, <2>1, LeastNumber
    <2>3. first \in hits
      <3> HIDE DEF hits
      <3>1. QED
        BY <2>2
    <2>4. ConsoleIntent(text) = ConsoleRules[first].intent
      BY <1>3 DEF ConsoleIntent, Detect
    <2> HIDE DEF first
    <2>5. ConsoleRules[first] \in HonestRules /\ ConsoleRules[first].needs \subseteq text.cues
      BY <1>1, <2>3
    <2>6. QED
      BY <2>4, <2>5 DEF HonestRules
  <1>4. QED
    BY <1>2, <1>3

---------------------------------------------------------------------------
(* What a message makes of a page *)

LEMMA TransitionNames ==
  DOMAIN Transitions =
    {"START_INSPECTION", "CREATE_MAINTENANCE_TASK", "ASSESS_RISK",
     "PREPARE_EMERGENCY_ORGANIZATION", "REQUEST_AUTHORIZATION"}
  BY DEF Transitions

LEMMA IntentOutcome ==
  ASSUME NEW p, PageInv(p), NEW text \in OperatorTexts, NEW intent \in IntentNames,
         intent = "APPROVE_EMERGENCY" => "approve" \in text.cues,
         NEW o \in ApplyRuntimeIntent(p, text, intent)
  PROVE  Outcome(p, text, o)
  <1>1. CASE intent = "ANSWER"
    <2>1. o = Done(p)
      BY <1>1, TransitionNames DEF ApplyRuntimeIntent
    <2>2. QED
      BY <2>1, SamePage, DoneOutcome
  <1>2. CASE intent = "RETURN_MACHINE_TO_BASE"
    <2>1. o \in ReturnMachineToBase(p, text)
      BY <1>2, TransitionNames DEF ApplyRuntimeIntent
    <2>2. QED
      BY <2>1, ReturnOutcome
  <1>3. CASE intent = "ASSIGN_MOWING_ZONE"
    <2>1. o \in AssignMowingZone(p, text)
      BY <1>3, TransitionNames DEF ApplyRuntimeIntent
    <2>2. QED
      BY <2>1, AssignOutcome
  <1>4. CASE intent = "REDIRECT_INSPECTION"
    <2>1. o \in RedirectInspection(p, text)
      BY <1>4, TransitionNames DEF ApplyRuntimeIntent
    <2>2. QED
      BY <2>1, RedirectOutcome
  <1>5. CASE intent = "CLEAR_MAINTENANCE_HAZARD"
    <2>1. o = Done(ClearMaintenanceHazard(p))
      BY <1>5, TransitionNames DEF ApplyRuntimeIntent
    <2>2. QED
      BY <2>1, ClearHazardOutcome
  <1>6. CASE intent = "CLEAR_EMERGENCY"
    <2>1. o = Done(ClearEmergency(p))
      BY <1>6, TransitionNames DEF ApplyRuntimeIntent
    <2>2. QED
      BY <2>1, ClearEmergencyOutcome
  <1>7. CASE intent = "INJECT_THUNDERSTORM"
    <2>1. o = Done(InjectThunderstorm(p))
      BY <1>7, TransitionNames DEF ApplyRuntimeIntent
    <2>2. QED
      BY <2>1, StormFollows, DoneOutcome
  <1>8. CASE intent = "APPROVE_EMERGENCY"
    <2>1. o = Done(AuthorizeByChat(p))
      BY <1>8, TransitionNames DEF ApplyRuntimeIntent
    <2>2. QED
      BY <1>8, <2>1, AuthorizeFollows, DoneOutcome
  <1>9. CASE intent = "DEFER_EMERGENCY"
    <2>1. o = Done(DeferEmergency(p))
      BY <1>9, TransitionNames DEF ApplyRuntimeIntent
    <2>2. QED
      BY <2>1, DeferFollows, DoneOutcome
  <1>10. CASE intent \in DOMAIN Transitions
    <2>1. o = Done(FollowTransition(p, intent))
      BY <1>10, TransitionNames DEF ApplyRuntimeIntent
    <2>2. QED
      BY <1>10, <2>1, TransitionFollows, DoneOutcome
  <1>11. QED
    BY <1>1, <1>2, <1>3, <1>4, <1>5, <1>6, <1>7, <1>8, <1>9, <1>10, TransitionNames DEF IntentNames

LEMMA MockOutcome ==
  ASSUME NEW p, PageInv(p), NEW text \in OperatorTexts,
         NEW o \in HandleMockWorkerMessage(p, text)
  PROVE  Outcome(p, text, o)
  <1>1. InferMockIntent[text] = ConsoleIntent(text)
    BY DEF InferMockIntent
  <1>2. QED
    BY <1>1, ConsoleIntents, IntentOutcome DEF HandleMockWorkerMessage

\* Whatever intent the model replies with.
LEMMA ModelOutcome ==
  ASSUME NEW p, PageInv(p), NEW text \in OperatorTexts, NEW intent,
         NEW o \in ApplyModelIntent(p, text, intent)
  PROVE  Outcome(p, text, o)
  <1>1. InferMockIntent[text] = ConsoleIntent(text)
    BY DEF InferMockIntent
  <1>2. CASE intent = "ANSWER" \/ intent # InferMockIntent[text]
    <2>1. o = Done(p)
      BY <1>2 DEF ApplyModelIntent
    <2>2. QED
      BY <2>1, SamePage, DoneOutcome
  <1>3. CASE ~(intent = "ANSWER" \/ intent # InferMockIntent[text])
    <2>1. intent = ConsoleIntent(text) /\ o \in ApplyRuntimeIntent(p, text, intent)
      BY <1>1, <1>3 DEF ApplyModelIntent
    <2>2. QED
      BY <2>1, ConsoleIntents, IntentOutcome
  <1>4. QED
    BY <1>2, <1>3

\* What is handled twice has the outcome of one that is handled once.
LEMMA HandleOutcome ==
  ASSUME NEW p, PageInv(p), NEW text \in OperatorTexts, NEW reply,
         NEW o \in Handle(p, text, reply)
  PROVE  Outcome(p, text, o)
  <1>1. CASE reply.ok
    <2>1. PICK a \in ApplyModelIntent(p, text, reply.intent) :
            o \in IF a.then = Thrown THEN HandleMockWorkerMessage(a.page, text) ELSE {a}
      BY <1>1 DEF Handle
    <2>2. Outcome(p, text, a)
      BY ModelOutcome
    <2>3. CASE a.then = Thrown
      <3>1. Outcome(a.page, text, o)
        BY <2>1, <2>2, <2>3, MockOutcome DEF Outcome
      <3>2. QED
        BY <2>2, <3>1 DEF Outcome, NobodyEnters
    <2>4. CASE a.then # Thrown
      BY <2>1, <2>2, <2>4
    <2>5. QED
      BY <2>3, <2>4
  <1>2. CASE ~reply.ok
    BY <1>2, MockOutcome DEF Handle
  <1>3. QED
    BY <1>1, <1>2

---------------------------------------------------------------------------
(* What a timer makes of a page *)

\* The devices and the live timers of a page may change freely.
LEMMA AnyDevices ==
  ASSUME NEW p, PageInv(p), NEW devices \in [Devices -> DeviceStates]
  PROVE  /\ PageInv([p EXCEPT !.devices = devices])
         /\ [p EXCEPT !.devices = devices].devices = devices
         /\ [p EXCEPT !.devices = devices].deviceTimers = p.deviceTimers
         /\ [p EXCEPT !.devices = devices].authorized = p.authorized
         /\ [p EXCEPT !.devices = devices].hazard = p.hazard
  <1> DEFINE q == [p EXCEPT !.devices = devices]
  <1>1. /\ q \in Pages /\ q.intervals = p.intervals /\ q.timer = p.timer /\ q.hazard = p.hazard
        /\ q.cursor = p.cursor /\ q.mode = p.mode /\ q.authorized = p.authorized
        /\ q.incidentActive = p.incidentActive /\ q.devices = devices
        /\ q.deviceTimers = p.deviceTimers
    BY DEF Pages, PageInv
  <1> HIDE DEF q
  <1>2. PageInv(q)
    BY <1>1 DEF PageInv
  <1>3. QED
    BY <1>1, <1>2 DEF q

LEMMA AnyTimers ==
  ASSUME NEW p, PageInv(p), NEW timers \in SUBSET (0..MaxResets)
  PROVE  /\ PageInv([p EXCEPT !.deviceTimers = timers])
         /\ [p EXCEPT !.deviceTimers = timers].deviceTimers = timers
         /\ [p EXCEPT !.deviceTimers = timers].devices = p.devices
         /\ [p EXCEPT !.deviceTimers = timers].authorized = p.authorized
         /\ [p EXCEPT !.deviceTimers = timers].hazard = p.hazard
  <1> DEFINE q == [p EXCEPT !.deviceTimers = timers]
  <1>1. /\ q \in Pages /\ q.intervals = p.intervals /\ q.timer = p.timer /\ q.hazard = p.hazard
        /\ q.cursor = p.cursor /\ q.mode = p.mode /\ q.authorized = p.authorized
        /\ q.incidentActive = p.incidentActive /\ q.devices = p.devices
        /\ q.deviceTimers = timers
    BY DEF Pages, PageInv
  <1> HIDE DEF q
  <1>2. PageInv(q)
    BY <1>1 DEF PageInv
  <1>3. QED
    BY <1>1, <1>2 DEF q

\* Only the interval of the page changes, and may run where the page is.
LEMMA IntervalsSet ==
  ASSUME NEW p, PageInv(p), NEW timer \in Nat, NEW intervals \in SUBSET Intervals,
         \A i, j \in intervals : i = j /\ i.id = timer,
         \A i \in intervals : MayRunAt(i, p.cursor)
  PROVE  LET q == [p EXCEPT !.timer = timer, !.intervals = intervals]
         IN /\ Follows(p, q)
            /\ q.authorized = p.authorized /\ q.hazard = p.hazard
  <1> DEFINE q == [p EXCEPT !.timer = timer, !.intervals = intervals]
  <1>1. /\ q \in Pages /\ q.intervals = intervals /\ q.timer = timer /\ q.hazard = p.hazard
        /\ q.cursor = p.cursor /\ q.mode = p.mode /\ q.authorized = p.authorized
        /\ q.incidentActive = p.incidentActive /\ q.devices = p.devices
        /\ q.deviceTimers = p.deviceTimers
    BY DEF Pages, PageInv
  <1> HIDE DEF q
  <1>2. PageInv(q)
    BY <1>1 DEF PageInv
  <1>3. QED
    BY <1>1, <1>2 DEF Follows, NobodyEnters, q

LEMMA TickFollows ==
  ASSUME NEW p, PageInv(p), NEW i \in p.intervals
  PROVE  /\ Follows(p, Ticked(p, i))
         /\ Ticked(p, i).authorized = p.authorized
         /\ Ticked(p, i).hazard = p.hazard
  <1>1. /\ p \in Pages /\ i \in Intervals /\ p.intervals = {i} /\ i.id = p.timer
        /\ i.next \in 0..3 /\ MayRunAt(i, p.cursor) /\ p.cursor \in 0..13
    BY StepNumbers DEF PageInv, Pages, Intervals
  <1>2. CASE i.kind = "assess" /\ i.next < 3
    <2> DEFINE step == Risk + i.next
               j == [i EXCEPT !.next = @ + 1]
               q == Enter(p, step)
               r == [q EXCEPT !.timer = p.timer, !.intervals = {j}]
    <2>1. /\ step \in Steps /\ step \in StormEvent..Approval
          /\ step \notin {Inspection, DailyProposal}
      BY <1>1, <1>2, StepNumbers
    <2>2. ~p.authorized /\ p.incidentActive
      BY <1>1, <1>2, StepNumbers DEF PageInv, MayRunAt
    <2>3. j \in Intervals /\ j.kind = "assess" /\ j.id = i.id
      BY <1>1, <1>2 DEF Intervals
    <2> HIDE DEF step, j
    <2>4. Follows(p, q)
      <3>1. \A k \in p.intervals : MayRunAt(k, step)
        BY <1>1, <1>2, <2>1 DEF MayRunAt
      <3>2. ~(step >= Reconfigure) /\ step >= StormEvent
        BY <2>1, StepNumbers
      <3>3. QED
        BY <2>1, <2>2, <3>1, <3>2, EnterFollows
    <2>5. /\ q \in Pages /\ q.timer = p.timer /\ q.intervals = {i} /\ q.cursor = step
          /\ q.authorized = p.authorized /\ q.hazard = p.hazard
      BY <1>1, <2>1, EnterChanges
    <2> HIDE DEF q
    <2>6. Follows(q, r) /\ r.authorized = q.authorized /\ r.hazard = q.hazard
      <3>1. p.timer \in Nat /\ {j} \in SUBSET Intervals
        BY <1>1, <2>3 DEF Pages
      <3>2. \A k, l \in {j} : k = l /\ k.id = p.timer
        BY <1>1, <2>3
      <3>3. \A k \in {j} : MayRunAt(k, q.cursor)
        BY <2>1, <2>3, <2>5 DEF MayRunAt
      <3>4. PageInv(q)
        BY <2>4 DEF Follows
      <3>5. QED
        BY <3>1, <3>2, <3>3, <3>4, IntervalsSet
    <2>7. Ticked(p, i) = r
      <3>1. Ticked(p, i) = [q EXCEPT !.intervals = (@ \ {i}) \cup {j}]
        BY <1>2 DEF Ticked, q, step, j
      <3>2. (q.intervals \ {i}) \cup {j} = {j}
        BY <2>5
      <3>3. r = [q EXCEPT !.intervals = {j}]
        BY <2>5 DEF Pages
      <3>4. QED
        BY <3>1, <3>2, <3>3
    <2> HIDE DEF r
    <2>8. QED
      BY <2>4, <2>5, <2>6, <2>7 DEF Follows, NobodyEnters
  <1>3. CASE i.kind = "remaining" /\ p.cursor < ShelterVerified
    <2> DEFINE step == p.cursor + 1
    <2>1. /\ step \in Steps /\ step >= Reconfigure /\ step >= StormEvent
          /\ step \notin {Inspection, DailyProposal}
      BY <1>1, <1>3, StepNumbers DEF MayRunAt
    <2>2. p.authorized /\ p.incidentActive
      BY <1>1, <1>3, StepNumbers DEF PageInv, MayRunAt
    <2>3. \A k \in p.intervals : MayRunAt(k, step)
      BY <1>1, <1>3, <2>1 DEF MayRunAt
    <2>4. Ticked(p, i) = Enter(p, step)
      BY <1>3 DEF Ticked
    <2> HIDE DEF step
    <2>5. Follows(p, Enter(p, step))
      BY <2>1, <2>2, <2>3, EnterFollows
    <2>6. QED
      BY <1>1, <2>1, <2>4, <2>5, EnterChanges
  <1>4. CASE /\ ~(i.kind = "assess" /\ i.next < 3)
             /\ ~(i.kind = "remaining" /\ p.cursor < ShelterVerified)
    <2> DEFINE q == [p EXCEPT !.timer = NoTimer, !.intervals = {}]
    <2>1. Ticked(p, i) = Ended(p)
      BY <1>4 DEF Ticked
    <2>2. Ended(p) = q
      BY <1>1, TimerCleared DEF Ended, Pages
    <2>3. NoTimer \in Nat /\ {} \in SUBSET Intervals
      BY DEF NoTimer
    <2>4. Follows(p, q) /\ q.authorized = p.authorized /\ q.hazard = p.hazard
      BY <2>3, IntervalsSet
    <2>5. QED
      BY <2>1, <2>2, <2>4
  <1>5. QED
    BY <1>2, <1>3, <1>4

---------------------------------------------------------------------------
(* The inductive invariant *)

Works == {Idle, Asked, Thrown} \cup Routes
Chains == [0..MaxResets -> [work : Works, waiting : 0..MaxWaiting]]

ConsoleInv ==
  /\ TypeOK
  /\ PageInv(page)
  /\ QueueWaitsOnLiveWork
  /\ page.authorized => consent
  /\ \A g \in 0..MaxResets : g > generation => chains[g] = Empty
  /\ \A g \in 0..MaxResets : g < generation => chains[g].work.kind # "route"
  /\ OpenWay(chains[generation].work, page)

\* What no step may do.
ConsoleStep ==
  /\ \A m \in Mowers : page.hazard = "active" /\ page.devices[m].zone # HazardZone
                          => page'.devices[m].zone # HazardZone
  /\ \A g \in 0..MaxResets : g < generation /\ chains'[g] # chains[g] => UNCHANGED page

LEMMA WorkKinds ==
  /\ Idle \in Works /\ Asked \in Works /\ Thrown \in Works
  /\ Idle.kind # "route" /\ Asked.kind # "route" /\ Thrown.kind # "route"
  /\ Finished.kind # "route" /\ Finished # Thrown
  /\ \A r \in Routes : r.kind = "route" /\ r # Finished /\ r # Thrown
  /\ \A w \in Works : w.kind = "route" <=> w \in Routes
  BY DEF Works, Routes, Idle, Asked, Thrown, Finished

LEMMA EmptyChain ==
  /\ Empty \in [work : Works, waiting : 0..MaxWaiting]
  /\ Empty.work.kind # "route"
  BY WorkKinds, ConsoleAssumption DEF Empty

LEMMA InitInv == Init => ConsoleInv
  <1> SUFFICES ASSUME Init
               PROVE  ConsoleInv
    OBVIOUS
  <1>1. /\ page = InitialPage /\ generation = 0 /\ consent = FALSE
        /\ chains = [g \in 0..MaxResets |-> Empty]
    BY DEF Init
  <1>2. InitialPage \in Pages
    BY StepNumbers, InitialDevicesTyped DEF InitialPage, Pages, ModeOf, NoTimer
  <1>3. /\ PageInv(InitialPage) /\ ~InitialPage.authorized /\ InitialPage.deviceTimers = {}
    BY <1>2, StepNumbers DEF InitialPage, PageInv
  <1>4. 0 \in 0..MaxResets /\ chains \in Chains
    BY <1>1, EmptyChain, ConsoleAssumption DEF Chains
  <1>5. TypeOK
    BY <1>1, <1>2, <1>4 DEF TypeOK, Chains, Works
  <1>6. \A g \in 0..MaxResets : chains[g] = Empty /\ chains[g].work.kind # "route"
    BY <1>1, EmptyChain
  <1>7. QueueWaitsOnLiveWork
    BY <1>1, <1>3, <1>4, <1>6 DEF QueueWaitsOnLiveWork
  <1>8. OpenWay(chains[generation].work, page)
    BY <1>1, <1>4, <1>6 DEF OpenWay
  <1>9. QED
    BY <1>1, <1>3, <1>5, <1>6, <1>7, <1>8, ConsoleAssumption DEF ConsoleInv

\* What the invariant says of a state, with the types spelled out.
LEMMA Known ==
  ASSUME ConsoleInv
  PROVE  /\ page \in Pages /\ page.devices \in [Devices -> DeviceStates]
         /\ generation \in 0..MaxResets /\ generation \in Nat
         /\ chains \in Chains /\ consent \in BOOLEAN
         /\ \A g \in 0..MaxResets : /\ chains[g].work \in Works
                                    /\ chains[g].waiting \in 0..MaxWaiting
         /\ page.deviceTimers =
              IF chains[generation].work.kind = "route" THEN {generation} ELSE {}
         /\ Mowers \subseteq Devices
  BY DeviceNames, ConsoleAssumption
  DEF ConsoleInv, TypeOK, Chains, Works, PageInv, Pages, QueueWaitsOnLiveWork

\* A new page of the same generation, whose queue may be new too.
LEMMA NextInv ==
  ASSUME ConsoleInv, UNCHANGED generation, PageInv(page'),
         NEW chain \in [work : Works, waiting : 0..MaxWaiting],
         chains' = [chains EXCEPT ![generation] = chain],
         page'.deviceTimers = IF chain.work.kind = "route" THEN {generation} ELSE {},
         consent' \in BOOLEAN, page'.authorized => consent',
         OpenWay(chain.work, page')
  PROVE  ConsoleInv'
  <1>1. /\ generation \in 0..MaxResets /\ chains \in Chains /\ page' \in Pages
        /\ generation \in Nat
    BY Known DEF PageInv
  <1>2. chains' \in Chains /\ chains'[generation] = chain
    BY <1>1 DEF Chains
  <1>3. TypeOK'
    BY <1>1, <1>2 DEF TypeOK, Chains, Works
  <1>4. \A g \in 0..MaxResets : g # generation => chains'[g] = chains[g]
    BY <1>1 DEF Chains
  <1>5. QueueWaitsOnLiveWork'
    BY <1>2 DEF QueueWaitsOnLiveWork
  <1>6. /\ \A g \in 0..MaxResets : g > generation' => chains'[g] = Empty
        /\ \A g \in 0..MaxResets : g < generation' => chains'[g].work.kind # "route"
    BY <1>1, <1>4 DEF ConsoleInv
  <1>7. (OpenWay(chains[generation].work, page))'
    BY <1>2 DEF OpenWay
  <1>8. QED
    BY <1>3, <1>5, <1>6, <1>7 DEF ConsoleInv, PageInv

---------------------------------------------------------------------------
(* The actions *)

LEMMA SendInv ==
  ASSUME ConsoleInv, Send
  PROVE  ConsoleInv' /\ ConsoleStep
  <1> DEFINE old == chains[generation]
  <1>1. /\ generation \in 0..MaxResets /\ generation \in Nat /\ chains \in Chains
        /\ old \in [work : Works, waiting : 0..MaxWaiting] /\ MaxWaiting \in Nat
    BY Known, ConsoleAssumption DEF Chains
  <1>2. UNCHANGED <<page, generation, consent>>
    BY DEF Send
  <1>3. PICK chain \in [work : Works, waiting : 0..MaxWaiting] :
          /\ chains' = [chains EXCEPT ![generation] = chain]
          /\ chain.work = old.work \/ (old.work = Idle /\ chain.work = Asked)
    <2>1. CASE old.work = Idle
      <3>1. chains' = [chains EXCEPT ![generation] = [old EXCEPT !.work = Asked]]
        <4>1. chains' = [chains EXCEPT ![generation].work = Asked]
          BY <2>1 DEF Send, Idle, Thrown
        <4>2. QED
          BY <1>1, <4>1 DEF Chains
      <3>2. /\ [old EXCEPT !.work = Asked] \in [work : Works, waiting : 0..MaxWaiting]
            /\ [old EXCEPT !.work = Asked].work = Asked
        BY <1>1, WorkKinds
      <3>3. QED
        BY <2>1, <3>1, <3>2
    <2>2. CASE old.work = Thrown
      <3>1. chains' = chains
        BY <2>2 DEF Send, Idle, Thrown
      <3>2. chains' = [chains EXCEPT ![generation] = old]
        BY <1>1, <3>1 DEF Chains
      <3>3. QED
        BY <1>1, <3>2
    <2>3. CASE old.work \notin {Idle, Thrown}
      <3> DEFINE chain == [old EXCEPT !.waiting = @ + 1]
      <3>1. /\ chains' = [chains EXCEPT ![generation] = chain]
            /\ old.waiting < MaxWaiting
        BY <1>1, <2>3 DEF Send, Chains
      <3>2. chain \in [work : Works, waiting : 0..MaxWaiting] /\ chain.work = old.work
        BY <1>1, <3>1
      <3>3. QED
        BY <3>1, <3>2
    <2>4. QED
      BY <2>1, <2>2, <2>3
  <1>4. /\ page'.deviceTimers = IF chain.work.kind = "route" THEN {generation} ELSE {}
        /\ OpenWay(chain.work, page')
    <2>1. CASE chain.work = old.work
      BY <1>2, <2>1, Known DEF ConsoleInv
    <2>2. CASE old.work = Idle /\ chain.work = Asked
      BY <1>2, <2>2, Known, WorkKinds DEF OpenWay
    <2>3. QED
      BY <1>3, <2>1, <2>2
  <1>5. /\ PageInv(page') /\ consent' \in BOOLEAN /\ (page'.authorized => consent')
    BY <1>2, Known DEF ConsoleInv
  <1>6. ConsoleInv'
    BY <1>2, <1>3, <1>4, <1>5, NextInv
  <1>7. ConsoleStep
    BY <1>2 DEF ConsoleStep
  <1>8. QED
    BY <1>6, <1>7

\* The reply to what was asked before a reset.
LEMMA StaleReplyInv ==
  ASSUME ConsoleInv, NEW g \in 0..MaxResets, Reply(g), g # generation
  PROVE  ConsoleInv' /\ ConsoleStep
  <1>1. UNCHANGED <<page, generation, consent>> /\ chains' = [chains EXCEPT ![g] = Empty]
    BY DEF Reply, IsDropped, Resumed
  <1>2. chains' \in Chains /\ chains'[generation] = chains[generation]
    BY <1>1, Known, EmptyChain DEF Chains
  <1>3. \A h \in 0..MaxResets : chains'[h] = chains[h] \/ chains'[h] = Empty
    BY <1>1, Known DEF Chains
  <1>4. TypeOK'
    BY <1>1, <1>2 DEF ConsoleInv, TypeOK, Chains, Works
  <1>5. QueueWaitsOnLiveWork'
    BY <1>1, <1>2 DEF ConsoleInv, QueueWaitsOnLiveWork
  <1>6. /\ \A h \in 0..MaxResets : h > generation' => chains'[h] = Empty
        /\ \A h \in 0..MaxResets : h < generation' => chains'[h].work.kind # "route"
    BY <1>1, <1>3, EmptyChain DEF ConsoleInv
  <1>7. PageInv(page)' /\ (page.authorized => consent)'
        /\ OpenWay(chains[generation].work, page)'
    BY <1>1, <1>2 DEF ConsoleInv
  <1>8. ConsoleInv'
    BY <1>4, <1>5, <1>6, <1>7 DEF ConsoleInv
  <1>9. QED
    BY <1>1, <1>8 DEF ConsoleStep

LEMMA ReplyInv ==
  ASSUME ConsoleInv, Reply(generation)
  PROVE  ConsoleInv' /\ ConsoleStep
  <1> DEFINE g == generation
  <1> DEFINE Handled(text, o) ==
               /\ page' = IF o.then.kind = "route"
                          THEN [o.page EXCEPT !.deviceTimers = @ \cup {g}] ELSE o.page
               /\ chains' = [chains EXCEPT ![g] = After(g, o.then)]
               /\ consent' = ("approve" \in text.cues \/ (consent /\ o.page.authorized))
  <1>1. PICK text \in OperatorTexts :
          \E reply \in ChatReplies[text] : \E o \in Handle(page, text, reply) : Handled(text, o)
    BY DEF Reply, IsDropped
  <1>2. PICK reply, o : o \in Handle(page, text, reply) /\ Handled(text, o)
    BY <1>1
  <1>3. PageInv(page) /\ UNCHANGED generation /\ chains[g].work = Asked
    BY DEF ConsoleInv, Reply
  <1>4. Outcome(page, text, o)
    BY <1>2, <1>3, HandleOutcome
  <1>5. /\ g \in 0..MaxResets /\ page.deviceTimers = {} /\ o.page.deviceTimers = {}
        /\ o.page \in Pages /\ o.then \in {Finished, Thrown} \cup Routes
    BY <1>3, <1>4, Known, WorkKinds DEF Outcome, PageInv
  <1>6. /\ PageInv(page') /\ page'.devices = o.page.devices
        /\ page'.authorized = o.page.authorized /\ page'.hazard = o.page.hazard
        /\ page'.deviceTimers = IF o.then.kind = "route" THEN {g} ELSE {}
    <2>1. CASE o.then.kind = "route"
      <3>1. PageInv(o.page) /\ {g} \in SUBSET (0..MaxResets)
        BY <1>4, <1>5 DEF Outcome
      <3>2. page' = [o.page EXCEPT !.deviceTimers = {g}]
        BY <1>2, <1>5, <2>1
      <3>3. PageInv([o.page EXCEPT !.deviceTimers = {g}])
        BY <3>1, AnyTimers, Zenon
      <3>4. /\ [o.page EXCEPT !.deviceTimers = {g}].deviceTimers = {g}
            /\ [o.page EXCEPT !.deviceTimers = {g}].devices = o.page.devices
            /\ [o.page EXCEPT !.deviceTimers = {g}].authorized = o.page.authorized
            /\ [o.page EXCEPT !.deviceTimers = {g}].hazard = o.page.hazard
        BY <3>1, AnyTimers, Zenon
      <3>5. QED
        BY <2>1, <3>2, <3>3, <3>4
    <2>2. CASE o.then.kind # "route"
      BY <1>2, <1>4, <1>5, <2>2 DEF Outcome
    <2>3. QED
      BY <2>1, <2>2
  <1> DEFINE chain == After(g, o.then)
  <1>7. /\ chain \in [work : Works, waiting : 0..MaxWaiting]
        /\ chain.work.kind = "route" <=> o.then.kind = "route"
        /\ chain.work.kind = "route" => chain.work = o.then
    <2>1. /\ chains[g] \in [work : Works, waiting : 0..MaxWaiting]
          /\ chains[g].waiting \in 0..MaxWaiting /\ MaxWaiting \in Nat
      BY <1>5, Known, ConsoleAssumption DEF Chains
    <2>2. CASE o.then = Finished
      <3>1. chain = Resumed(g)
        BY <2>2, WorkKinds DEF After
      <3>2. \/ chain = Empty
            \/ /\ chain = [work |-> Asked, waiting |-> chains[g].waiting - 1]
               /\ chains[g].waiting # 0
        BY <3>1 DEF Resumed
      <3> HIDE DEF chain
      <3>3. CASE chain = Empty
        BY <2>2, <3>3, EmptyChain, WorkKinds
      <3>4. CASE /\ chain = [work |-> Asked, waiting |-> chains[g].waiting - 1]
                 /\ chains[g].waiting # 0
        <4>1. chains[g].waiting - 1 \in 0..MaxWaiting
          BY <2>1, <3>4
        <4>2. QED
          BY <2>2, <3>4, <4>1, WorkKinds
      <3>5. QED
        BY <3>2, <3>3, <3>4
    <2>3. CASE o.then = Thrown
      <3>1. chain = [work |-> Thrown, waiting |-> 0]
        BY <2>3, WorkKinds DEF After
      <3>2. QED
        BY <2>1, <2>3, <3>1, WorkKinds
    <2>4. CASE o.then \in Routes
      <3>1. chain = [chains[g] EXCEPT !.work = o.then]
        BY <2>4, WorkKinds DEF After
      <3>2. QED
        BY <2>1, <2>4, <3>1, WorkKinds DEF Works
    <2>5. QED
      BY <1>5, <2>2, <2>3, <2>4
  <1> HIDE DEF chain
  <1>8. consent' \in BOOLEAN /\ (page'.authorized => consent')
    <2>1. page.authorized => consent
      BY DEF ConsoleInv
    <2>2. o.page.authorized => page.authorized \/ "approve" \in text.cues
      BY <1>4 DEF Outcome
    <2>3. QED
      BY <1>2, <1>6, <2>1, <2>2, Zenon
  <1>9. OpenWay(chain.work, page')
    BY <1>4, <1>6, <1>7 DEF Outcome, OpenWay
  <1>10. chains' = [chains EXCEPT ![generation] = chain]
    BY <1>2 DEF chain
  <1>11. page'.deviceTimers = IF chain.work.kind = "route" THEN {generation} ELSE {}
    BY <1>6, <1>7
  <1>12. ConsoleInv'
    BY <1>3, <1>6, <1>7, <1>8, <1>9, <1>10, <1>11, NextInv
  <1>13. ConsoleStep
    <2>1. \A m \in Mowers : page'.devices[m].zone = HazardZone
                              => page.devices[m].zone = HazardZone
      BY <1>4, <1>6 DEF Outcome, NobodyEnters
    <2>2. \A h \in 0..MaxResets : h < generation => chains'[h] = chains[h]
      BY <1>10, Known DEF Chains
    <2>3. QED
      BY <2>1, <2>2 DEF ConsoleStep
  <1>14. QED
    BY <1>12, <1>13

LEMMA ResumedChain ==
  ASSUME ConsoleInv
  PROVE  /\ Resumed(generation) \in [work : Works, waiting : 0..MaxWaiting]
         /\ Resumed(generation).work.kind # "route"
  <1>1. CASE chains[generation].waiting = 0
    BY <1>1, EmptyChain DEF Resumed
  <1>2. CASE chains[generation].waiting # 0
    <2>1. chains[generation].waiting - 1 \in 0..MaxWaiting
      BY <1>2, Known, ConsoleAssumption
    <2>2. Resumed(generation) = [work |-> Asked, waiting |-> chains[generation].waiting - 1]
      BY <1>2 DEF Resumed
    <2>3. QED
      BY <2>1, <2>2, WorkKinds
  <1>3. QED
    BY <1>1, <1>2

\* A route that is over leaves its device as the timer put it.
LEMMA RouteOver ==
  ASSUME ConsoleInv, NEW devices \in [Devices -> DeviceStates],
         chains[generation].work.kind = "route",
         page' = [[page EXCEPT !.devices = devices]
                    EXCEPT !.deviceTimers = @ \ {generation}],
         chains' = [chains EXCEPT ![generation] = Resumed(generation)],
         UNCHANGED <<generation, consent>>
  PROVE  ConsoleInv' /\ page'.devices = devices
  <1> DEFINE p == [page EXCEPT !.devices = devices]
  <1>1. /\ PageInv(p) /\ p.devices = devices /\ p.deviceTimers = page.deviceTimers
        /\ p.authorized = page.authorized
    BY AnyDevices DEF ConsoleInv
  <1>2. p.deviceTimers \ {generation} = {} /\ {} \in SUBSET (0..MaxResets)
    BY <1>1, Known
  <1>3. page' = [p EXCEPT !.deviceTimers = {}]
    BY <1>2
  <1> HIDE DEF p
  <1>4. /\ PageInv(page') /\ page'.deviceTimers = {} /\ page'.devices = devices
        /\ page'.authorized = page.authorized
    <2>1. /\ PageInv([p EXCEPT !.deviceTimers = {}])
          /\ [p EXCEPT !.deviceTimers = {}].deviceTimers = {}
          /\ [p EXCEPT !.deviceTimers = {}].devices = p.devices
          /\ [p EXCEPT !.deviceTimers = {}].authorized = p.authorized
      BY <1>1, <1>2, AnyTimers, Zenon
    <2>2. QED
      BY <1>1, <1>3, <2>1
  <1>5. OpenWay(Resumed(generation).work, page')
    BY ResumedChain DEF OpenWay
  <1>6. consent' \in BOOLEAN /\ (page'.authorized => consent')
    BY <1>4, Known DEF ConsoleInv
  <1>7. page'.deviceTimers =
          IF Resumed(generation).work.kind = "route" THEN {generation} ELSE {}
    BY <1>4, ResumedChain
  <1>8. ConsoleInv'
    BY <1>4, <1>5, <1>6, <1>7, ResumedChain, NextInv
  <1>9. QED
    BY <1>4, <1>8

LEMMA DeviceTimerInv ==
  ASSUME ConsoleInv, NEW g \in 0..MaxResets, DeviceTimer(g)
  PROVE  ConsoleInv' /\ ConsoleStep
  <1> DEFINE route == chains[g].work
  <1>1. /\ g = generation /\ route \in Routes /\ chains[g].work.kind = "route"
        /\ UNCHANGED <<generation, consent>>
        /\ chains[g] \in [work : Works, waiting : 0..MaxWaiting]
        /\ page.devices \in [Devices -> DeviceStates]
    BY Known, WorkKinds DEF DeviceTimer, Chains
  <1>2. route.device \in Devices /\ route.final \in DeviceStates /\ route.legs \in {1, 2}
    BY <1>1 DEF Routes
  <1>3. CASE route.legs = 1
    <2> DEFINE devices == [page.devices EXCEPT ![route.device] = route.final]
    <2>1. EndRoute(g, [page EXCEPT !.devices[route.device] = route.final])
      BY <1>3 DEF DeviceTimer
    <2>2. /\ page' = [[page EXCEPT !.devices = devices]
                        EXCEPT !.deviceTimers = @ \ {generation}]
          /\ chains' = [chains EXCEPT ![generation] = Resumed(generation)]
      BY <1>1, <2>1 DEF EndRoute
    <2>3. devices \in [Devices -> DeviceStates]
      BY <1>1, <1>2
    <2>4. \A m \in Mowers : page.hazard = "active" /\ page.devices[m].zone # HazardZone
                              => devices[m].zone # HazardZone
      <3>1. route.device \in Mowers /\ route.final.zone = HazardZone => page.hazard # "active"
        BY <1>1 DEF ConsoleInv, OpenWay
      <3>2. QED
        BY <1>1, <1>2, <3>1, Known
    <2> HIDE DEF devices, route
    <2>5. ConsoleInv' /\ page'.devices = devices
      BY <1>1, <2>2, <2>3, RouteOver
    <2>6. \A h \in 0..MaxResets : h < generation => chains'[h] = chains[h]
      BY <2>2, Known DEF Chains
    <2>7. QED
      BY <2>4, <2>5, <2>6 DEF ConsoleStep
  <1>4. CASE /\ route.legs > 1
             /\ chains' = [chains EXCEPT ![g].work.legs = @ - 1]
             /\ UNCHANGED page
    <2> DEFINE chain == [chains[g] EXCEPT !.work.legs = @ - 1]
    <2>1. /\ chain \in [work : Works, waiting : 0..MaxWaiting]
          /\ chain.work \in Routes
          /\ chain.work.device = route.device /\ chain.work.final = route.final
      <3>1. /\ [route EXCEPT !.legs = @ - 1] \in Routes
            /\ [route EXCEPT !.legs = @ - 1].device = route.device
            /\ [route EXCEPT !.legs = @ - 1].final = route.final
        BY <1>1, <1>2, <1>4 DEF Routes
      <3>2. chain = [chains[g] EXCEPT !.work = [route EXCEPT !.legs = @ - 1]]
        OBVIOUS
      <3>3. QED
        BY <1>1, <3>1, <3>2 DEF Works
    <2>2. chains' = [chains EXCEPT ![generation] = chain]
      BY <1>1, <1>4
    <2> HIDE DEF chain
    <2>3. page'.deviceTimers = IF chain.work.kind = "route" THEN {generation} ELSE {}
      BY <1>1, <1>4, <2>1, WorkKinds, Known
    <2>4. OpenWay(chain.work, page')
      BY <1>1, <1>4, <2>1 DEF ConsoleInv, OpenWay
    <2>5. PageInv(page') /\ consent' \in BOOLEAN /\ (page'.authorized => consent')
      BY <1>1, <1>4, Known DEF ConsoleInv
    <2>6. ConsoleInv'
      BY <1>1, <2>1, <2>2, <2>3, <2>4, <2>5, NextInv
    <2>7. QED
      BY <1>4, <2>6 DEF ConsoleStep
  <1>5. CASE /\ route.legs > 1
             /\ EndRoute(g, [page EXCEPT !.devices[route.device].status = "HOLDING"])
    <2> DEFINE devices == [page.devices EXCEPT ![route.device].status = "HOLDING"]
    <2>1. /\ page' = [[page EXCEPT !.devices = devices]
                        EXCEPT !.deviceTimers = @ \ {generation}]
          /\ chains' = [chains EXCEPT ![generation] = Resumed(generation)]
      BY <1>1, <1>5 DEF EndRoute
    <2>2. "HOLDING" \in Statuses
      BY DEF Statuses
    <2>3. /\ devices \in [Devices -> DeviceStates]
          /\ \A e \in Devices : devices[e].zone = page.devices[e].zone
      BY <1>1, <1>2, <2>2, StatusSet
    <2> HIDE DEF devices, route
    <2>4. ConsoleInv' /\ page'.devices = devices
      BY <1>1, <2>1, <2>3, RouteOver
    <2>5. \A h \in 0..MaxResets : h < generation => chains'[h] = chains[h]
      BY <2>1, Known DEF Chains
    <2>6. QED
      BY <2>3, <2>4, <2>5, Known DEF ConsoleStep
  <1>6. QED
    BY <1>3, <1>4, <1>5 DEF DeviceTimer

\* The page moves on beside the queue.
LEMMA BesideTheQueue ==
  ASSUME ConsoleInv, Follows(page, page'), page'.hazard = page.hazard,
         UNCHANGED <<generation, chains>>, consent' \in BOOLEAN, page'.authorized => consent'
  PROVE  ConsoleInv' /\ ConsoleStep
  <1> DEFINE chain == chains[generation]
  <1>1. /\ chain \in [work : Works, waiting : 0..MaxWaiting]
        /\ chains' = [chains EXCEPT ![generation] = chain]
    BY Known DEF Chains
  <1>2. /\ page'.deviceTimers = IF chain.work.kind = "route" THEN {generation} ELSE {}
        /\ OpenWay(chain.work, page') /\ PageInv(page')
    BY Known DEF Follows, OpenWay, ConsoleInv
  <1> HIDE DEF chain
  <1>3. ConsoleInv'
    BY <1>1, <1>2, NextInv
  <1>4. QED
    BY <1>3 DEF ConsoleStep, Follows, NobodyEnters

LEMMA IntervalTickInv ==
  ASSUME ConsoleInv, IntervalTick
  PROVE  ConsoleInv' /\ ConsoleStep
  <1>1. PICK i \in page.intervals : page' = Ticked(page, i)
    BY DEF IntervalTick
  <1>2. /\ Follows(page, page') /\ page'.authorized = page.authorized
        /\ page'.hazard = page.hazard
    BY <1>1, TickFollows DEF ConsoleInv
  <1>3. UNCHANGED <<generation, chains, consent>>
    BY DEF IntervalTick
  <1>4. consent' \in BOOLEAN /\ (page'.authorized => consent')
    BY <1>2, <1>3, Known DEF ConsoleInv
  <1>5. QED
    BY <1>2, <1>3, <1>4, BesideTheQueue

LEMMA ApproveButtonInv ==
  ASSUME ConsoleInv, ApproveButton
  PROVE  ConsoleInv' /\ ConsoleStep
  <1>1. /\ page' = ApproveEmergency(page) /\ consent' = TRUE
        /\ UNCHANGED <<generation, chains>>
    BY DEF ApproveButton
  <1>2. Follows(page, page') /\ page'.hazard = page.hazard
    BY <1>1, ApproveFollows DEF ConsoleInv
  <1>3. QED
    BY <1>1, <1>2, BesideTheQueue

LEMMA DeferButtonInv ==
  ASSUME ConsoleInv, DeferButton
  PROVE  ConsoleInv' /\ ConsoleStep
  <1>1. page' = DeferEmergency(page) /\ UNCHANGED <<generation, chains, consent>>
    BY DEF DeferButton
  <1>2. /\ Follows(page, page') /\ page'.hazard = page.hazard
        /\ page'.authorized = page.authorized
    BY <1>1, DeferFollows DEF ConsoleInv
  <1>3. consent' \in BOOLEAN /\ (page'.authorized => consent')
    BY <1>1, <1>2, Known DEF ConsoleInv
  <1>4. QED
    BY <1>1, <1>2, <1>3, BesideTheQueue

LEMMA ResetInv ==
  ASSUME ConsoleInv, Reset
  PROVE  ConsoleInv' /\ ConsoleStep
  <1>1. /\ generation \in 0..MaxResets /\ generation + 1 \in 0..MaxResets
        /\ generation' = generation + 1 /\ consent' = FALSE
        /\ chains' = [chains EXCEPT ![generation] = Abandoned(chains[generation])]
    BY Known, ConsoleAssumption DEF Reset
  <1>2. page' = InitialPage
    <2>1. ClearTimer(page).intervals = {}
      BY TimerCleared, Known DEF ConsoleInv, Pages
    <2>2. InitialPage \in Pages
      BY StepNumbers, InitialDevicesTyped DEF InitialPage, Pages, ModeOf, NoTimer
    <2>3. InitialPage.intervals = {}
      BY DEF InitialPage
    <2>4. InitialPage = [InitialPage EXCEPT !.intervals = {}]
      BY <2>2, <2>3 DEF Pages
    <2>5. QED
      BY <2>1, <2>4 DEF Reset
  <1>3. /\ InitialPage \in Pages /\ ~InitialPage.authorized /\ InitialPage.deviceTimers = {}
        /\ InitialPage.devices = InitialDevices /\ PageInv(InitialPage)
    <2>1. InitialPage \in Pages
      BY StepNumbers, InitialDevicesTyped DEF InitialPage, Pages, ModeOf, NoTimer
    <2>2. QED
      BY <2>1, StepNumbers DEF InitialPage, PageInv
  <1>4. /\ Abandoned(chains[generation]) \in [work : Works, waiting : 0..MaxWaiting]
        /\ Abandoned(chains[generation]).work.kind # "route"
    BY EmptyChain, WorkKinds DEF Abandoned, Empty
  <1>5. /\ chains' \in Chains /\ chains'[generation] = Abandoned(chains[generation])
        /\ \A g \in 0..MaxResets : g # generation => chains'[g] = chains[g]
    BY <1>1, <1>4, Known DEF Chains
  <1>6. TypeOK'
    BY <1>1, <1>2, <1>3, <1>5 DEF TypeOK, Chains, Works
  <1>7. /\ \A g \in 0..MaxResets : g > generation' => chains'[g] = Empty
        /\ \A g \in 0..MaxResets : g < generation' => chains'[g].work.kind # "route"
        /\ chains'[generation'] = Empty
    BY <1>1, <1>4, <1>5 DEF ConsoleInv
  <1>8. QueueWaitsOnLiveWork'
    BY <1>2, <1>3, <1>7, EmptyChain DEF QueueWaitsOnLiveWork
  <1>9. OpenWay(chains[generation].work, page)'
    BY <1>7, EmptyChain DEF OpenWay
  <1>10. ConsoleInv'
    BY <1>2, <1>3, <1>6, <1>7, <1>8, <1>9 DEF ConsoleInv
  <1>11. ConsoleStep
    BY <1>1, <1>2, <1>3, <1>5, InitialDevicesTyped DEF ConsoleStep
  <1>12. QED
    BY <1>10, <1>11

LEMMA NextKeeps ==
  ASSUME ConsoleInv, [Next]_vars
  PROVE  ConsoleInv' /\ ConsoleStep
  <1>1. CASE Send
    BY <1>1, SendInv
  <1>2. ASSUME NEW g \in 0..MaxResets, Reply(g)
        PROVE  ConsoleInv' /\ ConsoleStep
    BY <1>2, ReplyInv, StaleReplyInv
  <1>3. ASSUME NEW g \in 0..MaxResets, DeviceTimer(g)
        PROVE  ConsoleInv' /\ ConsoleStep
    BY <1>3, DeviceTimerInv
  <1>4. CASE IntervalTick
    BY <1>4, IntervalTickInv
  <1>5. CASE ApproveButton
    BY <1>5, ApproveButtonInv
  <1>6. CASE DeferButton
    BY <1>6, DeferButtonInv
  <1>7. CASE Reset
    BY <1>7, ResetInv
  <1>8. CASE UNCHANGED vars
    <2>1. UNCHANGED <<page, generation, chains, consent>>
      BY <1>8 DEF vars
    <2>2. ConsoleInv'
      BY <2>1 DEF ConsoleInv, TypeOK, QueueWaitsOnLiveWork
    <2>3. QED
      BY <2>1, <2>2 DEF ConsoleStep
  <1>9. QED
    BY <1>1, <1>2, <1>3, <1>4, <1>5, <1>6, <1>7, <1>8 DEF Next

\* The inductive invariant of the page, for any texts and any number of resets.
THEOREM ConsoleInvariant == Spec => []ConsoleInv
  <1>1. Init => ConsoleInv
    BY InitInv
  <1>2. ConsoleInv /\ [Next]_vars => ConsoleInv'
    BY NextKeeps
  <1>3. QED
    BY <1>1, <1>2, PTL DEF Spec

---------------------------------------------------------------------------
(* The theorems *)

\* The page, its timers and its queues have their types.
THEOREM TypeCorrect == Spec => []TypeOK
  <1>1. ConsoleInv => TypeOK
    BY DEF ConsoleInv
  <1>2. QED
    BY <1>1, ConsoleInvariant, PTL

\* At most one interval moves the scenario on, and runtime.timer can cancel it.
THEOREM OneTimelineRuns == Spec => []OneTimeline
  <1>1. ConsoleInv => OneTimeline
    BY DEF ConsoleInv, PageInv, OneTimeline
  <1>2. QED
    BY <1>1, ConsoleInvariant, PTL

\* The command queue waits for a route exactly while a live timer will end it.
THEOREM QueueWaits == Spec => []QueueWaitsOnLiveWork
  <1>1. ConsoleInv => QueueWaitsOnLiveWork
    BY DEF ConsoleInv
  <1>2. QED
    BY <1>1, ConsoleInvariant, PTL

\* Every emergency was approved, by a button or a message with the words of it.
THEOREM EmergenciesAreApproved == Spec => []EmergencyIsApproved
  <1>1. ConsoleInv => EmergencyIsApproved
    BY StepNumbers DEF ConsoleInv, PageInv, Pages, ModeOf, EmergencyIsApproved
  <1>2. QED
    BY <1>1, ConsoleInvariant, PTL

\* No mower comes into the C zone while it is closed.
THEOREM ClosedZoneStaysClosed == Spec => ClosedZoneIsNotEntered
  <1>1. ConsoleInv /\ [Next]_vars =>
          [\A m \in Mowers : page.hazard = "active" /\ page.devices[m].zone # HazardZone
                                => page'.devices[m].zone # HazardZone]_vars
    BY NextKeeps DEF ConsoleStep
  <1>2. QED
    BY <1>1, ConsoleInvariant, PTL DEF Spec, ClosedZoneIsNotEntered

\* What was asked before a reset changes nothing of the page afterwards.
THEOREM StaleWorkIsDropped == Spec => StaleWorkChangesNothing
  <1>1. ConsoleInv /\ [Next]_vars =>
          [\A g \in 0..MaxResets : g < generation /\ chains'[g] # chains[g]
                                      => UNCHANGED page]_vars
    BY NextKeeps DEF ConsoleStep
  <1>2. QED
    BY <1>1, ConsoleInvariant, PTL DEF Spec, StaleWorkChangesNothing
=============================================================================
