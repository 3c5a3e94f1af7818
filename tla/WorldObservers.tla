--------------------------- MODULE WorldObservers ---------------------------
(***************************************************************************)
(* The components around the kernel that need several kernel operations    *)
(* for one of their own: world/snapshot_manager.py, which copies, stamps   *)
(* and stores; adapters/ros2_sensor_bridge.py, which compares the versions *)
(* before and after its event; policies/person_safety_monitor.py, which    *)
(* reads a person, computes the new state and writes it back.  None of     *)
(* them holds the kernel lock between its operations.                      *)
(***************************************************************************)
EXTENDS WorldStateKernel

CONSTANTS
  Takers,         \* threads that create snapshots
  Bridges,        \* threads that ingest sensor messages
  Monitors,       \* threads that deliver person-safety signals
  Incidents,      \* the incidents signals are about
  Observed,       \* the people signals are about
  NoThread, NoEvent, NoSignal,
  Evacuating(_),  \* content of a person -> the same with status evacuating
  Sheltered,      \* content of a person who arrived at the shelter
  MaxSnapshots    \* bound: snapshots ever created

ASSUME WorldObserversAssumption ==
  /\ NoThread \notin Monitors /\ NoEvent \notin Events
  /\ \A c \in Contents : Evacuating(c) \in Contents
  /\ Sheltered \in Contents /\ MaxSnapshots \in Nat

VARIABLES
  clock,       \* counts the readings of utc_now()
  taking,      \* taker -> [step, version, facts, at]
  snapshots,   \* the stored snapshots in _creation_order
  ingesting,   \* bridge -> [event, previous]
  reports,     \* bridge -> [changed, committed] of its last ingest()
  monitorLock, \* owner of the monitor's lock
  applying,    \* monitor -> [signal, content]
  signalKeys,  \* _processed_keys of the monitor
  applications \* history: signal -> how often it was applied

snapshotVars == <<clock, taking, snapshots>>
bridgeVars == <<ingesting, reports>>
monitorVars == <<monitorLock, applying, signalKeys, applications>>
observerVars == <<snapshotVars, bridgeVars, monitorVars>>
worldVars == <<kernelVars, observerVars>>

---------------------------------------------------------------------------
(* SnapshotManager.create_snapshot *)

NotTaking == [step |-> "idle", version |-> 0, facts |-> past[1], at |-> 0]

\* get_current_state(): content and version in one critical section.
CopyState(t) ==
  /\ taking[t].step = "idle"
  /\ taking' = [taking EXCEPT ![t] = [step |-> "copied", version |-> version,
                                     facts |-> facts, at |-> 0]]
  /\ UNCHANGED <<kernelVars, clock, snapshots, bridgeVars, monitorVars>>

\* Mutant: the version is asked for a second time.
VersionReadAgain(t) == version

VersionCopied(t) == taking[t].version

\* Freeze the copy and stamp created_at.
StampSnapshot(t) ==
  /\ taking[t].step = "copied" /\ clock < MaxSnapshots
  /\ clock' = clock + 1
  /\ taking' = [taking EXCEPT ![t].step = "stamped", ![t].version = VersionCopied(t),
                              ![t].at = clock + 1]
  /\ UNCHANGED <<kernelVars, snapshots, bridgeVars, monitorVars>>

\* Only the insertion is under the manager's lock.
Store(t) ==
  /\ taking[t].step = "stamped"
  /\ snapshots' = Append(snapshots, [version |-> taking[t].version, facts |-> taking[t].facts,
                                     at |-> taking[t].at])
  /\ taking' = [taking EXCEPT ![t] = NotTaking]
  /\ UNCHANGED <<kernelVars, clock, bridgeVars, monitorVars>>

---------------------------------------------------------------------------
(* Ros2SensorBridge.ingest *)

NotIngesting == [event |-> NoEvent, previous |-> 0]

\* Map the message and read the version before it.
ReadPrevious(b) ==
  /\ ingesting[b] = NotIngesting
  /\ \E ev \in Events : ingesting' = [ingesting EXCEPT ![b] = [event |-> ev, previous |-> version]]
  /\ UNCHANGED <<kernelVars, snapshotVars, reports, monitorVars>>

\* Mutant: the version "before" is read after the event.
PreviousReadLate(b) == version'

Previous(b) == ingesting[b].previous

\* apply_event(); a duplicate or an unknown entity raises out of ingest().
Ingest(b) ==
  /\ ingesting[b] # NotIngesting
  /\ LET ev == ingesting[b].event
     IN  \/ /\ Apply(ev)
            /\ reports' = IF ev.entity \notin Entities THEN reports
                          ELSE [reports EXCEPT ![b] = [changed |-> version' > Previous(b),
                                                       committed |-> version' > version]]
         \/ IsDuplicate(ev) /\ UNCHANGED <<kernelVars, reports>>
  /\ ingesting' = [ingesting EXCEPT ![b] = NotIngesting]
  /\ UNCHANGED <<snapshotVars, monitorVars>>

---------------------------------------------------------------------------
(* PersonSafetyMonitor.apply *)

\* A signal carries the key its incident, type and person give it: the key
\* stands for every delivery of it.
Signals == [incident : Incidents, person : Observed,
            type : {"ALERT_ACKNOWLEDGED", "SHELTER_ARRIVAL_VERIFIED"}]

KeyOf(s) == <<s.incident, s.type, s.person>>

NotApplying == [signal |-> NoSignal, content |-> Sheltered]

NewContent(s) ==
  IF s.type = "ALERT_ACKNOWLEDGED" THEN Evacuating(facts[s.person]) ELSE Sheltered

\* Mutant: the key is checked before the lock is taken.
ReadPersonUnlocked(m) ==
  /\ applying[m] = NotApplying
  /\ \E s \in Signals :
       /\ KeyOf(s) \notin signalKeys /\ s.person \in Entities
       /\ applying' = [applying EXCEPT ![m] = [signal |-> s, content |-> NewContent(s)]]
  /\ monitorLock' = m
  /\ UNCHANGED <<kernelVars, snapshotVars, bridgeVars, signalKeys, applications>>

\* Take the monitor's lock, refuse a known key or person, read the state and
\* compute the new one.
ReadPerson(m) ==
  /\ applying[m] = NotApplying /\ monitorLock = NoThread
  /\ \E s \in Signals :
       /\ KeyOf(s) \notin signalKeys /\ s.person \in Entities
       /\ applying' = [applying EXCEPT ![m] = [signal |-> s, content |-> NewContent(s)]]
  /\ monitorLock' = m
  /\ UNCHANGED <<kernelVars, snapshotVars, bridgeVars, signalKeys, applications>>

\* update_person() with the state computed from that reading.
WritePerson(m) ==
  /\ applying[m] # NotApplying
  /\ LET s == applying[m].signal
     IN  /\ Write(s.person, applying[m].content)
         /\ signalKeys' = signalKeys \cup {KeyOf(s)}
         /\ applications' = [applications EXCEPT ![s] = @ + 1]
  /\ applying' = [applying EXCEPT ![m] = NotApplying]
  /\ monitorLock' = NoThread
  /\ UNCHANGED <<snapshotVars, bridgeVars>>

---------------------------------------------------------------------------
ObserversInit ==
  /\ KernelInit
  /\ clock = 0 /\ snapshots = <<>>
  /\ taking = [t \in Takers |-> NotTaking]
  /\ ingesting = [b \in Bridges |-> NotIngesting]
  /\ reports = [b \in Bridges |-> [changed |-> FALSE, committed |-> FALSE]]
  /\ monitorLock = NoThread /\ signalKeys = {}
  /\ applying = [m \in Monitors |-> NotApplying]
  /\ applications = [s \in Signals |-> 0]

\* The executor and the fast paths write through the kernel as well.
OtherWriter ==
  /\ \E e \in Entities, c \in Contents : Write(e, c)
  /\ UNCHANGED observerVars

ObserversNext ==
  \/ \E t \in Takers : CopyState(t) \/ StampSnapshot(t) \/ Store(t)
  \/ \E b \in Bridges : ReadPrevious(b) \/ Ingest(b)
  \/ \E m \in Monitors : ReadPerson(m) \/ WritePerson(m)
  \/ OtherWriter

ObserversSpec == ObserversInit /\ [][ObserversNext]_worldVars

---------------------------------------------------------------------------
(* Properties *)

\* A snapshot is the content of the one version it carries, although updates
\* go on while it is copied, stamped and stored.
SnapshotIsOneVersion ==
  \A i \in DOMAIN snapshots : snapshots[i].facts = past[snapshots[i].version + 1]

\* ingest() never says "unchanged" of a message that was committed, whoever
\* commits in between.
CommitsAreReported == \A b \in Bridges : reports[b].committed => reports[b].changed

\* A person-safety signal is applied at most once, however many threads
\* deliver it at the same time.
SignalsApplyOnce == \A s \in Signals : applications[s] <= 1
============================================================================
