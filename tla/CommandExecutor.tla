-------------------------- MODULE CommandExecutor ---------------------------
(***************************************************************************)
(* execution/simple_executor.py over the world kernel, with the adapter it *)
(* drives: adapters/mock_adapter.py or adapters/ros2_equipment_adapter.py. *)
(*                                                                         *)
(* execute() holds the executor lock from its first line to its last, so   *)
(* there is one activation at a time.  Its locks do not cover the kernel   *)
(* and the mode manager: other threads publish worlds and organizations    *)
(* between any two of its steps.                                           *)
(***************************************************************************)
EXTENDS WorldStateKernel

CONSTANTS
  Ids,         \* command ids
  CommandKeys, \* idempotency keys: incident, command type and target
  TargetOf,    \* key -> the device commanded
  EffectOf,    \* key -> what the device holds once the command took effect
  Notices,     \* the keys of notify_operator, which changes no device
  Adapter,     \* "mock" or "ros2"
  MockStart,   \* what the devices of the mock hold at first
  Nothing,     \* no observation, no result, no receipt
  MaxWrites,   \* bound: worlds published by others
  MaxOrg,      \* bound: last org_version
  MaxRaises    \* bound: how often the transport raises for one key

Devices == Entities \cup {Unknown}   \* Unknown: a device the world does not list

ASSUME CommandExecutorAssumption ==
  /\ TargetOf \in [CommandKeys -> Devices]
  /\ EffectOf \in [CommandKeys -> Contents]
  /\ Notices \subseteq CommandKeys
  /\ Adapter \in {"mock", "ros2"} /\ MockStart \in Contents
  /\ MaxWrites \in Nat /\ MaxOrg \in Nat \ {0} /\ MaxRaises \in Nat
  /\ Nothing \notin [entity : Devices, content : Contents]
  /\ Nothing \notin [id : Ids, status : {"VERIFIED", "FAILED", "UNKNOWN"}]

VARIABLES
  org,         \* org_version of the organization the mode manager publishes
  devices,     \* the external state: device -> content
  receipts,    \* the adapter's _receipts, with the response of a transport
  byId, byKey, \* _results_by_command_id, _results_by_idempotency_key
  sent,        \* history: key -> how often a command was sent to a device
  raised,      \* history: key -> how often its transport raised
  call         \* the activation of execute()

executorVars == <<org, devices, receipts, byId, byKey, sent, raised, call>>
vars == <<kernelVars, executorVars>>

Commands == [id : Ids, key : CommandKeys, world : 0..version, org : 1..org]
Observations == [entity : Devices, content : Contents] \cup {Nothing}
Receipts == [status : {"EXECUTING", "FAILED", "UNKNOWN"}, observed : Observations]
Results == [id : Ids, status : {"VERIFIED", "FAILED", "UNKNOWN"}]

Idle == [step |-> "idle"]

---------------------------------------------------------------------------
(* The adapters *)

Effect(k) == IF k \in Notices THEN Nothing
             ELSE [entity |-> TargetOf[k], content |-> EffectOf[k]]

DevicesAfter(k, applied) ==
  IF applied /\ k \notin Notices THEN [devices EXCEPT ![TargetOf[k]] = EffectOf[k]]
  ELSE devices

\* A configured failure or an unsuitable target is refused before anything
\* moves; otherwise the effect is there, acknowledged or not.
MockAnswers(k) ==
  {[status |-> "FAILED", applied |-> FALSE, observed |-> Nothing]} \cup
  [status : {"EXECUTING", "UNKNOWN"}, applied : {TRUE}, observed : {Effect(k)}]

\* A transport answers with what it accepted, and with a true reading of some
\* machine or none.  Only an accepted command can have moved the device.
Ros2Answers(k) ==
  {a \in [status : {"EXECUTING", "FAILED", "UNKNOWN"}, applied : BOOLEAN,
          observed : Observations] :
     /\ a.status = "FAILED" => ~a.applied
     /\ a.observed # Nothing =>
          a.observed.content = DevicesAfter(k, a.applied)[a.observed.entity]}

\* A second command with a known id gets the receipt of the first one.
Answers(cmd) ==
  IF receipts[cmd.id] # Nothing
  THEN {[status |-> receipts[cmd.id].status, applied |-> FALSE,
         observed |-> receipts[cmd.id].observed]}
  ELSE IF Adapter = "mock" THEN MockAnswers(cmd.key) ELSE Ros2Answers(cmd.key)

\* _matches_expected: the status, and the zone of a return, of the machine
\* that was read.
MatchesExpected(k, observed) ==
  k \in Notices \/ (observed # Nothing /\ observed.content = EffectOf[k])

\* verify_command of the mock reads its device again, that of ROS2 looks at
\* the response.
VerificationStatus(k, receipt) ==
  IF receipt.status = "EXECUTING" /\ (Adapter = "ros2" => MatchesExpected(k, receipt.observed))
  THEN "VERIFIED"
  ELSE IF receipt.status = "FAILED" THEN "FAILED" ELSE "UNKNOWN"

VerifiedObservation(k, receipt) ==
  IF Adapter = "mock" /\ receipt.status = "EXECUTING" /\ k \notin Notices
  THEN [entity |-> TargetOf[k], content |-> devices[TargetOf[k]]]
  ELSE receipt.observed

---------------------------------------------------------------------------
(* execute().  call.began is history: what was current when the world was read. *)

\* A caller, or a retry of one, brings a command that was stamped with
\* versions read some time before; the lock is taken, the world version read.
Begin(cmd) ==
  /\ call = Idle
  /\ call' = [step |-> "organization", cmd |-> cmd, world |-> version,
              began |-> [world |-> version, org |-> org]]
  /\ UNCHANGED <<kernelVars, org, devices, receipts, byId, byKey, sent, raised>>

\* Mutant: the organization is not compared.
StaleIgnoringOrg(cmd, world) == cmd.world # world

Stale(cmd, world) == cmd.world # world \/ cmd.org # org

\* Mutants: only one of the two maps is looked up.
RememberedByIdOnly(cmd) == byId[cmd.id]
RememberedByKeyOnly(cmd) == byKey[cmd.key]

Remembered(cmd) == IF byKey[cmd.key] # Nothing THEN byKey[cmd.key] ELSE byId[cmd.id]

\* The organization is read; a stale command fails, a known one gets the
\* result of the first.
ReadOrganization ==
  /\ call.step = "organization"
  /\ call' = IF Stale(call.cmd, call.world) \/ Remembered(call.cmd) # Nothing
             THEN Idle
             ELSE [step |-> "execute", cmd |-> call.cmd, began |-> call.began]
  /\ UNCHANGED <<kernelVars, org, devices, receipts, byId, byKey, sent, raised>>

\* execute_command under the adapter lock.
Execute ==
  /\ call.step = "execute"
  /\ \E a \in Answers(call.cmd) :
       LET receipt == [status |-> a.status, observed |-> a.observed] IN
       /\ devices' = DevicesAfter(call.cmd.key, a.applied)
       /\ receipts' = [receipts EXCEPT ![call.cmd.id] = receipt]
       /\ call' = [step |-> "verify", cmd |-> call.cmd, began |-> call.began,
                   receipt |-> receipt]
  /\ sent' = IF receipts[call.cmd.id] = Nothing
             THEN [sent EXCEPT ![call.cmd.key] = @ + 1] ELSE sent
  /\ UNCHANGED <<kernelVars, org, byId, byKey, raised>>

\* The transport raises, before or after the device moved; the exception
\* leaves execute_command and execute() with nothing stored.
TransportRaises ==
  /\ call.step = "execute" /\ Adapter = "ros2"
  /\ receipts[call.cmd.id] = Nothing
  /\ raised[call.cmd.key] < MaxRaises
  /\ \E applied \in BOOLEAN : devices' = DevicesAfter(call.cmd.key, applied)
  /\ sent' = [sent EXCEPT ![call.cmd.key] = @ + 1]
  /\ raised' = [raised EXCEPT ![call.cmd.key] = @ + 1]
  /\ call' = Idle
  /\ UNCHANGED <<kernelVars, org, receipts, byId, byKey>>

Remember(cmd, result) ==
  /\ byId' = [byId EXCEPT ![cmd.id] = result]
  /\ byKey' = [byKey EXCEPT ![cmd.key] = result]

Conclude(status) ==
  Remember(call.cmd, [id |-> call.cmd.id, status |-> status])

\* verify_command and collect_evidence; what is not verified is final.
Verify ==
  /\ call.step = "verify"
  /\ LET status == VerificationStatus(call.cmd.key, call.receipt)
         observed == VerifiedObservation(call.cmd.key, call.receipt)
     IN IF status = "VERIFIED"
        THEN /\ call' = [step |-> "before", cmd |-> call.cmd, began |-> call.began,
                         observed |-> observed]
             /\ UNCHANGED <<byId, byKey>>
        ELSE /\ Conclude(status)
             /\ call' = Idle
  /\ UNCHANGED <<kernelVars, org, devices, receipts, sent, raised>>

\* _sync_verified_effect_locked: before_version.
ReadBefore ==
  /\ call.step = "before"
  /\ call' = [step |-> "sync", cmd |-> call.cmd, began |-> call.began,
              observed |-> call.observed, before |-> version]
  /\ UNCHANGED <<kernelVars, org, devices, receipts, byId, byKey, sent, raised>>

\* Mutant: a failure to synchronize is reported as the adapter's success.
SyncFailedVerified == Conclude("VERIFIED")

SyncFailed == Conclude("UNKNOWN")

\* The kernel is updated with the observation, if there is one; an entity it
\* does not know raises, and the result is UNKNOWN.
Sync ==
  /\ call.step = "sync"
  /\ IF call.observed # Nothing /\ call.observed.entity \notin Entities
     THEN /\ SyncFailed
          /\ call' = Idle
          /\ UNCHANGED <<facts, version, past>>
     ELSE /\ IF call.observed = Nothing THEN UNCHANGED <<facts, version, past>>
             ELSE Update(call.observed.entity, call.observed.content)
          /\ call' = [step |-> "after", cmd |-> call.cmd, began |-> call.began,
                      observed |-> call.observed, before |-> call.before,
                      committed |-> version' > version]
          /\ UNCHANGED <<byId, byKey>>
  /\ UNCHANGED <<processed, commits, org, devices, receipts, sent, raised>>

\* Mutant: before_version is read after the update.
ChangedLate(before) == version > before + 1

Changed(before) == version > before

ReadAfter ==
  /\ call.step = "after"
  /\ call' = [step |-> "report", cmd |-> call.cmd, began |-> call.began,
              observed |-> call.observed, committed |-> call.committed,
              changed |-> Changed(call.before)]
  /\ UNCHANGED <<kernelVars, org, devices, receipts, byId, byKey, sent, raised>>

\* The version for the evidence is read and the result entered; the lock is
\* still held.
Report ==
  /\ call.step = "report"
  /\ Conclude("VERIFIED")
  /\ call' = [step |-> "return", cmd |-> call.cmd, began |-> call.began,
              observed |-> call.observed, committed |-> call.committed,
              changed |-> call.changed, reported |-> version]
  /\ UNCHANGED <<kernelVars, org, devices, receipts, sent, raised>>

Return ==
  /\ call.step = "return"
  /\ call' = Idle
  /\ UNCHANGED <<kernelVars, org, devices, receipts, byId, byKey, sent, raised>>

ExecutorStep ==
  \/ ReadOrganization
  \/ Execute
  \/ TransportRaises
  \/ Verify
  \/ ReadBefore
  \/ Sync
  \/ ReadAfter
  \/ Report
  \/ Return

---------------------------------------------------------------------------
(* The other threads *)

\* Telemetry, events and operators publish worlds, by any kernel operation.
OthersWrite ==
  /\ version < MaxWrites
  /\ Next /\ version' # version
  /\ UNCHANGED executorVars

\* A transition is published.
OthersTransition ==
  /\ org < MaxOrg
  /\ org' = org + 1
  /\ UNCHANGED <<kernelVars, devices, receipts, byId, byKey, sent, raised, call>>

---------------------------------------------------------------------------

ExecutorInit ==
  /\ org = 1
  /\ devices \in IF Adapter = "mock" THEN {[d \in Devices |-> MockStart]}
                ELSE [Devices -> Contents]
  /\ receipts = [i \in Ids |-> Nothing]
  /\ byId = [i \in Ids |-> Nothing]
  /\ byKey = [k \in CommandKeys |-> Nothing]
  /\ sent = [k \in CommandKeys |-> 0]
  /\ raised = [k \in CommandKeys |-> 0]
  /\ call = Idle

SystemInit == KernelInit /\ ExecutorInit

SystemNext ==
  \/ \E cmd \in Commands : Begin(cmd)
  \/ ExecutorStep
  \/ OthersWrite
  \/ OthersTransition

SystemSpec == SystemInit /\ [][SystemNext]_vars

---------------------------------------------------------------------------
(* Properties *)

\* The type invariant of the executor's and the adapter's state.
ExecutorTypeOK ==
  /\ TypeOK
  /\ org \in 1..MaxOrg
  /\ devices \in [Devices -> Contents]
  /\ receipts \in [Ids -> Receipts \cup {Nothing}]
  /\ byId \in [Ids -> Results \cup {Nothing}]
  /\ byKey \in [CommandKeys -> Results \cup {Nothing}]
  /\ sent \in [CommandKeys -> 0..(MaxRaises + 1)]
  /\ raised \in [CommandKeys -> 0..MaxRaises]

\* "The same logical command of an incident is executed once", however often
\* callers bring it and under whichever ids.  The code keeps this only when the
\* transport answers: each exception out of it lets one more retry through.
ExecutedAtMostOnce == \A k \in CommandKeys : sent[k] <= 1 + raised[k]

\* A command past the version check was stamped with the world and the
\* organization that were both current at one instant, the one at which its
\* activation read the world, although the two are read one after the other.
ExecutedWasCurrent ==
  call.step \notin {"idle", "organization"} =>
    call.cmd.world = call.began.world /\ call.cmd.org = call.began.org

\* Once a caller could have seen a result of an id or a key, every later
\* caller sees the same: FAILED and UNKNOWN are never replaced by a retry.
ResultsAreFinal ==
  [][/\ \A i \in Ids : byId[i] # Nothing => byId'[i] = byId[i]
     /\ \A k \in CommandKeys : byKey[k] # Nothing => byKey'[k] = byKey[k]]_<<byId, byKey>>

\* VERIFIED is reported only when the kernel published a world that holds the
\* effect of the command, and what was observed was the published content at
\* some version from the start of the activation to the one its evidence names.
VerifiedWasPublished ==
  /\ \A k \in CommandKeys \ Notices :
       byKey[k] # Nothing /\ byKey[k].status = "VERIFIED" =>
         \E e \in Entities, v \in 1..(version + 1) : past[v][e] = EffectOf[k]
  /\ call.step = "return" /\ call.observed # Nothing =>
       \E v \in (call.began.world + 1)..(call.reported + 1) :
         past[v][call.observed.entity] = call.observed.content

\* When the synchronization committed a world, the evidence says that the
\* runtime state changed, and names a version that is not older.
CommitIsEvidenced ==
  call.step = "return" /\ call.committed =>
    call.changed /\ call.reported > call.began.world

\* "The system never reports an unverified physical outcome as VERIFIED":
\* when a first VERIFIED is returned, the commanded device holds the effect.
VerifiedIsPhysical ==
  call.step = "return" /\ call.cmd.key \notin Notices =>
    devices[TargetOf[call.cmd.key]] = EffectOf[call.cmd.key]
============================================================================
