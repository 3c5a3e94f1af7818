# runtime_core in TLA+

TLA+ modules, TLC instances and TLAPS proofs for `src/runtime_core`, the runtime that
decides, audits and executes what agents propose for a golf course during a thunderstorm.
Every definition is translated from the source; `PROJECT.json` gives the lines of each one
("map"), the runs, a mutation of the code for every property, the hazards and the theorems.

## 1. The system

The runtime is a set of Python objects shared by threads. Each object that has state has its
own lock; no call holds two of them for longer than one nested call, and what a caller does
*between* two calls is protected by nothing. The order of the locks has no cycle: board,
executor and person monitor call the mode manager, the kernel, the adapter and the ledger;
the mode manager calls the kernel (version provider) and the ledger; nobody calls back.

| Component (source) | State | Operations | Hard part | Correct when |
|---|---|---|---|---|
| World state kernel (`world/state_kernel.py`, `version_manager.py`) | facts, world version, consumed event keys | `update_*`, `apply_event` | redelivered, failing and empty events | a version is one content; an event commits once |
| Snapshots (`world/snapshot_manager.py`) | snapshots in order of creation | `create_snapshot`, lookups | copy, stamp and store are three sections | a snapshot is the content of its version |
| Sensor bridge (`adapters/ros2_sensor_bridge.py`) | none | `ingest` | versions read before and after an event others overtake | a commit is reported as a change |
| Person monitor (`policies/person_safety_monitor.py`) | consumed signal keys | `apply` | read, compute and write without the kernel lock | a signal applies once |
| Mode manager (`organization/mode_manager.py`) | organization: version, mode, roles | `transition` | concurrent requests, a ledger that raises after writing | versions gapless, changes legal, recorded before published |
| Emergency authorization (`policies/emergency_mode_authorization.py`) | none | `apply` | approval and transition are two steps | no transition without an acknowledged approval |
| Audit ledger (`audit/ledger.py`) | a JSON-lines file | `append`, `read_all` | failing writes, power loss, torn lines | an acknowledged record survives; reads miss none |
| Proposal board (`coordination/proposal_board.py`) | entries, consumed ids, rejection history | `submit`, `validate_for_use`, `invalidate_stale` | three values read at three instants; audit failing mid-sweep | approvals justified at one instant, refusals for good, memory follows the ledger |
| Organization selector (`organization/minimal_org_selector.py`) | none | `select` | agrees with three other tables by hand | the selected roles are those that act |
| Agent team (`orchestration/emergency_team.py`, `agents/*`) | none per incident | `run`, `handle`, four handlers | plans from an old snapshot | an accepted plan answers the world in force |
| Command executor (`execution/simple_executor.py`) | results by id and by key | `execute` | retries, transports that raise, others' commits | executed once, under current versions, VERIFIED only with evidence |
| Adapters (`adapters/mock_adapter.py`, `ros2_equipment_adapter.py`) | devices, receipts | `execute_command`, `verify_command` | devices that moved though the call failed | evidence is about the commanded device |
| Proposal execution (`execution/proposal_execution.py`) | none | `execute_approved_proposal` | several executions of one proposal | fail-stop, in order, under one organization |
| Fast paths (`policies/emergency_fast_path.py`, `human_safety_fast_path.py`) | none | `execute` | their own commits make their stamps stale | every device is reached; the drone has one task |
| Route and movement safety (`policies/route_safety.py`, `movement_authority.py`, and `planSafeRoute`, `moveDeviceSafely`, `executeRoute` of `ui/static/app.js`) | position, status and route of a device | `plan`, `decide`, a leg | people walk while a route is driven; rounding | each leg keeps its clearance; an arrival is where the device was sent |
| Chat service (`ui/chat_service.py`, `ui/server.py` POST, `adapters/stepfun_model_router.py`) | none | `reply`, `complete` | the model proposes, the text decides; every kind of failure has its status | no intent that is not in the text |
| Operator console (`ui/static/app.js`, `scenario.js`) | the page's runtime model, timers, a queue of promises | messages, buttons, timers, reset | replies after a reset, cancelled timers, two intervals, exceptions in a promise | a reset leaves nothing behind; the queue goes on; only the operator authorizes |
| Demo and trace (`demo/*`, `trace/exporter.py`) | none | the scripted scenario | drives all of the above | - |

`PROJECT.json` "components" says for each of them what is modelled. Left out are the model-backed
handlers, which move data between a team and a model router and are constructed by nobody; the
GET side of the page server and the projection, which only read; and the exporter of traces.

## 2. The modules

    Organization            tables: modes, legal changes, active roles
      AuditedPublication    abstract: recorded first, then published, along legal changes
      ModeManager           transition() and the human authorization      -> AuditedPublication
        ModeManagerProofs
      ProposalBoard         the board at the granularity of its locks     -> AuditedPublication
        ProposalBoardProofs
      AgentTeam             pure: selector, profiles, harness, handlers, planners
        IncidentPlanning    select, snapshot, organization, plan, submit, against a moving world
          IncidentPlanningProofs
    AuditLedger             append() and read_all() on a file that fails and loses power
      AuditLedgerProofs
    WorldStateKernel        the kernel
      WorldObservers        + snapshots, sensor bridge, person monitor    -> WorldStateKernel
        WorldProofs         of both
      CommandExecutor       + executor and adapters                       -> WorldStateKernel
        ProposalExecution   + proposal executions and the two fast paths  -> CommandExecutor
    SharedWorld             ProposalExecution and WorldObservers around one kernel
                                                                          -> both of them
      ExecutionProofs       of CommandExecutor, ProposalExecution and SharedWorld, on WorldProofs
    OperatorChat            pure: intent detectors, model router, gate, POST /api/chat
      OperatorConsole       the page: queue, replies, routes, intervals, approvals, reset
        OperatorConsoleProofs
    RouteSafety             pure: route planning and movement authority on a grid
      DeviceMovement        one device driven leg by leg while people walk
        DeviceMovementProofs  of both

How state and steps correspond to the code:

- **Locks and steps.** An operation that runs to its end under the lock of all the state it
  touches is one action (`WorldStateKernel`). An operation that reads state of another
  component, or calls the ledger or a device, is cut at each of those calls; its local
  variables are the fields of an *activation* (`call` in `ProposalBoard` and
  `CommandExecutor`, `calls` in `ModeManager`, `run` in `ProposalExecution`, `planning` in
  `IncidentPlanning`), and everybody else may move between two of its steps. A component
  whose lock admits one call at a time has a single activation: `call # Idle` is the lock.
- **The ledger** is the file's content seen by one component. `append()` returns, raises
  before the line is in the file, or raises after it is. `AuditLedger` opens the operation up:
  a record is three pieces, of which a failing write or a loss of power leaves any prefix.
- **The world** seen by the kernel is a function from entities to contents; machines, people,
  zones, weather and the freeze flag are entities. `ProposalBoard` only needs its version;
  `IncidentPlanning` needs the zones of people and machines and gives the rest up.
- **History variables** (`past`, `commits`, `vouched`, `acked`, `asked`, `sent`, `disturbed`,
  `applications`, ...) are marked as such where they are declared. No action reads them.
- **Abstractions.** UUIDs, names and reasons are model values. A checksum is whether a line is
  one whole record. A command type is its effect on its target. Confidences, summaries, the
  reporting graph and permissions decide nothing in the code and are left out. The identity of
  a command is derived from its key (`uuid5`) in `ProposalExecution`, and chosen freely by the
  caller in `CommandExecutor`. The time is a clock that only goes forward, as the wall clock
  the runtime is given does while nobody adjusts it.
- **Composition.** `WorldObservers` and `CommandExecutor` both extend the kernel and stand for each
  other by an environment action: `OtherWriter` is any direct update, `OthersWrite` any kernel
  operation, events included. `SharedWorld` puts both around one kernel, as
  `run_thunderstorm_demo()` wires its objects. It has no run of its own, since its two parts together
  are too large for TLC: the theorem `PartsShareOneWorld` takes the results of the runs over to it.
- `IncidentPlanning` takes a snapshot in one step: that its three sections amount to one
  is what `SnapshotIsOneVersion` says of `WorldObservers`. Its `submit()` is the board's two
  reads and decision; ids, expiry and audit are `ProposalBoard`'s, and leaving the expiry out
  accepts more than the code does. Its threads write nothing that another thread reads.

- **The page is single-threaded**: each event (a reply, a timer, a button) runs to its end, so an
  action of `OperatorConsole` is one event with the promise reactions that follow it at once. The
  `commandQueue` of each generation is `chains[g]`: what the command at work waits for, and how
  many commands wait behind it. A text is the phrases the detectors look for, its zone and its
  machine; as nothing reads a waiting text, it is chosen when its reply comes. Messages, evidence,
  versions and everything else that is only shown is left out. A route is its number of legs, and
  whether it is safe, crosses the hazard or is refused on the way is nondeterministic there:
  `DeviceMovement` has the geometry. The patches of a scenario step to the position (not the
  status and zone) of a device that is on a route, and the movements of people, are left out.
- **The grid.** `RouteSafety` computes with whole units where the code rounds to a tenth, and
  compares squares of distances exactly where the code takes roots and, at the recheck of a leg,
  grants a tolerance of a thousandth. So a clearance that is kept here is kept by the code up to
  the rounding of a waypoint and that tolerance; `LegsAreSafe` is exact of the grid. Among the
  detours that keep the clearance the code takes the best one, the model any. People stand on a
  few chosen spots.

## 3. The runs

All runs take all interleavings of the actors named. "Mutant" properties of PROJECT.json each
break under one plausible bug of the mapped code.

| Run | Actors and bounds | Shows |
|---|---|---|
| `board` (3.7 million states) | a board call at a time, two proposals, 1 world commit, 1 transition, 1 clock tick, 3 records, appends that fail either way | every approval was justified at one instant; refusals stay justified; memory is what the last acknowledged record says; rejections match the ledger; a sweep passes over nothing |
| `board_live` | as above without the clock, with fairness | every call returns; the board implements `AuditedPublication` with its liveness |
| `mode` (860 thousand states) | two callers, requests and authorizations, 3 records, failing appends | versions gapless and changes legal; the ledger replays to the organization; a human approval precedes what it causes; `AuditedPublication` |
| `ledger` | three threads, four records, failing `write`/`flush`/`fsync`, two losses of power | acknowledged records are on the disk in order; reads are complete or raise; no false alarm |
| `world` (2.4 million states) | direct writers, two event keys, a snapshot, a bridge, two monitors, 3 versions | a version is one content; keys commit once; snapshots, reports and signals as in section 1 |
| `executor` (5.1 million states) | one executor over ROS2, two ids and three keys (one for an unknown device, one notification), one commit (an update or an event) and one transition by others, one exception | at most one execution per key and answer; current versions; VERIFIED was published; results are final |
| `execution` | two executions of a proposal of four actions, one a repetition of another and one without a command type, or both fast paths, or one of each, over the mock adapter | fail-stop across threads; fast paths are not stopped by their own commits; one task for the drone; all end |
| `planning` (4 million states) | one incident, a person, two mowers and two zones, two commits, three transitions | accepted plans answer the world in force and stay in their mode; the four tables of roles agree |
| `console` (69 thousand states) | any order of 21 messages (one per command, and those in which two commands meet) with every answer or failure of the service, two generations, one command waiting | the queue waits only on routes that will end; one timeline; an emergency is approved by the operator; a reset cuts off what was asked before it; the closed zone is not entered; under fairness the work ends |
| `routes` (223 thousand states) | one mower, three targets, two people on four spots around its ways, a leak, two commands | each leg keeps its clearance from people as they were when it began, an assignment also from the leak; an arrival is real |
| `ledger_separated`, `console_queue` | the smallest instance of the same modules | section 6 |

The type invariants of the modules with a proof module are proved (section 4). A few configurations without a run in
`PROJECT.json` show the divergences of section 6 that are listed there with their names.

Why these bounds are enough to see what they are meant to see:

- The board's hazards need a proposal that is submitted, a value that moves between two reads
  of a call, and a second proposal for the sweep to skip or for an id to collide with. One
  move of each of world, organization and time covers each order of move and read. The single
  role `supervisor` is active in NORMAL and WATCH but not in EMERGENCY, so a transition can
  stale the organization version and the role separately. Three records are enough for
  accept, retire and one failure or duplicate.
- Two callers and three records let one caller overtake the other at each step of a
  transition, including after a record that reached the file of an append that raised.
- Three ledger threads and four records put a torn line between two whole ones, with another
  thread waiting; two losses of power let a machine crash on what the first crash left.
- `ProposalExecution` restricts which activations overlap (`MCOverlaps`): two executions, the
  two fast paths, and an execution with the weather path. No component of the code starts
  more of them at once. In this instance the alert of a person is a notification, without
  the state of the person, and the mock devices start from one content.
- One reset makes a page with work of two generations; all that `resetDemo` does depends only on
  whether work is of the current one. One waiting command is enough for the queue to go on, or not,
  after the command at work; the theorems of section 4 have no bound on either.
- The spots of `routes` are on a direct way, beside a start, on a detour and beside a target, so
  that plans are direct, detoured, adjusted and refused, and later legs are refused too.
- `CHECK_DEADLOCK FALSE` appears where a system stops for good: the ledger instances run out
  of record ids, and a planning thread plans for one incident.

Fairness. `ProposalBoard!FairSpec` is weak fairness of the thread that is inside a board call:
it holds the only lock it needs and nothing it calls waits for another board call. It says
nothing of the world, the modes, the clock or new calls. `ProposalExecution!FairExecutionSpec`
is weak fairness of each thread: the executor lock is released by an activation that ends, a
`threading.RLock` is handed to a waiter, and transports answer or raise within their timeout.
Weak fairness is enough because a thread takes the lock a bounded number of times, so a waiter
is not overtaken for ever. `OperatorConsole!FairSpec` is weak fairness of the replies (the request of the
page is answered or fails: the router has a timeout), of the timer of each route and of the intervals,
which the browser fires. Nothing obliges the operator to write or to press a button.

## 4. The proofs

The theorems hold for every value of the constants under the named assumptions of the modules
(non-empty roles, bounds that are naturals, sentinel values outside their sets).

**ProposalBoard** (`ProposalBoardProofs`). `TypeCorrect` is inductive as it stands. The safety
properties are not: that an approval was justified *at one instant* although three values are
read one after another depends on what has been read so far. The strengthening is `IInv`:

1. `StoredArePlanned`, `CallIsPlanned`: a planner wrote versions it had seen, so none is ahead
   of the present;
2. `ReadsAreOrdered`: what a call has read lies between the moment it began and now, and the
   world version, organization version and time only grow;
3. `DecisionFollowsReads`: the code a call carries is that of its reads;
4. `PublishesLastRecord`: what a call is about to publish is the last record of the ledger.

From 1-3: a proposal whose organization version equals the one read *after* the world version
was not ahead when the call began, and the organization was not either, so both equalities held
at the beginning (`ApprovalIsAtomic`); and a mismatch can never be cured, since versions only
grow (`RefusalIsFinal`). That gives `ApprovalsAreConsistent` and `RefusalsAreFinal`; 4 gives
`StatusesAreAudited` across failed appends and failing sweeps.

The sweep of `invalidate_stale()` has an invariant of its own (`SweepInv`): what is behind its cursor is
retired or current at the values it read, and nothing is admitted while it holds the lock
(`SweepsMissNothing`). And each step of the board records one status by a legal change, publishes it, or
leaves both alone, which is the safety part of `AuditedPublication` (`BoardPublishesWhatItRecorded`).

That the list of rejections tells the ledger (`RejectionsAreTold`) is stated by rank: the rejection of an
acknowledged and published record is at the place which that record has among all of these. The record
being published is the last one, so a publication adds the largest index, and no other rank moves.

**WorldStateKernel** (`WorldProofs`). `TypeOK`, `VersionsNameContents` and
`KeysCommitOnce` are inductive together: a key is consumed exactly by the commit that extends
the history, and a commit extends it by another content. `HistoryStays` adds that history only grows
at its end, which those who read a version and use it later rely on.

**WorldObservers** (`WorldProofs`). Each step of snapshots, bridge and monitor is a step of
the kernel or leaves it alone (`ObserversImplementKernel`, a refinement), so the kernel's invariants
hold here. On top of them: a snapshot in the making is the content of the version it has copied
(`SnapshotsAreVersions`); the version the bridge read first is not ahead, and is behind once its
event is committed (`CommitsAreSeen`); a signal is applied by whoever consumed its key
(`SignalsCountOnce`).

**AuditLedger** (`AuditLedgerProofs`). Of `append()` and power losses: one thread at most is inside the
lock, records have one writer, the acknowledged ones lie below the synchronized length in one piece
and in order; so a loss of power, which cuts the file somewhere above that length, spares them
(`AcknowledgedSurvives`). Of `read_all()`: where lines begin, and that the file is a sequence of whole
lines while nothing was damaged; hence a read that succeeds returns every acknowledged record
(`ReadsMissNothing`), and under `Separated = {}`, no record with a line separator in its text, no read raises
before an append failed or the power was lost (`NoAlarmWithoutDamage`). The assumption is needed: section 6.

**ModeManager** (`ModeManagerProofs`). The lock is held by exactly the caller inside
`transition()` (`LockIsHeld`), and what that caller has decided still follows from the organization
in force (`DecisionStands`), because nobody else can publish; so a publication is the next version
by a legal change (`TransitionsAreLegal`). For `DecisionsPrecedeTransitions` the invariant adds that
the last record of a caller on its way into `transition()` on a human decision is its acknowledged
approval (`ApprovalIsLast`): the records of others do not come in between *for that caller*, and a
failed append sends it back to the start.

That the ledger tells the organization (`LedgerTellsOrganization`) is about what its records *lead to*
(`Replayed`). A record that is not an acknowledged transition leads nowhere; an acknowledged one
leads to its own organization, and was written by the one caller that is about to publish
it. `Chain` says so for every beginning of the ledger: its transitions are gapless and legal, and it
leads to the organization in force, or, while a caller publishes, the last transition leads from that to
the next. Every step is of one of three kinds (`StepKinds`): it changes neither, it records the next
organization, or it publishes it; the same three lemmas give the refinement of `AuditedPublication`
(`ManagerPublishesWhatItRecorded`).

**CommandExecutor** (`ExecutionProofs`), for both adapters. `CallOK` carries that the world was
read before the organization and that the command is older than both, from which
`CommandsWereCurrent` follows as for the board. `Fresh`: between its lookup and its result no result
of the command is known, hence a result is only ever entered where there was none
(`FirstResultStays`). `Sending`: a key without a result that is not being executed was sent exactly as
often as its transport raised, hence `CommandsExecuteOnce`. The kernel's part of the state is covered by
the kernel's own lemma: the synchronization and the other writers are steps of the kernel's `Next`
(`ExecutorImplementsKernel`, a refinement).
`EvidenceInv` adds what is known of the synchronization on the way: what was observed is the content at a
version between those read before and after. Hence `VerifiedEffectsWerePublished` and
`CommitsAreEvidenced`, although others commit in between.

**ProposalExecution** (`ExecutionProofs`), for any proposal, any actions of the fast paths and any number of
activations. `ExecutionInv` extends the executor's invariant. `CallerOK`: the activation of `execute()` is
that of the one run inside the call, and its command is the one this run built. `Keyed`: as the id of a
command is derived from its key, both maps agree, and a key with a receipt or a result was sent.
Hence runs are callers like any other (`ExecutionsAreCallers`, a refinement: the theorems about the executor
hold during an incident), and what `execute()` returns is what the maps hold, for the run that sent the
action and for the one that finds it remembered (`OutcomeTells`). So a run is past an action only if
that is VERIFIED (`ReportsAreVerified`), and sends an action only past those before it
(`ExecutionsFailStop`, with no bound on how many runs go through the proposal, and whether or not actions
repeat). For `FastPathsAreHeard`, `CurrentOK` carries that the versions of an undisturbed path are current
up to the check; `DroneIsNotTorn` follows from `SentIsPlanned`. The assumption `TypesOfCommands` says that
the command types of proposals and of the two fast paths differ, which is what the key is made of.

**SharedWorld** (`ExecutionProofs`). In the other modules each part meets an environment that was
written down, not composed. `PartsShareOneWorld` discharges it: every behaviour of executions, fast paths,
snapshots, bridges and monitors around one kernel is a behaviour of `ProposalExecution` and one of
`WorldObservers`. To the observers, what drives the executor is a direct writer, as its synchronization
updates with a content (`ExecutorWrites`, which needs the executor's invariant: what it has observed is one).
To the runs, an observer's step that leaves the version is none, because a no-op commits nothing, keeps no
key and is not counted (`QuietOperation`), and one that changes it is a write by others. The argument is
circular between the two, so it is carried by both invariants at once. Its hypothesis
`MaxVersion <= MaxWrites` says that the bound on others' worlds, which only the runs need, does not
cut off what the kernel allows.

**DeviceMovement** (`DeviceMovementProofs`), for any number of people, any spots, targets and
clearances and any leak. There are two layers.

*Geometry* (of `RouteSafety`, integers only). `_point_segment_distance` says of a leg that it is `d` away
from a point exactly if every point of the leg, at any fraction `k/m` of the way, is (`LegDistanceIsExact`):
before and behind the leg by monotony, beside it by Lagrange's identity (`Lagrange`, `Beside`).
`_push_outside_clearance` lands outside the clearance although its result is rounded, because the
margin is larger than the rounding (`PushClears`), and not farther than clearance and margin and one unit
(`PushIsShort`), hence `AdjustedIsNear` for any number of people. So a plan keeps the clearance on each
leg and ends where it was asked to, up to one adjustment for each person (`PlansKeepTheirDistance`).
The rounding and the recursion over the people need an induction over numbers: `LeastNumber` takes
the least exception to a claim, which the library states for sets and not for operators.

*Movement.* That a leg is safe does not follow from its plan, which is older: people walk between.
`MovementInv` says, of a device under way (`UnderWay`), that the *next* leg keeps the clearance
from the people as they were last `seen`, that an assigned one and the one after it miss the leak, and that
the route ends near the target of its order; of one that is not, that no route is left. `LegReached` decides
again before the next leg, which is what keeps the first part (`DrivenLegsAreSafe`); a refused leg ends
the route without an arrival, which keeps the rest (`ArrivalsAreReal`).
TLC agrees on the invariant in all states of `routes`.

**IncidentPlanning** (`IncidentPlanningProofs`). For any people, machines, zones and threads,
what the board accepts from the team holds `mower_1` if and only if somebody is in its zone in
the world in force when `submit()` began, and returns `mower_2` if and only if there is one
(`AcceptedPlansAnswer`); no plan is accepted outside the modes of its planner
(`PlansStayInTheirMode`); a team that starts is refused by none of its own harnesses and its
roles were selected and are active (`TablesAgree`). The invariant carries, per thread, that all
it has read is part of the past (`ReadsArePast`, equal versions meaning equal contents), that
its plan is the function of what it read (`PlanFollowsReads`), that `submit()` came later
(`SubmittedLater`), and that what was accepted still had the current versions
(`AcceptedInForce`). The lemma `TeamAnswers` is about the handlers alone.

**OperatorConsole** (`OperatorConsoleProofs`), for any set of texts and any number of resets and waiting
commands. `ConsoleInv` has `QueueWaitsOnLiveWork` together with what keeps it: generations before the
current one wait for no route, those after it are empty, and the page's approvals, cursor, mode
and intervals agree (`PageInv`). `OneTimeline` needs that an interval that runs is the one of
`runtime.timer`, and that each place that starts one first cancels that. `ClosedZoneStaysClosed` needs that a
route to the C zone is only under way while the hazard is not active (`OpenWay`): the leak is found
by a step of the scenario, which a route to C would have to be accepted after.

**Only model-checked**: liveness (`CallsReturn`, `RunsEnd`, `WorkEnds`, and the fairness half of the
board's refinement), which is out of the prover's reach. Every other property of the runs in
`PROJECT.json` that is expected to hold is proved for all values of the constants.

## 5. What the properties say about the code

- **Reads without a common lock.** The board and the executor compare versions read one after
  the other. Both are sound because versions only grow and because proposals and commands bear
  versions that were read before: an equality that holds at the last read held at the first.
  `AcceptedWasCurrent`, `ExecutedWasCurrent` and `AcceptedAnswersTheWorld` are this statement
  at three places. None of them says that the versions are *still* current when the decision
  is used: the code has no lock over that, and each consumer checks again.
- **Ledger first.** `PublishedIsAudited`, `LedgerReplaysToOrganization` and the refinement of
  `AuditedPublication` hold for acknowledged records. A record that reached the file of an
  append that raised is in the file too; whoever replays the file cannot tell it from the
  others, and its version is used again by the next transition.
- **At most once.** The executor sends a logical command once for every answer of the transport:
  `ExecutedAtMostOnce` is `sent <= 1 + raised`, because an exception out of the transport leaves
  nothing stored and a retry sends again. The mock adapter never raises.
- **Late answers.** The page drops what belongs to a generation that is over at both places where
  it could take effect, also where the request failed. Cancelled timers leave promises that
  never settle; `QueueWaitsOnLiveWork` says that none of them is one the current queue waits for.
- **Words decide.** Service and page each derive the intent from the text and block the model's; the
  page also blocks the service's when the two disagree. `EmergencyIsApproved` holds whatever the model
  says. It is about the *words*: a text that asks to defer and contains words of approval approves.
- **Fail-stop.** `ActionsInOrder` and `RunsReportWhatIsVerified` hold even when two threads
  execute one proposal, because the actions' keys are shared.

## 6. Divergences from the documents

Two runs end in a counterexample to a sentence of the repository (PROJECT.json "findings"):

1. `ledger_separated`: `read_all()` splits with `splitlines()`, which also ends lines at U+2028
   and U+0085; `model_dump_json()` leaves these inside a record. The record is acknowledged and
   then fails to parse.
2. `console_queue`: `assignMowingZone()` has no coordinates for the zones E to H that the pattern of a
   message admits. The exception leaves the fallback too and rejects `commandQueue`, to which every later
   command is chained with `then()` alone: none of them runs until the page is reset.

Four more have a configuration of their own, each of which TLC ends with a counterexample:

- `MCCommandExecutorMisread.cfg`: `_matches_expected()` compares status and zone but not the identity
  of the observed machine with the target, so another machine verifies the command.
- `MCProposalExecutionDecision.cfg`: the organization is bound after `validate_for_use()` returned and
  is not compared with the proposal's; a transition in between moves the decision into the new mode.
- `MCIncidentPlanningHolds.cfg`: `operations_handler()` consults `required_holds` for `mower_1` only;
  `mower_2` is returned to base out of a zone where safety requires it to hold.
- `MCOperatorConsoleMowing.cfg`: `clearMaintenanceHazard()` puts every holding mower outside the C zone
  back to mowing, also one that holds because of the emergency.

Met on the way, without a configuration:

- A torn line left by a failed append is glued to the next record, which makes that file raise on
  every later read (the failing append is reported, so `NoFalseAlarm` holds).
- "Latest" snapshots are the last *stored*, not the newest version.
- `ARCHITECTURE.md` says stale commands never reach an adapter and that a command is executed
  once, while nothing holds the versions between the check and the adapter call, and a transport
  exception lets a retry through.
- The timers of a route accepted before the storm overwrite the HOLDING of the intervention when they
  fire, and the closing message of the scenario says all have arrived whatever devices do.
- A second storm in the same page shows the organization version of the first.
- A text with two commands can be read as one of them by the service and the other by the page; the
  page then does nothing.
- After a deferral the incident can end only by an approval in words or by a reset, since the card is gone and
  the all-clear needs EMERGENCY. The assessment interval enters the steps by number, so it can move the cursor
  back behind a step that was asked for by a message.
- A response of the model that is not JSON is answered 400 `INVALID_CHAT_REQUEST`, as if the operator's
  request were malformed; a choice in it that is not an object drops the connection.
- Routes are rounded to a tenth and rechecked with a tolerance of a thousandth, so a leg
  planned on the clearance can be refused; and a device that stands too close to a person can never leave.

## 7. The plan

Done: the modules above, in the order kernel, mode manager, ledger, board, observers, executor,
executions, planning, console, routes, shared world, and the proofs of all of them.

Next, in this order:

1. The composition of console and movement: scenario steps that set the position of a device on a route.
2. The composition of board and incident planning, whose `submit()` is the board's without ids and audit:
   that an accepted plan of the team is an accepted proposal of `ProposalBoard`.

## 8. Running

    tlc -workers 2 -config MCProposalBoard.cfg MCProposalBoard
    tlapm ProposalBoardProofs.tla

Each run takes between a second and about two minutes; each proof module a few minutes or less
(`ExecutionProofs` and `DeviceMovementProofs` take longest).
