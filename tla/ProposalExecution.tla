------------------------- MODULE ProposalExecution --------------------------
(***************************************************************************)
(* What drives the executor during one incident, each in a thread of its   *)
(* own: execution/proposal_execution.py, which executes an approved        *)
(* proposal action by action, and policies/emergency_fast_path.py and      *)
(* human_safety_fast_path.py, which execute fixed actions without one.     *)
(* Several threads may execute the same proposal.  A command id is the     *)
(* uuid5 of its idempotency key, so the key stands for both.               *)
(***************************************************************************)
EXTENDS CommandExecutor, Functions

CONSTANTS
  Executions,   \* activations of execute_approved_proposal
  Actions,      \* the actions of the proposal, each with the key it leads to
  Unsupported,  \* keys whose action has no command type
  Weather,      \* the activation of EmergencyFastPath.execute, or none
  People,       \* the activation of HumanSafetyFastPath.execute, or none
  Holds,        \* the fixed actions of the weather path
  Recall,       \* RECALL_DRONE, the last of them
  Alerts,       \* ALERT_PERSON of each person
  Track,        \* TRACK_PERSON, by the drone
  Overlaps      \* the sets of activations that may overlap: bounds the runs

FastPaths == Weather \cup People
Runs == Executions \cup FastPaths

ASSUME ProposalExecutionAssumption ==
  /\ Ids = CommandKeys
  /\ Actions \in Seq(CommandKeys) /\ Actions # <<>>
  /\ Unsupported \subseteq CommandKeys
  /\ Holds \in Seq(CommandKeys) /\ Alerts \in Seq(CommandKeys)
  /\ Recall \in CommandKeys /\ Track \in CommandKeys
  /\ Overlaps \subseteq SUBSET Runs
  /\ Executions \cap FastPaths = {} /\ Weather \cap People = {}

\* A key names its command type.  Proposals lead to HOLD_POSITION, RETURN_TO_BASE
\* and NOTIFY_OPERATOR, the fast paths to PAUSE_MACHINE, FREEZE_NEW_TASKS,
\* RECALL_DRONE, ALERT_PERSON and TRACK_PERSON.
ASSUME TypesOfCommands ==
  /\ Range(Actions) \cap (Range(Holds) \cup Range(Alerts) \cup {Recall, Track}) = {}
  /\ Recall \notin Range(Holds) \cup Range(Alerts) \cup {Track}
  /\ Track \notin Range(Holds)

VARIABLES
  run,        \* run -> its activation
  plan,       \* run -> the keys it goes through
  proposal,   \* the versions the proposal was decided under
  disturbed   \* history: runs during which somebody else published

runVars == <<run, plan, proposal, disturbed>>
allVars == <<vars, runVars>>

Ended == {"ended", "raised"}

CommandOf(k, world, organization) ==
  [id |-> k, key |-> k, world |-> world, org |-> organization]

\* Mutant: the drone is recalled whoever is exposed.
WeatherPlanRecalling(exposed) == Append(Holds, Recall)

\* A drone may be needed by the people who are exposed.
WeatherPlan(exposed) == IF exposed THEN Holds ELSE Append(Holds, Recall)

PeoplePlan(exposed) == IF exposed THEN Append(Alerts, Track) ELSE <<>>

---------------------------------------------------------------------------

\* The denial and mismatch checks pass for an approved proposal.
\* validate_for_use accepts when the proposal's versions were both current at
\* one instant of the call: this is that instant.
Validate(r) ==
  /\ run[r].step = "start" /\ r \in Executions
  /\ run' = [run EXCEPT ![r].step =
       IF proposal.world = version /\ proposal.org = org THEN "bind" ELSE "raised"]
  /\ UNCHANGED <<vars, plan, proposal, disturbed>>

\* execution_org_version is read.
Bind(r) ==
  /\ run[r].step = "bind"
  /\ run' = [run EXCEPT ![r].step = "check", ![r].org = org]
  /\ UNCHANGED <<vars, plan, proposal, disturbed>>

\* Head of the loop: the organization must still be the one bound.
Check(r) ==
  /\ run[r].step = "check" /\ r \in Executions
  /\ run' = [run EXCEPT ![r].step =
       IF run[r].next > Len(plan[r]) \/ org # run[r].org THEN "ended" ELSE "stamp"]
  /\ UNCHANGED <<vars, plan, proposal, disturbed>>

\* Head of a fast path's loop: the organization is read for each action.
CheckFast(r) ==
  /\ run[r].step = "check" /\ r \in FastPaths
  /\ run' = IF run[r].next > Len(plan[r]) THEN [run EXCEPT ![r].step = "ended"]
            ELSE [run EXCEPT ![r].step = "stamp", ![r].org = org]
  /\ UNCHANGED <<vars, plan, proposal, disturbed>>

\* Mutant: the world version is read once, before the loop.
StampedOnce(r) == IF run[r].next = 1 THEN version ELSE run[r].world

Stamped(r) == version

\* The world version is read and the command built, or the action has none.
Stamp(r) ==
  /\ run[r].step = "stamp"
  /\ run' = [run EXCEPT
       ![r].step = IF plan[r][run[r].next] \in Unsupported THEN "raised" ELSE "call",
       ![r].world = Stamped(r)]
  /\ UNCHANGED <<vars, plan, proposal, disturbed>>

\* executor.execute(command): its Begin, by this caller.
Call(r) ==
  /\ run[r].step = "call"
  /\ Begin(CommandOf(plan[r][run[r].next], run[r].world, run[r].org))
  /\ run' = [run EXCEPT ![r].step = "calling"]
  /\ UNCHANGED <<plan, proposal, disturbed>>

\* What execute() returns when its activation ends.
Outcome ==
  IF call.step = "organization"
  THEN IF Stale(call.cmd, call.world) THEN "FAILED" ELSE Remembered(call.cmd).status
  ELSE IF call.step = "execute" THEN "RAISED" ELSE byKey'[call.cmd.key].status

\* Mutants: the loop goes on after a failure, or repeats its action.
AfterFailing(activation, outcome) ==
  IF outcome = "RAISED" THEN [activation EXCEPT !.step = "raised"]
  ELSE [activation EXCEPT !.step = "check", !.next = @ + 1]
AfterRepeating(activation, outcome) ==
  IF outcome = "VERIFIED" THEN [activation EXCEPT !.step = "check"]
  ELSE [activation EXCEPT !.step = "ended"]
\* An exception leaves the loop with no results; FAILED and UNKNOWN stop it.
After(activation, outcome) ==
  CASE outcome = "RAISED"   -> [activation EXCEPT !.step = "raised"]
    [] outcome = "VERIFIED" -> [activation EXCEPT !.step = "check", !.next = @ + 1]
    [] OTHER                -> [activation EXCEPT !.step = "ended"]

\* A fast path goes on to its next action whatever became of the last.
AfterFast(activation, outcome) ==
  IF outcome = "RAISED" THEN [activation EXCEPT !.step = "raised"]
  ELSE [activation EXCEPT !.step = "check", !.next = @ + 1]

\* The executor goes on in the thread of the run that called it.
Calling(r) ==
  /\ run[r].step = "calling"
  /\ ExecutorStep
  /\ run' = IF call' # Idle THEN run
            ELSE [run EXCEPT ![r] = IF r \in FastPaths THEN AfterFast(run[r], Outcome)
                                    ELSE After(run[r], Outcome)]
  /\ disturbed' = IF version' = version THEN disturbed ELSE disturbed \cup (Runs \ {r})
  /\ UNCHANGED <<plan, proposal>>

RunStep(r) ==
  Validate(r) \/ Bind(r) \/ Check(r) \/ CheckFast(r) \/ Stamp(r) \/ Call(r) \/ Calling(r)

Others ==
  /\ OthersWrite \/ OthersTransition
  /\ disturbed' = Runs
  /\ UNCHANGED <<run, plan, proposal>>

ExecutionInit ==
  /\ SystemInit
  /\ \E started \in Overlaps :
       run = [r \in Runs |-> [step |-> IF r \notin started THEN "ended"
                                      ELSE IF r \in Executions THEN "start" ELSE "check",
                              next |-> 1, org |-> 1, world |-> 0]]
  /\ \E exposed \in BOOLEAN :   \* people in a zone in the snapshot of both fast paths
       plan = [r \in Runs |-> IF r \in Weather THEN WeatherPlan(exposed)
                              ELSE IF r \in People THEN PeoplePlan(exposed) ELSE Actions]
  /\ disturbed = {}
  /\ proposal = [world |-> version, org |-> org]

\* Every run has ended.
Finished ==
  /\ \A r \in Runs : run[r].step \in Ended
  /\ UNCHANGED allVars

ExecutionNext == (\E r \in Runs : RunStep(r)) \/ Others \/ Finished

ExecutionSpec == ExecutionInit /\ [][ExecutionNext]_allVars

\* Each thread that can go on does: the executor lock is granted to a waiter
\* when it is released, and transports answer within their timeout.
FairExecutionSpec == ExecutionSpec /\ \A r \in Runs : WF_allVars(RunStep(r))

---------------------------------------------------------------------------
(* Properties *)

\* The type invariant of the runs.
ExecutionTypeOK ==
  /\ ExecutorTypeOK
  /\ run \in [Runs -> [step : {"start", "bind", "check", "stamp", "call", "calling"} \cup Ended,
                       next : Nat \ {0}, org : 1..MaxOrg, world : 0..MaxVersion]]
  /\ \A r \in Runs : run[r].next <= Len(plan[r]) + 1

Verified(k) == byKey[k] # Nothing /\ byKey[k].status = "VERIFIED"

\* Fail-stop: an action is sent to a device only when every action before it
\* is VERIFIED, whichever of the concurrent runs sent which.  (An action that
\* repeats an earlier one was sent there.)
ActionsInOrder ==
  \A i, j \in DOMAIN Actions :
    i < j /\ sent[Actions[j]] > 0 =>
      Verified(Actions[i]) \/ \E first \in 1..i : Actions[first] = Actions[j]

\* What a run reports as done is VERIFIED, and a run that went through all
\* actions leaves all of them VERIFIED.
RunsReportWhatIsVerified ==
  \A r \in Executions, i \in DOMAIN Actions : i < run[r].next => Verified(Actions[i])

\* A fast path's own commits do not make its later commands stale: when nobody
\* else published during it, it has sent every action it went through, and a
\* failed action did not keep it from the ones after it.
FastPathsReachDevices ==
  \A r \in FastPaths \ disturbed : \A i \in DOMAIN plan[r] :
    i < run[r].next => sent[plan[r][i]] > 0

\* The two fast paths of one snapshot do not send the drone both home and
\* after a person.
DroneHasOneTask == ~(sent[Recall] > 0 /\ sent[Track] > 0)

\* Every run ends, by its results or by an exception.
RunsEnd == <>(\A r \in Runs : run[r].step \in Ended)

\* "This prevents a decision created under NORMAL authority from executing
\* after the runtime enters EMERGENCY": a command past the executor's checks
\* bears the organization version of the decision it executes.
DecisionKeepsItsOrganization ==
  \A r \in Executions :
    run[r].step = "calling" /\ call.step \notin {"idle", "organization"} =>
      call.cmd.org = proposal.org
============================================================================
