---------------------------- MODULE SharedWorld -----------------------------
(***************************************************************************)
(* One kernel for all, as run_thunderstorm_demo() wires the runtime: the   *)
(* executor, which executions and fast paths drive, writes to the kernel   *)
(* that snapshots, sensor bridge and safety monitor read and write.        *)
(* ProposalExecution knows the latter as OthersWrite, WorldObservers the   *)
(* former as OtherWriter.                                                  *)
(***************************************************************************)
EXTENDS ProposalExecution, WorldObservers

sharedVars == <<allVars, observerVars>>

SharedInit == ExecutionInit /\ ObserversInit

Drive == (\E r \in Runs : RunStep(r)) /\ UNCHANGED observerVars

\* A world that is published here is published by somebody else for every run.
Observe ==
  /\ ObserversNext
  /\ disturbed' = IF version' = version THEN disturbed ELSE Runs
  /\ UNCHANGED <<executorVars, run, plan, proposal>>

ChangeOrganization ==
  /\ OthersTransition
  /\ disturbed' = Runs
  /\ UNCHANGED <<run, plan, proposal, observerVars>>

SharedNext == Drive \/ Observe \/ ChangeOrganization

SharedSpec == SharedInit /\ [][SharedNext]_sharedVars
=============================================================================
