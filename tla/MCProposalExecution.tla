------------------------ MODULE MCProposalExecution -------------------------
(***************************************************************************)
(* Small instances of ProposalExecution: a proposal of one action or of    *)
(* four, on m1 and on the drone, the third of which repeats the first and  *)
(* the last of which has no command type; a weather path that pauses m1    *)
(* and may recall the drone; a human-safety path that alerts one person,   *)
(* whose state is left out, and has the drone track her.                   *)
(***************************************************************************)
EXTENDS ProposalExecution

CONSTANTS m1, drone, mX, k1, k2, kU, kP, kR, kA, kT, r1, r2, w, h, rest, held

MCTargetOf == [k \in CommandKeys |-> IF k \in {k2, kR, kT} THEN drone ELSE m1]
MCEffectOf == [k \in CommandKeys |-> held]

OneAction == <<k1>>
FourActions == <<k1, k2, k1, kU>>
MCHolds == <<kP>>
MCAlerts == <<kA>>

\* Two executions of one proposal, both fast paths, or one with an execution.
MCOverlaps == {{r1, r2}, {w, h}, {r1, w}}
JustOne == {{r1}}
============================================================================
