------------------------- MODULE MCIncidentPlanning -------------------------
(* TLC instances of IncidentPlanning. *)
EXTENDS IncidentPlanning

MCMachines == {"mower_1", "mower_2"}
=============================================================================
