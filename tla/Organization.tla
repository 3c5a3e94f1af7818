--------------------------- MODULE Organization ---------------------------
(***************************************************************************)
(* The static organization tables of organization/mode_manager.py: the     *)
(* operating modes, the roles, which roles each mode activates, who        *)
(* reports to whom and which mode changes are legal.                       *)
(***************************************************************************)

Modes == {"NORMAL", "WATCH", "EMERGENCY", "RECOVERY"}

RegisteredRoles ==
  {"supervisor", "safety", "operations", "maintenance", "resource",
   "communication", "incident_commander", "logistics", "turf_optimizer",
   "cost_optimizer", "daily_scheduler"}

LegalTransitions ==
  {<<"NORMAL", "WATCH">>, <<"WATCH", "NORMAL">>, <<"WATCH", "EMERGENCY">>,
   <<"NORMAL", "EMERGENCY">>, <<"EMERGENCY", "RECOVERY">>,
   <<"RECOVERY", "NORMAL">>, <<"RECOVERY", "EMERGENCY">>}

NormalRoles ==
  {"supervisor", "safety", "operations", "maintenance", "resource", "communication"}

ActiveRoles ==
  [NORMAL    |-> NormalRoles,
   WATCH     |-> NormalRoles,
   EMERGENCY |-> {"incident_commander", "safety", "operations", "logistics",
                  "communication"},
   RECOVERY  |-> {"incident_commander", "safety", "operations", "maintenance",
                  "logistics", "communication"}]

===========================================================================
