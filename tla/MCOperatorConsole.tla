------------------------- MODULE MCOperatorConsole -------------------------
(* TLC instances of OperatorConsole. *)
EXTENDS OperatorConsole

Say(cues, zone, machine) == [cues |-> cues, zone |-> zone, machine |-> machine]
Plain(cues) == Say(cues, Unnamed, Unnamed)

\* Every single command, and messages in which two commands meet.
MCTexts ==
  {Plain({}), Plain({"drone", "inspect", "start"}), Plain({"task"}), Plain({"storm"}),
   Plain({"assess"}), Plain({"organize"}), Plain({"request"}), Plain({"approve"}),
   Plain({"defer"}), Plain({"allclear"}), Say({"cleared"}, "C", Unnamed),
   Say({"mower", "home"}, Unnamed, "mower_1"), Plain({"mower", "home"}),
   Say({"mower", "go"}, "A", "mower_1"), Say({"mower", "go"}, "C", "mower_1"),
   Say({"mower", "go"}, "E", "mower_1"),
   Say({"drone", "go"}, "E", Unnamed),
   Plain({"request", "approve"}), Plain({"approve", "defer"}), Plain({"allclear", "approve"}),
   Say({"cleared", "mower", "go"}, "C", "mower_1")}
============================================================================
