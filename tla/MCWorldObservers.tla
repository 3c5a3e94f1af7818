-------------------------- MODULE MCWorldObservers --------------------------
(* TLC instance of WorldObservers: one person, who may be evacuating or safe. *)
EXTENDS WorldObservers, TLC

MCEntities == {"player_1"}
MCContents == {"active", "evacuating", "safe"}
MCEvacuating(c) == "evacuating"
============================================================================
