--------------------------- MODULE MCModeManager ---------------------------
(* TLC instances of ModeManager. *)
EXTENDS ModeManager, TLC

MCSymmetry == Permutations(Callers)
============================================================================
