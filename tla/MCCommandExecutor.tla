------------------------- MODULE MCCommandExecutor --------------------------
(***************************************************************************)
(* Small instances of CommandExecutor.  k1 and k2 command the two machines *)
(* of the world, kX a device only the adapter knows, kN is a notification. *)
(***************************************************************************)
EXTENDS CommandExecutor, TLC

CONSTANTS i1, i2, m1, m2, mX, k1, k2, kX, kN, rest, held

MCTargetOf == [k \in CommandKeys |->
  CASE k = k1 -> m1 [] k = k2 -> m2 [] k = kX -> mX [] OTHER -> m1]
MCEffectOf == [k \in CommandKeys |-> held]

IdSymmetry == Permutations({i1, i2})
============================================================================
