-------------------------- MODULE MCDeviceMovement --------------------------
(* TLC instances of DeviceMovement: mower_1 between its zone, two fairways, *)
(* the leak and the base, with two people on and beside its ways.           *)
EXTENDS DeviceMovement

MCStart == Point(28, 57)
MCTargets == {Point(20, 40), Point(60, 34), Point(76, 84)}
MCSpots == {Point(35, 52), Point(24, 48), Point(50, 51), Point(57, 74)}
MCHazard == [center |-> Point(56, 39), radius |-> 12, zone |-> {Point(60, 34)}]
============================================================================
