---------------------------- MODULE RouteSafety -----------------------------
(***************************************************************************)
(* The pure part of movement: RouteSafetyPolicy.plan of                    *)
(* policies/route_safety.py, which planSafeRoute of ui/static/app.js       *)
(* repeats, and MovementAuthorityPolicy.decide of                          *)
(* policies/movement_authority.py.                                         *)
(*                                                                         *)
(* The course is a grid of whole units, to which the points the policy     *)
(* computes are rounded; distances are compared by their squares, without  *)
(* rounding.  Of the detours that keep the clearance the code takes the    *)
(* one with the largest, the model any.                                    *)
(***************************************************************************)
EXTENDS Integers, Sequences

Course == 0..100

Points == [x : Course, y : Course]
Point(x, y) == [x |-> x, y |-> y]

TargetMargin == 2
DetourMargin == 6

Clamp(v) == IF v < 2 THEN 2 ELSE IF v > 98 THEN 98 ELSE v

Square(n) == n * n

DistanceSquared(p, q) == Square(p.x - q.x) + Square(p.y - q.y)

\* size * d / sqrt(n), rounded; |d| <= sqrt(n)
Scaled(d, n, size) ==
  LET r == CHOOSE k \in 0..size :
             /\ k > 0 => Square(2 * k - 1) * n <= Square(2 * size * d)
             /\ k < size => Square(2 * size * d) < Square(2 * k + 1) * n
  IN IF d < 0 THEN -r ELSE r

\* The point at distance size from p in the direction (dx, dy).
Towards(p, dx, dy, size) ==
  LET n == Square(dx) + Square(dy)
      Shift(d) == IF n = 0 THEN 0 ELSE Scaled(d, n, size)
  IN Point(Clamp(p.x + Shift(dx)), Clamp(p.y + Shift(dy)))

Fraction(num, den) == [num |-> num, den |-> den]

\* _point_segment_distance, squared: the nearest point of a leg is one of its
\* ends or the foot of the perpendicular.
LegDistanceSquared(point, start, end) ==
  LET dx == end.x - start.x
      dy == end.y - start.y
      n == Square(dx) + Square(dy)
      along == (point.x - start.x) * dx + (point.y - start.y) * dy
  IN IF along <= 0 THEN Fraction(DistanceSquared(point, start), 1)
     ELSE IF along >= n THEN Fraction(DistanceSquared(point, end), 1)
     ELSE Fraction(Square((point.x - start.x) * dy - (point.y - start.y) * dx), n)

AtLeast(f, d) == f.num >= Square(d) * f.den
AtMost(f, d) == f.num <= Square(d) * f.den

\* people is a sequence of points.
LegIsClear(start, end, people, clearance) ==
  \A i \in DOMAIN people : AtLeast(LegDistanceSquared(people[i], start, end), clearance)

PathIsClear(path, people, clearance) ==
  \A i \in 1 .. Len(path) - 1 : LegIsClear(path[i], path[i + 1], people, clearance)

\* One step of _adjust_target: a target too close to a person is pushed away,
\* to the east if the person stands on it.
PushedFrom(target, person, required) ==
  IF DistanceSquared(target, person) >= Square(required) THEN target
  ELSE IF target = person THEN Towards(person, 1, 0, required)
  ELSE Towards(person, target.x - person.x, target.y - person.y, required)

AdjustTarget(target, people, clearance) ==
  LET adjusted[i \in 0 .. Len(people)] ==
        IF i = 0 THEN target
        ELSE PushedFrom(adjusted[i - 1], people[i], clearance + TargetMargin)
  IN adjusted[Len(people)]

Directions(start, target) ==
  LET dx == target.x - start.x
      dy == target.y - start.y
  IN {<<-dy, dx>>, <<dy, -dx>>} \cup (({-1, 0, 1} \X {-1, 0, 1}) \ {<<0, 0>>})

DetourCandidates(start, target, people, clearance) ==
  {Towards(people[i], d[1], d[2], clearance + DetourMargin) :
     i \in DOMAIN people, d \in Directions(start, target)}

\* The waypoints of the safe plans; none if the move is refused.
Plans(start, requested, people, clearance) ==
  LET target == AdjustTarget(requested, people, clearance)
      detours == {w \in DetourCandidates(start, target, people, clearance) :
                    PathIsClear(<<start, w, target>>, people, clearance)}
  IN IF PathIsClear(<<start, target>>, people, clearance) THEN {<<target>>}
     ELSE {<<w, target>> : w \in detours}

---------------------------------------------------------------------------
(* Movement authority *)

\* MovementAuthorityPolicy.decide
Decide(hazardActive, routeAffected) ==
  IF hazardActive /\ routeAffected THEN "HOLD_FOR_INSPECTION" ELSE "ALLOW"

\* evaluateMowerMovementAuthority and pathIntersectsHazard; hazard.zone holds
\* the targets of its zone, and a path that only touches the hazard is affected.
RouteAffected(path, requested, hazard) ==
  \/ requested \in hazard.zone
  \/ DistanceSquared(requested, hazard.center) <= Square(hazard.radius)
  \/ \E i \in 1 .. Len(path) - 1 :
       AtMost(LegDistanceSquared(hazard.center, path[i], path[i + 1]), hazard.radius)
=============================================================================
