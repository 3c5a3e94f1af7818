------------------------ MODULE DeviceMovementProofs ------------------------
(***************************************************************************)
(* Proofs about RouteSafety and DeviceMovement, for any number of people,  *)
(* any spots, targets and clearance, and any hazard.  The induction over   *)
(* numbers they need (for the rounding and for the recursion of            *)
(* _adjust_target) is by the least exception: lemma LeastNumber.           *)
(***************************************************************************)
EXTENDS DeviceMovement, SequenceTheorems, WellFoundedInduction, TLAPS

---------------------------------------------------------------------------
(* Numbers *)

LEMMA SquareNonNegative ==
  ASSUME NEW a \in Int
  PROVE  a * a \in Int /\ a * a >= 0
  OBVIOUS

LEMMA ProductNonNegative ==
  ASSUME NEW a \in Int, NEW b \in Int, a >= 0, b >= 0
  PROVE  a * b \in Int /\ a * b >= 0
  OBVIOUS

LEMMA SquareMonotone ==
  ASSUME NEW a \in Int, NEW b \in Int, 0 <= a, a <= b
  PROVE  a * a <= b * b
  OBVIOUS

LEMMA SquareWithin ==
  ASSUME NEW e \in Int, NEW k \in Int, e <= k, -e <= k
  PROVE  e * e <= k * k
<1>1. CASE e >= 0
  BY <1>1, SquareMonotone
<1>2. CASE e < 0
  <2>1. (-e) * (-e) <= k * k
    BY <1>2, SquareMonotone
  <2>2. (-e) * (-e) = e * e
    OBVIOUS
  <2>3. QED BY <2>1, <2>2
<1>3. QED BY <1>1, <1>2

LEMMA SquareReflects ==
  ASSUME NEW a \in Int, NEW b \in Int, 0 <= b, a * a <= b * b
  PROVE  a <= b
<1>1. CASE a < 0
  BY <1>1
<1>2. CASE a >= 0 /\ a > b
  <2>1. (b + 1) * (b + 1) <= a * a
    BY <1>2, SquareMonotone
  <2>2. (b + 1) * (b + 1) = b * b + 2 * b + 1
    OBVIOUS
  <2>3. QED BY <2>1, <2>2
<1>3. QED BY <1>1, <1>2

LEMMA CancelFactor ==
  ASSUME NEW a \in Int, NEW b \in Int, NEW n \in Int, n > 0, a * n >= b * n
  PROVE  a >= b
  OBVIOUS

\* The product of two sums of squares: the squares of cross and scalar product.
LEMMA Lagrange ==
  ASSUME NEW u \in Int, NEW v \in Int, NEW x \in Int, NEW y \in Int
  PROVE  (u * u + v * v) * (x * x + y * y)
           = (u * y - v * x) * (u * y - v * x) + (u * x + v * y) * (u * x + v * y)
  OBVIOUS

LEMMA ScaledUp ==
  ASSUME NEW m \in Int, NEW e \in Int, NEW f \in Int, e >= f
  PROVE  m * m * e >= m * m * f
<1>1. m * m * e - m * m * f = (m * m) * (e - f)
  OBVIOUS
<1>2. m * m \in Int /\ m * m >= 0 /\ e - f \in Int /\ e - f >= 0
  BY SquareNonNegative
<1>3. (m * m) * (e - f) >= 0
  BY <1>2, ProductNonNegative
<1>4. QED BY <1>1, <1>3

\* The least number of a set: what holds of a number if it holds of all smaller
\* ones, holds of every number, as there is no least exception.
LEMMA LeastNumber ==
  ASSUME NEW T \in SUBSET Nat, T # {}
  PROVE  \E x \in T : \A y \in T : x <= y
<1> DEFINE R == {ss \in Nat \X Nat : ss[1] < ss[2]}
<1>1. IsWellFoundedOn(R, Nat)
  BY NatLessThanWellFounded DEF OpToRel
<1>2. PICK x \in T : \A y \in T : <<y, x>> \notin R
  BY <1>1, WFMin
<1>3. ASSUME NEW y \in T
      PROVE  x <= y
  <2>1. <<y, x>> \notin R
    BY <1>2
  <2>2. x \in Nat /\ y \in Nat
    OBVIOUS
  <2>3. ~ (y < x)
    BY <2>1, <2>2
  <2>4. QED BY <2>2, <2>3
<1>4. QED BY <1>3

LEMMA PointTypes ==
  ASSUME NEW p \in Points
  PROVE  /\ p.x \in Int /\ p.x >= 0 /\ p.x <= 100
         /\ p.y \in Int /\ p.y >= 0 /\ p.y <= 100
  BY DEF Points, Course

LEMMA DistanceSymmetric ==
  ASSUME NEW p \in Points, NEW q \in Points
  PROVE  DistanceSquared(p, q) = DistanceSquared(q, p)
  BY PointTypes DEF DistanceSquared, Square

\* The triangle inequality, of squared distances.
LEMMA Triangle ==
  ASSUME NEW p \in Points, NEW q \in Points, NEW r \in Points, NEW a \in Nat, NEW b \in Nat,
         DistanceSquared(p, q) <= Square(a), DistanceSquared(q, r) <= Square(b)
  PROVE  DistanceSquared(p, r) <= Square(a + b)
<1> DEFINE u == p.x - q.x
           v == p.y - q.y
           x == q.x - r.x
           y == q.y - r.y
<1>1. u \in Int /\ v \in Int /\ x \in Int /\ y \in Int /\ p.x - r.x = u + x /\ p.y - r.y = v + y
  BY PointTypes
<1>2. u * u + v * v <= a * a /\ x * x + y * y <= b * b
  BY DEF DistanceSquared, Square
<1>3. DistanceSquared(p, r) = (u + x) * (u + x) + (v + y) * (v + y)
  BY <1>1 DEF DistanceSquared, Square
<1> HIDE DEF u, v, x, y
<1>4. (u * x + v * y) * (u * x + v * y) <= (a * b) * (a * b)
  <2>1. (u * x + v * y) * (u * x + v * y) <= (u * u + v * v) * (x * x + y * y)
    <3>1. (u * y - v * x) * (u * y - v * x) >= 0
      BY <1>1, SquareNonNegative
    <3>2. QED BY <1>1, <3>1, Lagrange
  <2>2. (u * u + v * v) * (x * x + y * y) <= (a * a) * (b * b)
    <3>1. /\ u * u + v * v \in Int /\ u * u + v * v >= 0
          /\ x * x + y * y \in Int /\ x * x + y * y >= 0
      BY <1>1, SquareNonNegative
    <3>2. (u * u + v * v) * (x * x + y * y) <= (a * a) * (x * x + y * y)
      BY <1>1, <1>2, <3>1
    <3>3. (a * a) * (x * x + y * y) <= (a * a) * (b * b)
      BY <1>1, <1>2, <3>1
    <3>4. QED BY <1>1, <3>1, <3>2, <3>3
  <2>3. (a * a) * (b * b) = (a * b) * (a * b)
    OBVIOUS
  <2>4. QED BY <1>1, <2>1, <2>2, <2>3
<1>5. u * x + v * y <= a * b
  <2>1. a * b \in Int /\ a * b >= 0 /\ u * x + v * y \in Int
    BY <1>1, ProductNonNegative
  <2>2. QED BY <1>4, <2>1, SquareReflects
<1>6. (u + x) * (u + x) + (v + y) * (v + y)
        = (u * u + v * v) + (x * x + y * y) + 2 * (u * x + v * y)
  BY <1>1
<1>7. (a + b) * (a + b) = a * a + b * b + 2 * (a * b)
  OBVIOUS
<1>8. QED BY <1>1, <1>2, <1>3, <1>5, <1>6, <1>7 DEF Square

---------------------------------------------------------------------------
(* Rounding *)

\* k is size * |d| / sqrt(n), rounded.
Rounds(k, d, n, size) ==
  /\ k > 0 => Square(2 * k - 1) * n <= Square(2 * size * d)
  /\ k < size => Square(2 * size * d) < Square(2 * k + 1) * n

\* There is such a number: the least one that is not too small.
LEMMA RoundingExists ==
  ASSUME NEW d \in Int, NEW n \in Nat, NEW size \in Nat
  PROVE  \E k \in 0..size : Rounds(k, d, n, size)
<1> DEFINE T == {k \in 0..size : k = size \/ Square(2 * size * d) < Square(2 * k + 1) * n}
<1>1. size \in T
  OBVIOUS
<1>2. T \in SUBSET Nat
  OBVIOUS
<1>3. PICK k \in T : \A j \in T : k <= j
  BY <1>1, <1>2, LeastNumber
<1>4. k \in 0..size /\ (k < size => Square(2 * size * d) < Square(2 * k + 1) * n)
  OBVIOUS
<1>5. ASSUME k > 0
      PROVE  Square(2 * k - 1) * n <= Square(2 * size * d)
  <2>1. k - 1 \in 0..size /\ k - 1 # size
    BY <1>4, <1>5
  <2>2. k - 1 \notin T
    BY <1>3, <1>4
  <2>3. ~ (Square(2 * size * d) < Square(2 * (k - 1) + 1) * n)
    BY <2>1, <2>2
  <2>4. 2 * (k - 1) + 1 = 2 * k - 1
    BY <1>4
  <2>5. Square(2 * size * d) \in Int /\ Square(2 * k - 1) * n \in Int
    BY <1>4 DEF Square
  <2>6. QED BY <2>3, <2>4, <2>5
<1>6. QED BY <1>4, <1>5 DEF Rounds

LEMMA ScaledRounds ==
  ASSUME NEW d \in Int, NEW n \in Nat, NEW size \in Nat
  PROVE  \E k \in 0..size : /\ Rounds(k, d, n, size)
                            /\ Scaled(d, n, size) = IF d < 0 THEN -k ELSE k
<1> DEFINE r == CHOOSE k \in 0..size : Rounds(k, d, n, size)
<1>1. r \in 0..size /\ Rounds(r, d, n, size)
  BY RoundingExists
<1>2. Scaled(d, n, size) = IF d < 0 THEN -r ELSE r
  BY DEF Scaled, Rounds
<1> HIDE DEF r
<1>3. QED BY <1>1, <1>2

\* A vector of length R whose coordinates are rounded is no longer than R + 1,
LEMMA RoundedPair ==
  ASSUME NEW x \in Int, NEW y \in Int, NEW n \in Nat, n = x * x + y * y, n > 0,
         NEW R \in Nat, NEW j \in 0..R, NEW k \in 0..R, Rounds(j, x, n, R), Rounds(k, y, n, R)
  PROVE  j * j + k * k <= (R + 1) * (R + 1)
<1>0. /\ j \in Int /\ k \in Int /\ R \in Int /\ 0 <= j /\ j <= R /\ 0 <= k /\ k <= R
      /\ (R + 1) * (R + 1) = R * R + 2 * R + 1
  OBVIOUS
<1>1. CASE j = 0
  <2>1. k * k <= R * R
    BY <1>0, SquareMonotone
  <2>2. QED BY <1>0, <1>1, <2>1
<1>2. CASE k = 0
  <2>1. j * j <= R * R
    BY <1>0, SquareMonotone
  <2>2. QED BY <1>0, <1>2, <2>1
<1>3. CASE j > 0 /\ k > 0
  <2> DEFINE p == 2 * j - 1
             q == 2 * k - 1
  <2>1. p \in Int /\ q \in Int /\ p * p \in Int /\ q * q \in Int
    BY <1>0
  <2>2. p * p * n <= 4 * (R * R) * (x * x) /\ q * q * n <= 4 * (R * R) * (y * y)
    BY <1>0, <1>3 DEF Rounds, Square
  <2>3. j = p - j + 1 /\ k = q - k + 1
    BY <1>0
  <2>4. 4 * (j * j) = p * p + 2 * p + 1 /\ 4 * (k * k) = q * q + 2 * q + 1
    BY <1>0
  <2> HIDE DEF p, q
  <2>5. p * p + q * q <= 4 * (R * R)
    <3>1. (p * p + q * q) * n <= (4 * (R * R)) * n
      BY <2>1, <2>2, <1>0
    <3>2. QED BY <3>1, <2>1, <1>0, CancelFactor
  <2>6. p + q <= 3 * R
    <3>1. (p + q) * (p + q) + (p - q) * (p - q) = 2 * (p * p + q * q)
      BY <2>1
    <3>2. (p - q) * (p - q) >= 0
      BY <2>1, SquareNonNegative
    <3>3. R * R >= 0 /\ (3 * R) * (3 * R) = 9 * (R * R)
      BY <1>0, SquareNonNegative
    <3>4. (p + q) * (p + q) <= (3 * R) * (3 * R)
      BY <3>1, <3>2, <3>3, <2>5, <2>1, <1>0
    <3>5. QED BY <3>4, <2>1, <1>0, SquareReflects
  <2>7. 4 * (j * j + k * k) <= 4 * (R * R) + 2 * (3 * R) + 2
    BY <1>0, <2>1, <2>4, <2>5, <2>6
  <2>8. QED BY <1>0, <2>7
<1>4. QED BY <1>0, <1>1, <1>2, <1>3

\* and no shorter than R - 1.
LEMMA RoundedIsLong ==
  ASSUME NEW x \in Int, NEW y \in Int, NEW n \in Nat, n = x * x + y * y, n > 0,
         NEW R \in Nat, R >= 1, NEW j \in 0..R, NEW k \in 0..R,
         Rounds(j, x, n, R), Rounds(k, y, n, R)
  PROVE  j * j + k * k >= (R - 1) * (R - 1)
<1>1. /\ j \in Int /\ k \in Int /\ R \in Int /\ 0 <= j /\ j <= R /\ 0 <= k /\ k <= R
      /\ (R - 1) * (R - 1) = R * R - 2 * R + 1 /\ j * j >= 0 /\ k * k >= 0
  BY SquareNonNegative
<1>2. CASE j = R \/ k = R
  BY <1>1, <1>2
<1>3. CASE j < R /\ k < R
  <2> DEFINE p == 2 * j + 1
             q == 2 * k + 1
  <2>1. p \in Int /\ q \in Int /\ p * p \in Int /\ q * q \in Int
    BY <1>1
  <2>2. 4 * (R * R) * (x * x) < p * p * n /\ 4 * (R * R) * (y * y) < q * q * n
    BY <1>1, <1>3 DEF Rounds, Square
  <2>3. p * p = 4 * (j * j) + 4 * j + 1 /\ q * q = 4 * (k * k) + 4 * k + 1
    BY <1>1
  <2> HIDE DEF p, q
  <2>4. p * p + q * q >= 4 * (R * R)
    <3>1. (p * p + q * q) * n >= (4 * (R * R)) * n
      BY <2>1, <2>2, <1>1
    <3>2. QED BY <3>1, <2>1, <1>1, CancelFactor
  <2>5. ASSUME j * j + k * k < (R - 1) * (R - 1)
        PROVE  FALSE
    <3>1. (j + k) * (j + k) + (j - k) * (j - k) = 2 * (j * j + k * k)
      BY <1>1
    <3>2. (j - k) * (j - k) >= 0
      BY <1>1, SquareNonNegative
    <3>3. (2 * (j + k)) * (2 * (j + k)) <= (3 * (R - 1)) * (3 * (R - 1))
      <4>1. (2 * (j + k)) * (2 * (j + k)) = 4 * ((j + k) * (j + k))
        BY <1>1
      <4>2. (3 * (R - 1)) * (3 * (R - 1)) = 9 * ((R - 1) * (R - 1)) /\ (R - 1) * (R - 1) >= 0
        BY <1>1, SquareNonNegative
      <4>3. QED BY <1>1, <2>5, <3>1, <3>2, <4>1, <4>2
    <3>4. 2 * (j + k) <= 3 * (R - 1)
      BY <1>1, <3>3, SquareReflects
    <3>5. QED BY <1>1, <2>3, <2>4, <2>5, <3>4
  <2>6. QED BY <1>1, <2>5
<1>4. QED BY <1>1, <1>2, <1>3

\* A coordinate that is stretched to length R does not shrink.
LEMMA NotShortened ==
  ASSUME NEW x \in Int, NEW n \in Nat, NEW R \in Nat, NEW k \in 0..R,
         x * x <= n, n < R * R, Rounds(k, x, n, R)
  PROVE  x <= k /\ -x <= k
<1>0. k \in Int /\ R \in Int /\ 0 <= k /\ k <= R /\ -x \in Int /\ (-x) * (-x) = x * x
  OBVIOUS
<1>1. x * x <= k * k
  <2>1. CASE k = R
    BY <2>1
  <2>2. CASE k < R /\ x * x > k * k
    <3>1. 4 * (R * R) * (x * x) < (2 * k + 1) * (2 * k + 1) * n
      BY <1>0, <2>2 DEF Rounds, Square
    <3>2. (2 * k + 1) * (2 * k + 1) * n <= (2 * k + 1) * (2 * k + 1) * (R * R)
      BY <1>0
    <3>3. 4 * (x * x) < (2 * k + 1) * (2 * k + 1)
      BY <1>0, <3>1, <3>2
    <3>4. (k + 1) * (k + 1) <= x * x
      <4>1. CASE x >= 0
        <5>1. ~ (x <= k)
          BY <1>0, <4>1, <2>2, SquareMonotone
        <5>2. QED BY <1>0, <5>1, SquareMonotone
      <4>2. CASE x < 0
        <5>1. ~ (-x <= k)
          BY <1>0, <4>2, <2>2, SquareMonotone
        <5>2. (k + 1) * (k + 1) <= (-x) * (-x)
          BY <1>0, <5>1, SquareMonotone
        <5>3. QED BY <1>0, <5>2
      <4>3. QED BY <4>1, <4>2
    <3>5. QED BY <1>0, <3>3, <3>4
  <2>3. QED BY <1>0, <2>1, <2>2
<1>2. QED BY <1>0, <1>1, SquareReflects

---------------------------------------------------------------------------
(* Pushes *)

LEMMA ClampOnCourse ==
  ASSUME NEW v \in Int
  PROVE  Clamp(v) \in Course
  BY DEF Clamp, Course

LEMMA TowardsOnCourse ==
  ASSUME NEW p \in Points, NEW x \in Int, NEW y \in Int, NEW size \in Nat
  PROVE  Towards(p, x, y, size) \in Points
<1> DEFINE n == Square(x) + Square(y)
           Shift(d) == IF n = 0 THEN 0 ELSE Scaled(d, n, size)
<1>1. n \in Nat
  BY SquareNonNegative DEF Square
<1>2. Shift(x) \in Int /\ Shift(y) \in Int
  <2> HIDE DEF n
  <2>1. ASSUME NEW d \in Int PROVE Scaled(d, n, size) \in Int
    <3>1. PICK k \in 0..size : Scaled(d, n, size) = IF d < 0 THEN -k ELSE k
      BY <1>1, ScaledRounds
    <3>2. QED BY <3>1
  <2>2. QED BY <2>1
<1>3. Towards(p, x, y, size) = Point(Clamp(p.x + Shift(x)), Clamp(p.y + Shift(y)))
  BY DEF Towards
<1> HIDE DEF Shift
<1>4. p.x + Shift(x) \in Int /\ p.y + Shift(y) \in Int
  BY <1>2, PointTypes
<1>5. QED BY <1>3, <1>4, ClampOnCourse DEF Point, Points

LEMMA PushedOnCourse ==
  ASSUME NEW t \in Points, NEW p \in Points, NEW R \in Nat
  PROVE  PushedFrom(t, p, R) \in Points
<1>1. t.x - p.x \in Int /\ t.y - p.y \in Int
  BY PointTypes
<1>2. QED BY <1>1, TowardsOnCourse DEF PushedFrom

\* One coordinate of a push: from p to p + d, by way of t, is no further from t
\* than k, except where the border takes it back by 2 at most.
LEMMA CoordinateMoves ==
  ASSUME NEW p \in 0..100, NEW t \in 0..100, NEW d \in Int, NEW k \in Nat,
         t - p <= k, p - t <= k,
         (d = k /\ t >= p) \/ (d = -k /\ t <= p)
  PROVE  /\ Clamp(p + d) \in Int
         /\ \/ (t - Clamp(p + d)) * (t - Clamp(p + d)) <= k * k
            \/ (t - Clamp(p + d)) * (t - Clamp(p + d)) <= 4
<1> DEFINE c == Clamp(p + d)
<1>1. c \in Int
  BY DEF Clamp
<1>2. \/ t - c <= k /\ c - t <= k
      \/ t - c <= 2 /\ c - t <= 2
  BY DEF Clamp
<1>3. SUFFICES (t - c) * (t - c) <= k * k \/ (t - c) * (t - c) <= 4
  BY <1>1
<1> HIDE DEF c
<1>4. CASE t - c <= k /\ c - t <= k
  <2>1. t - c \in Int /\ k \in Int /\ t - c <= k /\ -(t - c) <= k
    BY <1>1, <1>4
  <2>2. (t - c) * (t - c) <= k * k
    BY <2>1, SquareWithin
  <2>3. QED BY <1>1, <2>2
<1>5. CASE t - c <= 2 /\ c - t <= 2
  <2>1. t - c \in Int /\ t - c <= 2 /\ -(t - c) <= 2
    BY <1>1, <1>5
  <2>2. (t - c) * (t - c) <= 2 * 2
    BY <2>1, SquareWithin
  <2>3. QED BY <1>1, <2>2
<1>6. QED BY <1>2, <1>4, <1>5

LEMMA TowardsIsNear ==
  ASSUME NEW t \in Points, NEW p \in Points, NEW x \in Int, NEW y \in Int,
         NEW R \in Nat, R >= 3, NEW n \in Nat, n = x * x + y * y, n > 0,
         x < 0 => t.x <= p.x, x >= 0 => t.x >= p.x,
         y < 0 => t.y <= p.y, y >= 0 => t.y >= p.y,
         \A k \in 0..R : Rounds(k, x, n, R) => t.x - p.x <= k /\ p.x - t.x <= k,
         \A k \in 0..R : Rounds(k, y, n, R) => t.y - p.y <= k /\ p.y - t.y <= k
  PROVE  DistanceSquared(t, Towards(p, x, y, R)) <= Square(R + 1)
<1>1. PICK j \in 0..R : /\ Rounds(j, x, n, R)
                        /\ Scaled(x, n, R) = IF x < 0 THEN -j ELSE j
  BY ScaledRounds
<1>2. PICK k \in 0..R : /\ Rounds(k, y, n, R)
                        /\ Scaled(y, n, R) = IF y < 0 THEN -k ELSE k
  BY ScaledRounds
<1> DEFINE e == Clamp(p.x + Scaled(x, n, R))
           f == Clamp(p.y + Scaled(y, n, R))
<1>3. Towards(p, x, y, R) = Point(e, f)
  BY <1>1, <1>2 DEF Towards, Square
<1>4. /\ e \in Int
      /\ (t.x - e) * (t.x - e) <= j * j \/ (t.x - e) * (t.x - e) <= 4
  <2>1. t.x \in 0..100 /\ p.x \in 0..100 /\ t.x - p.x <= j /\ p.x - t.x <= j /\ j \in Nat
    BY <1>1 DEF Points, Course
  <2>2. \/ Scaled(x, n, R) = j /\ t.x >= p.x
        \/ Scaled(x, n, R) = -j /\ t.x <= p.x
    BY <1>1
  <2>3. Scaled(x, n, R) \in Int
    BY <2>1, <2>2
  <2>4. QED BY <2>1, <2>2, <2>3, CoordinateMoves
<1>5. /\ f \in Int
      /\ (t.y - f) * (t.y - f) <= k * k \/ (t.y - f) * (t.y - f) <= 4
  <2>1. t.y \in 0..100 /\ p.y \in 0..100 /\ t.y - p.y <= k /\ p.y - t.y <= k /\ k \in Nat
    BY <1>2 DEF Points, Course
  <2>2. \/ Scaled(y, n, R) = k /\ t.y >= p.y
        \/ Scaled(y, n, R) = -k /\ t.y <= p.y
    BY <1>2
  <2>3. Scaled(y, n, R) \in Int
    BY <2>1, <2>2
  <2>4. QED BY <2>1, <2>2, <2>3, CoordinateMoves
<1>6. DistanceSquared(t, Towards(p, x, y, R)) = (t.x - e) * (t.x - e) + (t.y - f) * (t.y - f)
  BY <1>3 DEF DistanceSquared, Square, Point
<1>7. j * j + k * k <= (R + 1) * (R + 1)
  BY <1>1, <1>2, RoundedPair
<1>8. j * j <= R * R /\ k * k <= R * R /\ R * R >= 3 * R /\ j \in Int /\ k \in Int
  BY SquareMonotone
<1> HIDE DEF e, f
<1>9. (R + 1) * (R + 1) = R * R + 2 * R + 1 /\ R * R \in Int /\ j * j \in Int /\ k * k \in Int
  BY <1>8
<1>10. (t.x - e) * (t.x - e) + (t.y - f) * (t.y - f) <= (R + 1) * (R + 1)
  BY <1>4, <1>5, <1>7, <1>8, <1>9, PointTypes
<1>11. QED BY <1>6, <1>10 DEF Square

\* One step of _adjust_target moves a target by the required distance and one
\* unit at most.
LEMMA PushIsShort ==
  ASSUME NEW t \in Points, NEW p \in Points, NEW R \in Nat, R >= 3
  PROVE  DistanceSquared(t, PushedFrom(t, p, R)) <= Square(R + 1)
<1>1. CASE DistanceSquared(t, p) >= Square(R)
  <2>1. PushedFrom(t, p, R) = t
    BY <1>1 DEF PushedFrom
  <2>2. DistanceSquared(t, t) = 0
    BY PointTypes DEF DistanceSquared, Square
  <2>3. Square(R + 1) >= 0
    BY SquareNonNegative DEF Square
  <2>4. QED BY <2>1, <2>2, <2>3
<1>2. CASE ~ (DistanceSquared(t, p) >= Square(R)) /\ t = p
  <2>1. PushedFrom(t, p, R) = Towards(p, 1, 0, R)
    BY <1>2 DEF PushedFrom
  <2>2. t.x - p.x = 0 /\ p.x - t.x = 0 /\ t.y - p.y = 0 /\ p.y - t.y = 0
    BY <1>2, PointTypes
  <2>3. t.x >= p.x /\ t.y >= p.y
    BY <1>2, PointTypes
  <2>4. DistanceSquared(t, Towards(p, 1, 0, R)) <= Square(R + 1)
    BY <2>2, <2>3, TowardsIsNear
  <2>5. QED BY <2>1, <2>4
<1>3. CASE ~ (DistanceSquared(t, p) >= Square(R)) /\ t # p
  <2> DEFINE x == t.x - p.x
             y == t.y - p.y
             n == x * x + y * y
  <2>1. PushedFrom(t, p, R) = Towards(p, x, y, R)
    BY <1>3 DEF PushedFrom
  <2>2. /\ x \in Int /\ y \in Int /\ n \in Nat
        /\ x < 0 => t.x <= p.x
        /\ x >= 0 => t.x >= p.x
        /\ y < 0 => t.y <= p.y
        /\ y >= 0 => t.y >= p.y
        /\ p.x - t.x = -x /\ p.y - t.y = -y
    BY PointTypes, SquareNonNegative
  <2>3. n < R * R
    BY <1>3, <2>2 DEF DistanceSquared, Square
  <2>4. x # 0 \/ y # 0
    BY <1>3 DEF Points, Course
  <2>5. x * x <= n /\ y * y <= n /\ n > 0
    BY <2>2, <2>4, SquareNonNegative
  <2>6. \A k \in 0..R : Rounds(k, x, n, R) => x <= k /\ -x <= k
    BY <2>2, <2>3, <2>5, NotShortened
  <2>7. \A k \in 0..R : Rounds(k, y, n, R) => y <= k /\ -y <= k
    BY <2>2, <2>3, <2>5, NotShortened
  <2>8. DistanceSquared(t, Towards(p, x, y, R)) <= Square(R + 1)
    <3>1. \A k \in 0..R : Rounds(k, x, n, R) => t.x - p.x <= k /\ p.x - t.x <= k
      BY <2>2, <2>6
    <3>2. \A k \in 0..R : Rounds(k, y, n, R) => t.y - p.y <= k /\ p.y - t.y <= k
      BY <2>2, <2>7
    <3>3. n = x * x + y * y
      OBVIOUS
    <3> HIDE DEF x, y, n
    <3>4. QED BY <2>2, <2>5, <3>1, <3>2, <3>3, TowardsIsNear
  <2>9. QED BY <2>1, <2>8
<1>4. QED BY <1>1, <1>2, <1>3

\* What the target margin is for: unless the border stops it, a push takes the
\* target to the required distance of the person, less one unit of rounding,
\* which is still above the clearance.
LEMMA PushClears ==
  ASSUME NEW t \in Points, NEW p \in Points, NEW R \in Nat, R >= 1,
         PushedFrom(t, p, R).x \in 3..97, PushedFrom(t, p, R).y \in 3..97
  PROVE  DistanceSquared(PushedFrom(t, p, R), p) >= Square(R - 1)
<1>1. CASE DistanceSquared(t, p) >= Square(R)
  <2>1. PushedFrom(t, p, R) = t
    BY <1>1 DEF PushedFrom
  <2>2. (R - 1) * (R - 1) <= R * R
    BY SquareMonotone
  <2>3. DistanceSquared(t, p) \in Int
    BY PointTypes DEF DistanceSquared, Square
  <2>4. QED BY <1>1, <2>1, <2>2, <2>3 DEF Square
<1>2. CASE ~ (DistanceSquared(t, p) >= Square(R))
  <2>1. PICK x \in Int, y \in Int : /\ PushedFrom(t, p, R) = Towards(p, x, y, R)
                                    /\ x # 0 \/ y # 0
    <3>1. CASE t = p
      BY <1>2, <3>1 DEF PushedFrom
    <3>2. CASE t # p
      <4>1. PushedFrom(t, p, R) = Towards(p, t.x - p.x, t.y - p.y, R)
        BY <1>2, <3>2 DEF PushedFrom
      <4>2. t.x - p.x \in Int /\ t.y - p.y \in Int
        BY PointTypes
      <4>3. t.x - p.x # 0 \/ t.y - p.y # 0
        BY <3>2 DEF Points, Course
      <4>4. QED BY <4>1, <4>2, <4>3
    <3>3. QED BY <3>1, <3>2
  <2> DEFINE n == x * x + y * y
  <2>2. n \in Nat /\ n > 0 /\ n = x * x + y * y
    BY <2>1, SquareNonNegative
  <2>3. PICK j \in 0..R : Rounds(j, x, n, R) /\ Scaled(x, n, R) = IF x < 0 THEN -j ELSE j
    BY <2>2, ScaledRounds
  <2>4. PICK k \in 0..R : Rounds(k, y, n, R) /\ Scaled(y, n, R) = IF y < 0 THEN -k ELSE k
    BY <2>2, ScaledRounds
  <2>5. PushedFrom(t, p, R) = Point(Clamp(p.x + Scaled(x, n, R)), Clamp(p.y + Scaled(y, n, R)))
    BY <2>1, <2>2 DEF Towards, Square
  <2> HIDE DEF n
  <2> DEFINE e == Scaled(x, n, R)
             f == Scaled(y, n, R)
  <2>6. e \in Int /\ f \in Int /\ e * e = j * j /\ f * f = k * k
    BY <2>3, <2>4
  <2>7. Clamp(p.x + e) = p.x + e /\ Clamp(p.y + f) = p.y + f
    <3>1. Clamp(p.x + e) \in 3..97 /\ Clamp(p.y + f) \in 3..97
      BY <2>5 DEF Point
    <3>2. p.x + e \in Int /\ p.y + f \in Int
      BY <2>6, PointTypes
    <3> HIDE DEF e, f
    <3>3. QED BY <3>1, <3>2 DEF Clamp
  <2>8. DistanceSquared(PushedFrom(t, p, R), p) = j * j + k * k
    <3>1. PushedFrom(t, p, R).x - p.x = e /\ PushedFrom(t, p, R).y - p.y = f
      BY <2>5, <2>6, <2>7, PointTypes DEF Point
    <3>2. QED BY <2>6, <3>1 DEF DistanceSquared, Square
  <2>9. j * j + k * k >= (R - 1) * (R - 1)
    BY <2>2, <2>3, <2>4, RoundedIsLong
  <2>10. QED BY <2>8, <2>9 DEF Square
<1>3. QED BY <1>1, <1>2

\* The recursion of AdjustTarget has a solution: the least number of people for
\* which it had none could be built from that for one less.
LEMMA AdjustmentExists ==
  ASSUME NEW t, NEW s, NEW r, NEW size \in Nat
  PROVE  \E f : f = [i \in 0..size |-> IF i = 0 THEN t ELSE PushedFrom(f[i - 1], s[i], r)]
<1> DEFINE Adjusts(f, n) ==
             f = [i \in 0..n |-> IF i = 0 THEN t ELSE PushedFrom(f[i - 1], s[i], r)]
           T == {n \in Nat : ~ \E f : Adjusts(f, n)}
<1>1. ASSUME T # {}
      PROVE  FALSE
  <2>1. PICK n \in T : \A m \in T : n <= m
    BY <1>1, LeastNumber
  <2>2. n # 0
    <3>1. Adjusts([i \in 0..0 |-> t], 0)
      OBVIOUS
    <3>2. QED BY <3>1
  <2>3. n - 1 \in Nat /\ n - 1 \notin T
    BY <2>1, <2>2
  <2>4. PICK f : Adjusts(f, n - 1)
    BY <2>3
  <2> DEFINE g == [i \in 0..n |-> IF i = n THEN PushedFrom(f[n - 1], s[n], r) ELSE f[i]]
  <2>5. \A i \in 0 .. n - 1 :
          g[i] = f[i] /\ f[i] = IF i = 0 THEN t ELSE PushedFrom(f[i - 1], s[i], r)
    BY <2>3, <2>4
  <2>6. ASSUME NEW i \in 0..n
        PROVE  g[i] = IF i = 0 THEN t ELSE PushedFrom(g[i - 1], s[i], r)
    <3>1. CASE i = n
      <4>1. g[n - 1] = f[n - 1]
        BY <2>3, <2>5
      <4>2. QED BY <2>2, <3>1, <4>1
    <3>2. CASE i # n /\ i # 0
      <4>1. i \in 0 .. n - 1 /\ i - 1 \in 0 .. n - 1
        BY <3>2
      <4>2. g[i] = f[i] /\ g[i - 1] = f[i - 1] /\ f[i] = PushedFrom(f[i - 1], s[i], r)
        BY <2>5, <3>2, <4>1
      <4>3. QED BY <3>2, <4>2
    <3>3. CASE i # n /\ i = 0
      <4>1. i \in 0 .. n - 1
        BY <2>3, <3>3
      <4>2. QED BY <2>5, <3>3, <4>1
    <3>4. QED BY <3>1, <3>2, <3>3
  <2> HIDE DEF g
  <2>7. Adjusts(g, n)
    BY <2>6 DEF g
  <2>8. QED BY <2>1, <2>7
<1>2. QED BY <1>1

\* _adjust_target stays on the course, and moves a target by one adjustment for
\* each person at most, however many people there are and wherever they stand.
LEMMA AdjustedIsNear ==
  ASSUME NEW t \in Points, NEW s \in Seq(Points), NEW c \in Nat \ {0}
  PROVE  /\ AdjustTarget(t, s, c) \in Points
         /\ DistanceSquared(t, AdjustTarget(t, s, c)) <= Square(Len(s) * (c + TargetMargin + 1))
<1> DEFINE R == c + TargetMargin
           Adjusts(f) ==
             f = [i \in 0..Len(s) |-> IF i = 0 THEN t ELSE PushedFrom(f[i - 1], s[i], R)]
           f == CHOOSE f : Adjusts(f)
<1>1. AdjustTarget(t, s, c) = f[Len(s)]
  BY DEF AdjustTarget
<1>2. Len(s) \in Nat /\ R \in Nat /\ R >= 3 /\ R + 1 = c + TargetMargin + 1
  BY DEF TargetMargin
<1> HIDE DEF R
<1>3. Adjusts(f)
  BY <1>2, AdjustmentExists
<1> HIDE DEF f
<1>4. /\ f[0] = t
      /\ \A i \in 1..Len(s) : f[i] = PushedFrom(f[i - 1], s[i], R)
  BY <1>2, <1>3
<1> HIDE DEF Adjusts
<1> DEFINE Good(i) == f[i] \in Points /\ DistanceSquared(t, f[i]) <= Square(i * (R + 1))
           T == {i \in 0..Len(s) : ~ Good(i)}
<1>5. ASSUME T # {}
      PROVE  FALSE
  <2>1. T \in SUBSET Nat
    OBVIOUS
  <2>2. PICK n \in T : \A m \in T : n <= m
    BY <1>5, <2>1, LeastNumber
  <2>3. n # 0
    <3>1. DistanceSquared(t, t) = 0 /\ Square(0 * (R + 1)) = 0
      BY <1>2, PointTypes DEF DistanceSquared, Square
    <3>2. Good(0)
      BY <1>4, <3>1
    <3>3. QED BY <3>2
  <2>4. n \in 1..Len(s) /\ n - 1 \in 0..Len(s) /\ n - 1 \in Nat /\ n \in Nat
    BY <1>2, <2>3
  <2>5. Good(n - 1)
    BY <2>2, <2>4
  <2>6. s[n] \in Points /\ f[n] = PushedFrom(f[n - 1], s[n], R)
    BY <1>4, <2>4
  <2>7. f[n] \in Points /\ DistanceSquared(f[n - 1], f[n]) <= Square(R + 1)
    BY <1>2, <2>5, <2>6, PushedOnCourse, PushIsShort
  <2>8. (n - 1) * (R + 1) \in Nat /\ R + 1 \in Nat /\ (n - 1) * (R + 1) + (R + 1) = n * (R + 1)
    BY <1>2, <2>4
  <2>9. DistanceSquared(t, f[n]) <= Square(n * (R + 1))
    <3>1. DistanceSquared(t, f[n]) <= Square((n - 1) * (R + 1) + (R + 1))
      BY <2>5, <2>7, <2>8, Triangle
    <3>2. QED BY <2>8, <3>1
  <2>10. QED BY <2>7, <2>9
<1>6. Good(Len(s))
  BY <1>2, <1>5
<1>7. QED BY <1>1, <1>2, <1>6

---------------------------------------------------------------------------
(* Legs *)

\* Reference: the point that is k/m of the way along a leg is at distance at
\* least d from p.
FarAt(from, to, p, d, k, m) ==
  Square(m * (p.x - from.x) - k * (to.x - from.x))
    + Square(m * (p.y - from.y) - k * (to.y - from.y)) >= Square(m * d)

\* A person behind the beginning of a leg: the beginning is the nearest point.
LEMMA Behind ==
  ASSUME NEW a \in Int, NEW b \in Int, NEW x \in Int, NEW y \in Int, NEW k \in Nat, NEW m \in Nat,
         a * x + b * y <= 0
  PROVE  (m * a - k * x) * (m * a - k * x) + (m * b - k * y) * (m * b - k * y)
           >= m * m * (a * a + b * b)
<1>1. (m * a - k * x) * (m * a - k * x) + (m * b - k * y) * (m * b - k * y)
        = m * m * (a * a + b * b) + 2 * (m * (k * (0 - (a * x + b * y))))
          + (k * x) * (k * x) + (k * y) * (k * y)
  OBVIOUS
<1>2. k * (0 - (a * x + b * y)) >= 0
  BY ProductNonNegative
<1>3. (k * x) * (k * x) >= 0 /\ (k * y) * (k * y) >= 0
  BY SquareNonNegative
<1>4. QED BY <1>1, <1>2, <1>3

\* A person beside a leg: the foot of the perpendicular is the nearest point.
LEMMA Beside ==
  ASSUME NEW a \in Int, NEW b \in Int, NEW x \in Int, NEW y \in Int,
         NEW k \in Int, NEW m \in Int, NEW d \in Int,
         x * x + y * y > 0,
         (a * y - b * x) * (a * y - b * x) >= d * d * (x * x + y * y)
  PROVE  (m * a - k * x) * (m * a - k * x) + (m * b - k * y) * (m * b - k * y)
           >= m * m * (d * d)
<1> DEFINE u == m * a - k * x
           v == m * b - k * y
           n == x * x + y * y
           cross == a * y - b * x
<1>1. u \in Int /\ v \in Int /\ n \in Int /\ cross \in Int
  OBVIOUS
<1>2. (u * u + v * v) * n >= (u * y - v * x) * (u * y - v * x)
  <2>1. (u * u + v * v) * n
           = (u * y - v * x) * (u * y - v * x) + (u * x + v * y) * (u * x + v * y)
    BY Lagrange
  <2>2. u * x + v * y \in Int /\ u * y - v * x \in Int
    OBVIOUS
  <2>3. (u * x + v * y) * (u * x + v * y) >= 0
    BY <2>2, SquareNonNegative
  <2> HIDE DEF u, v, n
  <2>4. QED BY <2>1, <2>2, <2>3, <1>1
<1>3. u * y - v * x = m * cross
  OBVIOUS
<1>4. (m * cross) * (m * cross) = m * m * (cross * cross)
  BY <1>1
<1>5. (u * u + v * v) * n >= (m * m * (d * d)) * n
  <2>1. cross * cross >= d * d * n
    OBVIOUS
  <2>2. (m * m * (d * d)) * n = m * m * (d * d * n)
    BY <1>1
  <2> HIDE DEF u, v, n, cross
  <2>3. (u * u + v * v) * n >= m * m * (cross * cross)
    BY <1>2, <1>3, <1>4
  <2>4. QED BY <2>1, <2>2, <2>3, <1>1
<1>6. n > 0
  OBVIOUS
<1> HIDE DEF u, v, n
<1>7. u * u + v * v >= m * m * (d * d)
  <2>1. u * u + v * v \in Int /\ m * m * (d * d) \in Int
    BY <1>1
  <2>2. QED BY <2>1, <1>1, <1>5, <1>6, CancelFactor
<1>8. QED BY <1>7 DEF u, v

LEMMA ClearLegKeepsAway ==
  ASSUME NEW p \in Points, NEW from \in Points, NEW to \in Points, NEW d \in Nat,
         NEW m \in Nat, AtLeast(LegDistanceSquared(p, from, to), d)
  PROVE  \A k \in 0..m : FarAt(from, to, p, d, k, m)
<1> DEFINE a == p.x - from.x
           b == p.y - from.y
           x == to.x - from.x
           y == to.y - from.y
<1>1. a \in Int /\ b \in Int /\ x \in Int /\ y \in Int
  BY PointTypes
<1>2. p.x - to.x = a - x /\ p.y - to.y = b - y
  BY PointTypes
<1>3. SUFFICES ASSUME NEW k \in 0..m
               PROVE  (m * a - k * x) * (m * a - k * x) + (m * b - k * y) * (m * b - k * y)
                        >= m * m * (d * d)
  <2>1. (m * d) * (m * d) = m * m * (d * d)
    OBVIOUS
  <2>2. QED BY <1>3, <2>1 DEF FarAt, Square
<1>4. LegDistanceSquared(p, from, to) =
        IF a * x + b * y <= 0 THEN Fraction(a * a + b * b, 1)
        ELSE IF a * x + b * y >= x * x + y * y
        THEN Fraction((a - x) * (a - x) + (b - y) * (b - y), 1)
        ELSE Fraction((a * y - b * x) * (a * y - b * x), x * x + y * y)
  BY <1>2 DEF LegDistanceSquared, DistanceSquared, Square
<1> HIDE DEF a, b, x, y
<1>5. CASE a * x + b * y <= 0
  <2>1. a * a + b * b >= d * d
    BY <1>1, <1>4, <1>5 DEF AtLeast, Fraction, Square
  <2>2. (m * a - k * x) * (m * a - k * x) + (m * b - k * y) * (m * b - k * y)
          >= m * m * (a * a + b * b)
    BY <1>1, <1>5, Behind
  <2>3. m * m * (a * a + b * b) >= m * m * (d * d)
    BY <1>1, <2>1, ScaledUp
  <2>4. QED BY <1>1, <2>2, <2>3
<1>6. CASE a * x + b * y > 0 /\ a * x + b * y >= x * x + y * y
  <2>1. (a - x) * (a - x) + (b - y) * (b - y) >= d * d
    BY <1>1, <1>4, <1>6 DEF AtLeast, Fraction, Square
  <2>2. (a - x) * (-x) + (b - y) * (-y) <= 0
    BY <1>1, <1>6
  <2>3. m - k \in Nat /\ -x \in Int /\ -y \in Int /\ a - x \in Int /\ b - y \in Int
    BY <1>1
  <2>4. (m * (a - x) - (m - k) * (-x)) * (m * (a - x) - (m - k) * (-x))
          + (m * (b - y) - (m - k) * (-y)) * (m * (b - y) - (m - k) * (-y))
          >= m * m * ((a - x) * (a - x) + (b - y) * (b - y))
    BY <2>2, <2>3, Behind
  <2>5. m * (a - x) - (m - k) * (-x) = m * a - k * x
    BY <1>1
  <2>6. m * (b - y) - (m - k) * (-y) = m * b - k * y
    BY <1>1
  <2>7. m * m * ((a - x) * (a - x) + (b - y) * (b - y)) >= m * m * (d * d)
    BY <1>1, <2>1, ScaledUp
  <2>8. (m * a - k * x) * (m * a - k * x) + (m * b - k * y) * (m * b - k * y)
          >= m * m * ((a - x) * (a - x) + (b - y) * (b - y))
    BY <2>4, <2>5, <2>6
  <2> DEFINE near == m * m * ((a - x) * (a - x) + (b - y) * (b - y))
             there == (m * a - k * x) * (m * a - k * x) + (m * b - k * y) * (m * b - k * y)
  <2>9. near \in Int /\ there \in Int /\ m * m * (d * d) \in Int
    BY <1>1
  <2>10. near >= m * m * (d * d) /\ there >= near
    BY <2>7, <2>8
  <2> HIDE DEF near, there
  <2>11. there >= m * m * (d * d)
    BY <2>9, <2>10
  <2>12. QED BY <2>11 DEF there
<1>7. CASE a * x + b * y > 0 /\ a * x + b * y < x * x + y * y
  <2>1. (a * y - b * x) * (a * y - b * x) >= d * d * (x * x + y * y)
    BY <1>1, <1>4, <1>7 DEF AtLeast, Fraction, Square
  <2>2. x * x + y * y > 0
    BY <1>1, <1>7
  <2>3. k \in Int /\ d \in Int /\ m \in Int
    OBVIOUS
  <2>4. QED BY <1>1, <2>1, <2>2, <2>3, Beside
<1>8. QED BY <1>1, <1>5, <1>6, <1>7

\* Conversely, the nearest point is one of the points of the leg: an end, or the
\* foot of the perpendicular, which is along/n of the way.
LEMMA FarFromLeg ==
  ASSUME NEW p \in Points, NEW from \in Points, NEW to \in Points, NEW d \in Nat,
         \A m \in Nat \ {0} : \A k \in 0..m : FarAt(from, to, p, d, k, m)
  PROVE  AtLeast(LegDistanceSquared(p, from, to), d)
<1> DEFINE a == p.x - from.x
           b == p.y - from.y
           x == to.x - from.x
           y == to.y - from.y
           n == x * x + y * y
           along == a * x + b * y
           cross == a * y - b * x
<1>1. a \in Int /\ b \in Int /\ x \in Int /\ y \in Int
  BY PointTypes
<1>2. p.x - to.x = a - x /\ p.y - to.y = b - y
  BY PointTypes
<1>3. \A m \in Nat \ {0} : \A k \in 0..m :
        (m * a - k * x) * (m * a - k * x) + (m * b - k * y) * (m * b - k * y)
          >= (m * d) * (m * d)
  BY DEF FarAt, Square
<1>4. LegDistanceSquared(p, from, to) =
        IF along <= 0 THEN Fraction(a * a + b * b, 1)
        ELSE IF along >= n
        THEN Fraction((a - x) * (a - x) + (b - y) * (b - y), 1)
        ELSE Fraction(cross * cross, n)
  BY <1>2 DEF LegDistanceSquared, DistanceSquared, Square
<1>5. n \in Int /\ along \in Int /\ cross \in Int
  BY <1>1
<1>6. /\ n * a - along * x = y * cross
      /\ n * b - along * y = -(x * cross)
  BY <1>1
<1>7. (y * cross) * (y * cross) + (-(x * cross)) * (-(x * cross)) = n * (cross * cross)
  BY <1>1
<1> HIDE DEF a, b, x, y, n, along, cross
<1>8. CASE along <= 0
  <2>1. (1 * a - 0 * x) * (1 * a - 0 * x) + (1 * b - 0 * y) * (1 * b - 0 * y)
          >= (1 * d) * (1 * d)
    BY <1>3
  <2>2. a * a + b * b >= d * d
    BY <1>1, <2>1
  <2>3. QED BY <1>1, <1>4, <1>8, <2>2 DEF AtLeast, Fraction, Square
<1>9. CASE along > 0 /\ along >= n
  <2>1. (1 * a - 1 * x) * (1 * a - 1 * x) + (1 * b - 1 * y) * (1 * b - 1 * y)
          >= (1 * d) * (1 * d)
    BY <1>3
  <2>2. (a - x) * (a - x) + (b - y) * (b - y) >= d * d
    BY <1>1, <2>1
  <2>3. QED BY <1>1, <1>4, <1>5, <1>9, <2>2 DEF AtLeast, Fraction, Square
<1>10. CASE along > 0 /\ along < n
  <2>1. n \in Nat \ {0} /\ along \in 0..n
    BY <1>5, <1>10
  <2>2. (n * a - along * x) * (n * a - along * x) + (n * b - along * y) * (n * b - along * y)
          >= (n * d) * (n * d)
    BY <1>3, <2>1
  <2>3. n * (cross * cross) >= (n * d) * (n * d)
    BY <1>6, <1>7, <2>2
  <2>4. (n * d) * (n * d) = n * (d * d * n)
    BY <1>5
  <2>5. (cross * cross) * n >= (d * d * n) * n
    BY <1>5, <2>3, <2>4
  <2>6. cross * cross >= d * d * n
    <3>1. cross * cross \in Int /\ d * d * n \in Int
      BY <1>5
    <3>2. QED BY <3>1, <2>1, <2>5, CancelFactor
  <2>7. QED BY <1>4, <1>5, <1>10, <2>6 DEF AtLeast, Fraction, Square
<1>11. QED BY <1>5, <1>8, <1>9, <1>10

\* _point_segment_distance is the distance: what it says is at least d away from
\* a leg is at least d away from every point of it, at any fraction of the way,
\* and the other way round.
THEOREM LegDistanceIsExact ==
  ASSUME NEW p \in Points, NEW from \in Points, NEW to \in Points, NEW d \in Nat
  PROVE  AtLeast(LegDistanceSquared(p, from, to), d) <=>
           \A m \in Nat \ {0} : \A k \in 0..m : FarAt(from, to, p, d, k, m)
  BY ClearLegKeepsAway, FarFromLeg

---------------------------------------------------------------------------
(* Plans *)

LEMMA PlansAreClear ==
  ASSUME NEW from \in Points, NEW requested \in Points, NEW who \in Seq(Points),
         NEW c \in Nat \ {0}, NEW plan \in Plans(from, requested, who, c)
  PROVE  /\ plan \in Seq(Points) /\ Len(plan) \in {1, 2}
         /\ LegIsClear(from, plan[1], who, c)
         /\ Len(plan) = 2 => LegIsClear(plan[1], plan[2], who, c)
         /\ plan[Len(plan)] = AdjustTarget(requested, who, c)
<1> DEFINE target == AdjustTarget(requested, who, c)
<1>1. target \in Points
  BY AdjustedIsNear
<1>2. PICK w \in Points : \/ plan = <<target>> /\ PathIsClear(<<from, target>>, who, c)
                          \/ plan = <<w, target>> /\ PathIsClear(<<from, w, target>>, who, c)
  <2>1. CASE PathIsClear(<<from, target>>, who, c)
    <3>1. plan = <<target>>
      BY <2>1 DEF Plans
    <3>2. QED BY <1>1, <2>1, <3>1
  <2>2. CASE ~ PathIsClear(<<from, target>>, who, c)
    <3>1. PICK w \in DetourCandidates(from, target, who, c) :
            plan = <<w, target>> /\ PathIsClear(<<from, w, target>>, who, c)
      BY <2>2 DEF Plans
    <3>2. PICK i \in DOMAIN who, e \in Directions(from, target) :
            w = Towards(who[i], e[1], e[2], c + DetourMargin)
      BY <3>1 DEF DetourCandidates
    <3>3. e[1] \in Int /\ e[2] \in Int
      <4> DEFINE x == target.x - from.x
                 y == target.y - from.y
      <4>1. x \in Int /\ y \in Int
        BY <1>1, PointTypes
      <4>2. e \in {<<-y, x>>, <<y, -x>>} \cup (({-1, 0, 1} \X {-1, 0, 1}) \ {<<0, 0>>})
        BY DEF Directions
      <4> HIDE DEF x, y
      <4>3. e = <<-y, x>> \/ e = <<y, -x>> \/ e \in {-1, 0, 1} \X {-1, 0, 1}
        BY <4>2
      <4>4. QED BY <4>1, <4>3
    <3>4. who[i] \in Points /\ c + DetourMargin \in Nat
      BY DEF DetourMargin
    <3>5. w \in Points
      BY <3>2, <3>3, <3>4, TowardsOnCourse
    <3>6. QED BY <3>1, <3>5
  <2>3. QED BY <2>1, <2>2
<1> HIDE DEF target
<1>3. CASE plan = <<target>> /\ PathIsClear(<<from, target>>, who, c)
  <2>1. Len(<<from, target>>) - 1 = 1
    OBVIOUS
  <2>2. LegIsClear(<<from, target>>[1], <<from, target>>[1 + 1], who, c)
    BY <1>3, <2>1 DEF PathIsClear
  <2>3. LegIsClear(from, target, who, c)
    BY <2>2
  <2>4. QED BY <1>1, <1>3, <2>3 DEF target
<1>4. CASE plan = <<w, target>> /\ PathIsClear(<<from, w, target>>, who, c)
  <2>1. Len(<<from, w, target>>) - 1 = 2
    OBVIOUS
  <2>2. /\ LegIsClear(<<from, w, target>>[1], <<from, w, target>>[1 + 1], who, c)
        /\ LegIsClear(<<from, w, target>>[2], <<from, w, target>>[2 + 1], who, c)
    BY <1>4, <2>1 DEF PathIsClear
  <2>3. LegIsClear(from, w, who, c) /\ LegIsClear(w, target, who, c)
    BY <2>2
  <2>4. QED BY <1>1, <1>2, <1>4, <2>3 DEF target
<1>5. QED BY <1>2, <1>3, <1>4

\* What RouteSafetyPolicy.plan promises: every point of every leg of a plan
\* keeps the clearance from every person, and the plan ends where it was asked to,
\* up to one adjustment for each person.
THEOREM PlansKeepTheirDistance ==
  ASSUME NEW from \in Points, NEW requested \in Points, NEW who \in Seq(Points),
         NEW c \in Nat \ {0}, NEW plan \in Plans(from, requested, who, c), NEW i \in DOMAIN who,
         NEW m \in Nat \ {0}, NEW k \in 0..m
  PROVE  /\ FarAt(from, plan[1], who[i], c, k, m)
         /\ Len(plan) = 2 => FarAt(plan[1], plan[2], who[i], c, k, m)
         /\ DistanceSquared(requested, plan[Len(plan)])
              <= Square(Len(who) * (c + TargetMargin + 1))
<1>1. /\ plan \in Seq(Points) /\ Len(plan) \in {1, 2}
      /\ LegIsClear(from, plan[1], who, c)
      /\ Len(plan) = 2 => LegIsClear(plan[1], plan[2], who, c)
      /\ plan[Len(plan)] = AdjustTarget(requested, who, c)
  BY PlansAreClear
<1>2. who[i] \in Points /\ plan[1] \in Points /\ (Len(plan) = 2 => plan[2] \in Points)
  BY <1>1
<1>3. FarAt(from, plan[1], who[i], c, k, m)
  <2>1. AtLeast(LegDistanceSquared(who[i], from, plan[1]), c)
    BY <1>1 DEF LegIsClear
  <2>2. QED BY <1>2, <2>1, LegDistanceIsExact
<1>4. ASSUME Len(plan) = 2
      PROVE  FarAt(plan[1], plan[2], who[i], c, k, m)
  <2>1. AtLeast(LegDistanceSquared(who[i], plan[1], plan[2]), c)
    BY <1>1, <1>4 DEF LegIsClear
  <2>2. QED BY <1>2, <1>4, <2>1, LegDistanceIsExact
<1>5. QED BY <1>1, <1>3, <1>4, AdjustedIsNear

---------------------------------------------------------------------------
(* What is known of a device on its way *)

MovementTypes ==
  /\ position \in Points
  /\ status \in {"WORKING", "MOVING", "ARRIVED", "HOLDING"}
  /\ route \in Seq(Points) /\ Len(route) <= 2
  /\ people \in [1..Persons -> Spots] /\ seen \in [1..Persons -> Spots]
  /\ closed \in BOOLEAN /\ commands \in Nat
  /\ order \in [arbitrated : BOOLEAN, target : Points]

\* One adjustment for each person.
Reach == Persons * (Clearance + TargetMargin + 1)

MissesHazard(from, to) == ~ AtMost(LegDistanceSquared(Hazard.center, from, to), Hazard.radius)

\* The leg being driven kept its distance when it began; no leg of an assignment
\* meets the closed zone, as that is only closed and cleared while nothing moves;
\* and the last waypoint is the one adjusted from what was asked for.
UnderWay ==
  /\ route # <<>>
  /\ LegIsClear(position, Head(route), seen, Clearance)
  /\ closed /\ order.arbitrated =>
       /\ MissesHazard(position, Head(route))
       /\ Len(route) = 2 => MissesHazard(route[1], route[2])
  /\ DistanceSquared(order.target, route[Len(route)]) <= Square(Reach)

MovementInv ==
  /\ MovementTypes
  /\ IF Driving THEN UnderWay ELSE route = <<>>
  /\ ArrivalIsReal

LEMMA PeopleAreASequence ==
  ASSUME NEW f \in [1..Persons -> Spots]
  PROVE  f \in Seq(Points) /\ Len(f) = Persons /\ DOMAIN f = 1..Persons
  BY MovementAssumption

LEMMA NotAtMost ==
  ASSUME NEW p \in Points, NEW from \in Points, NEW to \in Points, NEW d \in Nat,
         ~ AtMost(LegDistanceSquared(p, from, to), d)
  PROVE  AtLeast(LegDistanceSquared(p, from, to), d)
<1> DEFINE f == LegDistanceSquared(p, from, to)
<1>1. f.num \in Int /\ f.den \in Int
  BY PointTypes DEF LegDistanceSquared, Fraction, DistanceSquared, Square
<1>2. Square(d) * f.den \in Int
  BY <1>1 DEF Square
<1> HIDE DEF f
<1>3. AtMost(f, d) \/ AtLeast(f, d)
  BY <1>1, <1>2 DEF AtMost, AtLeast
<1>4. QED BY <1>3 DEF f

LEMMA OneWaypoint ==
  ASSUME NEW r \in Seq(Points), Len(r) = 1
  PROVE  r # <<>> /\ Head(r) = r[1]
<1>1. Len(<<>>) = 0
  BY EmptySeq
<1>2. r # <<>>
  <2>1. ASSUME r = <<>> PROVE FALSE
    <3>1. Len(r) = 0
      BY <2>1, <1>1
    <3>2. QED BY <3>1
  <2>2. QED BY <2>1
<1>3. Head(r) = r[1]
  OBVIOUS
<1>4. QED BY <1>2, <1>3

LEMMA RestOfRoute ==
  ASSUME NEW r \in Seq(Points), Len(r) \in {1, 2}
  PROVE  /\ Tail(r) \in Seq(Points) /\ Len(Tail(r)) = Len(r) - 1
         /\ Len(r) = 2 => Tail(r)[1] = r[2]
<1>1. r # <<>>
  BY EmptySeq
<1>2. QED BY <1>1, HeadTailProperties

---------------------------------------------------------------------------
(* Steps *)

LEMMA MovementInitially == Init => MovementInv
<1> SUFFICES ASSUME Init PROVE MovementInv
  OBVIOUS
<1>1. status = "WORKING" /\ route = <<>>
  BY DEF Init
<1>2. MovementTypes
  <2>1. <<>> \in Seq(Points) /\ Len(<<>>) = 0
    OBVIOUS
  <2>2. position \in Points /\ commands \in Nat
        /\ order \in [arbitrated : BOOLEAN, target : Points]
    BY MovementAssumption DEF Init
  <2>3. route \in Seq(Points) /\ Len(route) <= 2
    BY <1>1, <2>1
  <2>4. QED BY <1>1, <2>2, <2>3 DEF Init, MovementTypes
<1>3. QED BY <1>1, <1>2 DEF MovementInv, Driving, ArrivalIsReal

LEMMA WalkPreserves == MovementInv /\ Walk => MovementInv'
<1> SUFFICES ASSUME MovementInv, Walk PROVE MovementInv'
  OBVIOUS
<1>1. MovementTypes'
  BY DEF MovementInv, MovementTypes, Walk
<1>2. UNCHANGED <<position, status, route, closed, order, seen>>
  BY DEF Walk
<1>3. QED BY <1>1, <1>2 DEF MovementInv, Driving, UnderWay, ArrivalIsReal

LEMMA ChangeHazardPreserves == MovementInv /\ ChangeHazard => MovementInv'
<1> SUFFICES ASSUME MovementInv, ChangeHazard PROVE MovementInv'
  OBVIOUS
<1>1. MovementTypes'
  BY DEF MovementInv, MovementTypes, ChangeHazard
<1>2. ~ Driving /\ UNCHANGED <<position, status, route, order>>
  BY DEF ChangeHazard
<1>3. QED BY <1>1, <1>2 DEF MovementInv, Driving, ArrivalIsReal

LEMMA AcceptPreserves ==
  ASSUME MovementInv, NEW arbitrated \in BOOLEAN, NEW target \in Points,
         NEW plan \in Plans(position, target, people, Clearance),
         ~ (arbitrated /\ Decide(closed, RouteAffected(<<position>> \o plan, target, Hazard))
                            = "HOLD_FOR_INSPECTION"),
         Accept(arbitrated, target, plan), commands' = commands + 1, UNCHANGED <<people, closed>>
  PROVE  MovementInv'
<1>1. /\ position \in Points /\ people \in Seq(Points) /\ Len(people) = Persons
      /\ Clearance \in Nat \ {0} /\ Persons \in Nat
  BY PeopleAreASequence, MovementAssumption DEF MovementInv, MovementTypes
<1>2. /\ plan \in Seq(Points) /\ Len(plan) \in {1, 2}
      /\ LegIsClear(position, plan[1], people, Clearance)
      /\ plan[Len(plan)] = AdjustTarget(target, people, Clearance)
  BY <1>1, PlansAreClear
<1>3. /\ status' = "MOVING" /\ route' = plan /\ seen' = people
      /\ order' = [arbitrated |-> arbitrated, target |-> target] /\ position' = position
  BY DEF Accept
<1>4. MovementTypes'
  BY <1>2, <1>3 DEF MovementInv, MovementTypes
<1>5. route' # <<>> /\ LegIsClear(position, Head(route), seen, Clearance)'
  <2>1. Head(plan) = plan[1] /\ plan # <<>>
    BY <1>2
  <2>2. QED BY <1>2, <1>3, <2>1
<1>6. DistanceSquared(order.target, route[Len(route)])' <= Square(Reach)
  BY <1>1, <1>2, <1>3, AdjustedIsNear DEF Reach
<1>7. ASSUME closed', order'.arbitrated
      PROVE  /\ MissesHazard(position, Head(route))'
             /\ Len(route') = 2 => MissesHazard(route[1], route[2])'
  <2> DEFINE path == <<position>> \o plan
  <2>1. ~ RouteAffected(path, target, Hazard)
    BY <1>3, <1>7 DEF Decide
  <2>2. /\ Len(path) = Len(plan) + 1 /\ path[1] = position /\ path[2] = plan[1]
        /\ Len(plan) = 2 => path[3] = plan[2]
    BY <1>1, <1>2
  <2> HIDE DEF path
  <2>3. \A i \in 1..Len(plan) : MissesHazard(path[i], path[i + 1])
    BY <1>2, <2>1, <2>2 DEF RouteAffected, MissesHazard
  <2>4. MissesHazard(position, plan[1])
    <3>1. MissesHazard(path[1], path[1 + 1])
      BY <1>2, <2>3
    <3>2. QED BY <2>2, <3>1
  <2>5. Len(plan) = 2 => MissesHazard(plan[1], plan[2])
    <3>1. ASSUME Len(plan) = 2
          PROVE  MissesHazard(plan[1], plan[2])
      <4>1. MissesHazard(path[2], path[2 + 1])
        BY <2>3, <3>1
      <4>2. QED BY <2>2, <3>1, <4>1
    <3>2. QED BY <3>1
  <2>6. Head(plan) = plan[1]
    BY <1>2
  <2>7. QED BY <1>3, <2>4, <2>5, <2>6 DEF MissesHazard
<1>8. QED BY <1>3, <1>4, <1>5, <1>6, <1>7
          DEF MovementInv, UnderWay, Driving, ArrivalIsReal, Reach, MissesHazard

LEMMA CommandPreserves ==
  ASSUME NEW arbitrated \in BOOLEAN, NEW target \in Targets
  PROVE  MovementInv /\ Command(arbitrated, target) => MovementInv'
<1> SUFFICES ASSUME MovementInv, Command(arbitrated, target) PROVE MovementInv'
  OBVIOUS
<1> DEFINE plans == Plans(position, target, people, Clearance)
           Held(plan) == /\ arbitrated
                         /\ Decide(closed, RouteAffected(<<position>> \o plan, target, Hazard))
                              = "HOLD_FOR_INSPECTION"
<1>1. target \in Points /\ ~ Driving /\ commands' = commands + 1 /\ UNCHANGED <<people, closed>>
  BY MovementAssumption DEF Command
<1>2. \/ \E plan \in plans : ~ Held(plan) /\ Accept(arbitrated, target, plan)
      \/ Hold
      \/ UNCHANGED <<position, status, route, order, seen>>
  BY DEF Command
<1>3. CASE \E plan \in plans : ~ Held(plan) /\ Accept(arbitrated, target, plan)
  BY <1>1, <1>3, AcceptPreserves
<1>4. CASE Hold
  BY <1>1, <1>4 DEF Hold, MovementInv, MovementTypes, Driving, ArrivalIsReal
<1>5. CASE UNCHANGED <<position, status, route, order, seen>>
  BY <1>1, <1>5 DEF MovementInv, MovementTypes, Driving, ArrivalIsReal
<1>6. QED BY <1>2, <1>3, <1>4, <1>5

LEMMA LegReachedPreserves == MovementInv /\ LegReached => MovementInv'
<1> SUFFICES ASSUME MovementInv, LegReached PROVE MovementInv'
  OBVIOUS
<1>1. /\ Driving /\ UnderWay /\ MovementTypes
      /\ position' = Head(route) /\ UNCHANGED <<people, closed, commands, order>>
  BY DEF LegReached, MovementInv
<1>2. route \in Seq(Points) /\ Len(route) \in {1, 2}
  <2>1. route \in Seq(Points) /\ route # <<>> /\ Len(route) <= 2
    BY <1>1 DEF UnderWay, MovementTypes
  <2>2. Len(route) \in Nat \ {0}
    BY <2>1, EmptySeq
  <2> DEFINE n == Len(route)
  <2>3. n \in Nat \ {0} /\ n <= 2
    BY <2>1, <2>2
  <2> HIDE DEF n
  <2>4. n \in {1, 2}
    BY <2>3
  <2>5. QED BY <2>1, <2>4 DEF n
<1>3. Head(route) = route[1] /\ Head(route) \in Points
  BY <1>2
<1>4. CASE Len(route) > 1 /\ ~ MayLeave(route[1], route[2])
  <2>1. status' = "HOLDING" /\ route' = <<>> /\ seen' = seen
    BY <1>4 DEF LegReached
  <2>2. MovementTypes'
    BY <1>1, <1>3, <2>1 DEF MovementTypes
  <2>3. QED BY <2>1, <2>2 DEF MovementInv, Driving, ArrivalIsReal
<1>5. CASE Len(route) = 1
  <2>1. status' = "ARRIVED" /\ route' = Tail(route) /\ seen' = people
    BY <1>5 DEF LegReached, StatusAfter
  <2>2. Tail(route) = <<>> /\ Tail(route) \in Seq(Points) /\ Len(Tail(route)) = 0
    <3>1. Tail(route) \in Seq(Points) /\ Len(Tail(route)) = 0
      BY <1>2, <1>5, RestOfRoute
    <3>2. QED BY <3>1, EmptySeq
  <2>3. MovementTypes'
    BY <1>1, <1>3, <2>1, <2>2 DEF MovementTypes
  <2>4. DistanceSquared(position, order.target)' <= Square(Reach)
    <3>1. DistanceSquared(order.target, route[1]) <= Square(Reach)
      BY <1>1, <1>5 DEF UnderWay
    <3>2. DistanceSquared(order.target, route[1]) = DistanceSquared(route[1], order.target)
      BY <1>1, <1>3, DistanceSymmetric DEF MovementTypes
    <3>3. QED BY <1>1, <1>3, <3>1, <3>2
  <2>5. QED BY <2>1, <2>2, <2>3, <2>4 DEF MovementInv, Driving, ArrivalIsReal, Reach
<1>6. CASE Len(route) = 2 /\ MayLeave(route[1], route[2])
  <2>1. status' = "MOVING" /\ route' = Tail(route) /\ seen' = people
    BY <1>6 DEF LegReached, StatusAfter
  <2>2. /\ Tail(route) \in Seq(Points) /\ Len(Tail(route)) = 1
        /\ Tail(route)[1] = route[2] /\ Head(Tail(route)) = route[2] /\ Tail(route) # <<>>
    <3>1. /\ Tail(route) \in Seq(Points) /\ Len(Tail(route)) = 1
          /\ Tail(route)[1] = route[2]
      BY <1>2, <1>6, RestOfRoute
    <3>2. QED BY <3>1, OneWaypoint
  <2>3. MovementTypes'
    BY <1>1, <1>3, <2>1, <2>2 DEF MovementTypes
  <2>4. LegIsClear(position, Head(route), seen, Clearance)'
    BY <1>1, <1>3, <1>6, <2>1, <2>2 DEF MayLeave
  <2>5. closed' /\ order'.arbitrated => MissesHazard(position, Head(route))'
    BY <1>1, <1>3, <1>6, <2>1, <2>2 DEF UnderWay, MissesHazard
  <2>6. DistanceSquared(order.target, route[Len(route)])' <= Square(Reach)
    BY <1>1, <1>6, <2>1, <2>2 DEF UnderWay
  <2>7. UnderWay'
    BY <2>1, <2>2, <2>4, <2>5, <2>6 DEF UnderWay, Reach
  <2>8. QED BY <2>1, <2>3, <2>7 DEF MovementInv, Driving, ArrivalIsReal
<1>7. QED BY <1>2, <1>4, <1>5, <1>6

LEMMA MovementStutters == MovementInv /\ UNCHANGED vars => MovementInv'
  BY DEF vars, MovementInv, MovementTypes, UnderWay, Driving, ArrivalIsReal, MissesHazard,
         Reach

---------------------------------------------------------------------------
(* Theorems *)

LEMMA MovementInvHolds == Spec => []MovementInv
<1>1. MovementInv /\ [Next]_vars => MovementInv'
  BY WalkPreserves, ChangeHazardPreserves, CommandPreserves, LegReachedPreserves,
     MovementStutters DEF Next
<1>2. QED BY <1>1, MovementInitially, PTL DEF Spec

\* The position is a point of the course and a route has two waypoints at most,
\* for any people and targets.
THEOREM TypeCorrect == Spec => []MovementTypes
<1>1. MovementInv => MovementTypes
  BY DEF MovementInv
<1>2. QED BY <1>1, MovementInvHolds, PTL

\* A device that reports its arrival is where it was sent, up to one adjustment
\* for each person, and nothing of its route is left: a refused leg never ends in
\* an arrival.
THEOREM ArrivalsAreReal == Spec => []ArrivalIsReal
<1>1. MovementInv => ArrivalIsReal
  BY DEF MovementInv
<1>2. QED BY <1>1, MovementInvHolds, PTL

LEMMA LegsKeepAway ==
  ASSUME NEW p \in Points, NEW from \in Points, NEW to \in Points, NEW d \in Nat,
         AtLeast(LegDistanceSquared(p, from, to), d)
  PROVE  KeepsAway(from, to, p, d)
<1>1. \A k \in 0..10 : FarAt(from, to, p, d, k, 10)
  BY LegDistanceIsExact
<1>2. QED BY <1>1 DEF FarAt, KeepsAway

\* However people walk between plan and legs, no leg is driven closer to anybody
\* than the clearance, as they were seen when it began, nor an assigned one through
\* the closed zone.
THEOREM DrivenLegsAreSafe == Spec => LegsAreSafe
<1> DEFINE Safe == position' # position =>
             /\ \A i \in 1..Persons : KeepsAway(position, position', seen[i], Clearance)
             /\ closed /\ order.arbitrated =>
                  KeepsAway(position, position', Hazard.center, Hazard.radius)
<1>1. ASSUME MovementInv, [Next]_vars
      PROVE  [Safe]_vars
  <2>1. CASE position' = position
    BY <2>1
  <2>2. CASE position' # position
    <3>1. LegReached
      BY <1>1, <2>2 DEF Next, vars, Walk, ChangeHazard, Command, Accept, Hold
    <3>2. UnderWay /\ MovementTypes /\ position' = Head(route)
      BY <1>1, <3>1 DEF LegReached, MovementInv
    <3>3. Head(route) \in Points /\ position \in Points
      BY <3>2 DEF UnderWay, MovementTypes
    <3>4. ASSUME NEW i \in 1..Persons
          PROVE  KeepsAway(position, position', seen[i], Clearance)
      <4>1. seen \in Seq(Points) /\ i \in DOMAIN seen /\ seen[i] \in Points
        BY <3>2, PeopleAreASequence DEF MovementTypes
      <4>2. AtLeast(LegDistanceSquared(seen[i], position, Head(route)), Clearance)
        BY <3>2, <4>1 DEF UnderWay, LegIsClear
      <4>3. QED BY <3>2, <3>3, <4>1, <4>2, LegsKeepAway, MovementAssumption
    <3>5. ASSUME closed, order.arbitrated
          PROVE  KeepsAway(position, position', Hazard.center, Hazard.radius)
      <4>1. Hazard.center \in Points /\ Hazard.radius \in Nat
        BY MovementAssumption
      <4>2. ~ AtMost(LegDistanceSquared(Hazard.center, position, Head(route)), Hazard.radius)
        BY <3>2, <3>5 DEF UnderWay, MissesHazard
      <4>3. AtLeast(LegDistanceSquared(Hazard.center, position, Head(route)), Hazard.radius)
        BY <3>3, <4>1, <4>2, NotAtMost
      <4>4. QED BY <3>2, <3>3, <4>1, <4>3, LegsKeepAway
    <3>6. QED BY <3>4, <3>5
  <2>3. QED BY <2>1, <2>2
<1>2. QED BY <1>1, MovementInvHolds, PTL DEF Spec, LegsAreSafe

=============================================================================
