------------------------------ MODULE Geometry ------------------------------
(***************************************************************************)
(* The ground-plane geometry of geometry.py on a grid on which it is       *)
(* exact.  A point has integer coordinates, Scale to the metre.  An axis   *)
(* is an integer vector of length Unit in place of a unit vector and a     *)
(* yaw; the axes that occur come from 3-4-5 triangles.  A box is its       *)
(* centre, its sizes l and w in metres and its axis u along l.             *)
(***************************************************************************)
EXTENDS Integers, FiniteSets

Unit == 25
Scale == 50

Abs(n) == IF n < 0 THEN -n ELSE n
Sign(n) == IF n < 0 THEN -1 ELSE IF n > 0 THEN 1 ELSE 0

Plus(p, q) == <<p[1] + q[1], p[2] + q[2]>>
Minus(p, q) == <<p[1] - q[1], p[2] - q[2]>>
Times(k, p) == <<k * p[1], k * p[2]>>
Dot(p, q) == p[1] * q[1] + p[2] * q[2]

boxAxes(o) == <<o.u, <<-o.u[2], o.u[1]>>>>

(* Half a size, 0.5 * l metres along an axis of length Unit, is l * u. *)
boxCorners(o) ==
    LET u == Times(o.l, boxAxes(o)[1])
        v == Times(o.w, boxAxes(o)[2])
    IN  <<Plus(Plus(o.centre, u), v), Minus(Plus(o.centre, u), v),
          Minus(Minus(o.centre, u), v), Plus(Minus(o.centre, u), v)>>

(* In Unit * Scale parts of a metre, like the products with an axis below. *)
projectionRadius(o, n) ==
    o.l * Abs(Dot(boxAxes(o)[1], n)) + o.w * Abs(Dot(boxAxes(o)[2], n))

overlaps(a, b) ==
    \A i \in 1..2 : \A n \in {boxAxes(a)[i], boxAxes(b)[i]} :
        Abs(Dot(Minus(b.centre, a.centre), n)) < projectionRadius(a, n) + projectionRadius(b, n)

(* obstacles is a sequence. *)
hasOverlap(obstacles) ==
    \E i, j \in DOMAIN obstacles : i < j /\ overlaps(obstacles[i], obstacles[j])

(* Mutant: width and length are confused. *)
rotatedHalfExtentsSwapped(l, w, u) ==
    <<w * Abs(u[1]) + l * Abs(u[2]), w * Abs(u[2]) + l * Abs(u[1])>>

rotatedHalfExtents(l, w, u) ==
    <<l * Abs(u[1]) + w * Abs(u[2]), l * Abs(u[2]) + w * Abs(u[1])>>

(* bounds is <<xMin, xMax, yMin, yMax>> in metres. *)
fitsInBounds(bounds, obstacles) ==
    \A k \in DOMAIN obstacles :
        LET o == obstacles[k]
            h == rotatedHalfExtents(o.l, o.w, o.u)
        IN  \A i \in 1..2 :
                /\ o.centre[i] - h[i] >= Scale * bounds[2 * i - 1]
                /\ o.centre[i] + h[i] <= Scale * bounds[2 * i]

wallAxis(o) ==
    LET half == IF o.l >= o.w THEN Times(o.l, boxAxes(o)[1]) ELSE Times(o.w, boxAxes(o)[2])
    IN  <<Minus(o.centre, half), Plus(o.centre, half)>>

cross(o, a, b) == (a[1] - o[1]) * (b[2] - o[2]) - (a[2] - o[2]) * (b[1] - o[1])

(* pointToSegmentDistance(p, a, b) = 0 *)
OnSegment(p, a, b) ==
    IF a = b THEN p = a
    ELSE /\ cross(a, b, p) = 0
         /\ Dot(Minus(p, a), Minus(b, a)) >= 0
         /\ Dot(Minus(p, b), Minus(a, b)) >= 0

(* Mutant: end points that touch are not looked at. *)
segmentsIntersectProperly(p1, p2, q1, q2) ==
    /\ Sign(cross(q1, q2, p1)) * Sign(cross(q1, q2, p2)) < 0
    /\ Sign(cross(p1, p2, q1)) * Sign(cross(p1, p2, q2)) < 0

segmentsIntersect(p1, p2, q1, q2) ==
    \/ /\ Sign(cross(q1, q2, p1)) * Sign(cross(q1, q2, p2)) < 0
       /\ Sign(cross(p1, p2, q1)) * Sign(cross(p1, p2, q2)) < 0
    \/ OnSegment(p1, q1, q2)
    \/ OnSegment(p2, q1, q2)
    \/ OnSegment(q1, p1, p2)
    \/ OnSegment(q2, p1, p2)

(* pointToSegmentDistance(p, a, b) < limit, for a segment whose length is  *)
(* known.                                                                  *)
PointCloser(p, a, b, length, limit) ==
    LET along == Dot(Minus(p, a), Minus(b, a))
    IN  IF along <= 0 THEN Dot(Minus(p, a), Minus(p, a)) < limit * limit
        ELSE IF along >= length * length THEN Dot(Minus(p, b), Minus(p, b)) < limit * limit
        ELSE Abs(cross(a, b, p)) < limit * length

(* The edges of a box: end points and length. *)
Edges(o) ==
    LET c == boxCorners(o)
    IN  {[a |-> c[i], b |-> c[1 + (i % 4)], length |-> Scale * (IF i % 2 = 1 THEN o.w ELSE o.l)] :
            i \in 1..4}

(* segmentDistance(e, f) < limit *)
EdgesCloser(e, f, limit) ==
    \/ segmentsIntersect(e.a, e.b, f.a, f.b)
    \/ PointCloser(e.a, f.a, f.b, f.length, limit)
    \/ PointCloser(e.b, f.a, f.b, f.length, limit)
    \/ PointCloser(f.a, e.a, e.b, e.length, limit)
    \/ PointCloser(f.b, e.a, e.b, e.length, limit)

(* footprintGap(a, b) < limit, limit in metres. *)
GapBelow(a, b, limit) ==
    LET edgesA == Edges(a)
        edgesB == Edges(b)
    IN  overlaps(a, b) \/ \E e \in edgesA, f \in edgesB : EdgesCloser(e, f, Scale * limit)

-----------------------------------------------------------------------------
(* What the code means to compute, by other definitions. *)

(* Two closed segments meet: their boxes do and each one's line parts the  *)
(* other's ends.                                                           *)
Meet(p1, p2, q1, q2) ==
    LET Apart(i) == \/ \A p \in {p1, p2}, q \in {q1, q2} : p[i] < q[i]
                    \/ \A p \in {p1, p2}, q \in {q1, q2} : p[i] > q[i]
        Parts(a, b, c, d) == Sign(cross(a, b, c)) * Sign(cross(a, b, d)) <= 0
    IN  ~Apart(1) /\ ~Apart(2) /\ Parts(p1, p2, q1, q2) /\ Parts(q1, q2, p1, p2)
=============================================================================
