---------------------------- MODULE GenesProofs -----------------------------
(***************************************************************************)
(* The safety properties of genes, layouts, scores and geometry: those of  *)
(* Layouts for every placement area, every mission whose legs have one of  *)
(* the directions of the grid, and every set of genes on the grid (two     *)
(* crossing angles, whole metres: RangesAssumption); those of Breeding for *)
(* every population and any number of generations; those of scores and     *)
(* geometry in FunctionChecks for every niche, distance and flight time,   *)
(* and for segments with ends and boxes with axes on the grid, of any size *)
(* and place.                                                              *)
(***************************************************************************)
EXTENDS Layouts, Breeding, FunctionChecks, OperatorProofs

(***************************************************************************)
(* Layouts: from a mission to a legal layout.                              *)
(***************************************************************************)

(* The leg of a mission from its j-th waypoint to the next. *)
Leg(ws, j) == [index |-> j, a |-> ws[j], b |-> ws[j + 1]]

(* A leg of the mission that is flown and whose direction is on the grid. *)
Flown(s) == s.a \in Point /\ s.b \in Point /\ s.a # s.b /\ Exact(s.a, s.b)

(* The waypoints parseWaypoints returns. *)
Plan(ws) ==
    /\ ws \in Seq(Point)
    /\ Len(ws) >= 1
    /\ \A j \in 1..(Len(ws) - 1) : Exact(ws[j], ws[j + 1])

(* A leg that is flown has a direction of length 5. *)
LEMMA DirectionFacts ==
    ASSUME NEW s, Flown(s)
    PROVE  /\ direction(s) \in Directions
           /\ direction(s) \in Point
           /\ Dot(direction(s), direction(s)) = 25
           /\ length(s) \in Int
<1>1. \E v \in Directions : Dot(v, Minus(s.b, s.a)) > 0 /\ cross(Home, v, Minus(s.b, s.a)) = 0
    BY DEF Flown, Exact
<1>2. direction(s) \in Directions
    BY <1>1 DEF direction
<1>3. direction(s) \in Point /\ Dot(direction(s), direction(s)) = 25
    BY <1>2 DEF Directions, Point
<1>4. Dot(direction(s), Minus(s.b, s.a)) \in Int
    BY <1>3, PointOps DEF Flown
<1>5. length(s) \in Int
    BY <1>4 DEF length
<1> QED
    BY <1>2, <1>3, <1>5

(* allSegments finds exactly the legs that are flown, under the number of  *)
(* their first waypoint, and segmentByIndex finds them again.              *)
LEMMA LegsFound ==
    ASSUME NEW ws, Plan(ws)
    PROVE  /\ \A s \in allSegments(ws) : /\ s.index \in 1..(Len(ws) - 1)
                                         /\ s = Leg(ws, s.index)
                                         /\ Flown(s)
           /\ \A j \in 1..(Len(ws) - 1) : ws[j] # ws[j + 1] => Leg(ws, j) \in allSegments(ws)
           /\ \A s \in allSegments(ws) : segmentByIndex(allSegments(ws), s.index) = s
<1>1. ASSUME NEW s \in allSegments(ws)
      PROVE  s.index \in 1..(Len(ws) - 1) /\ s = Leg(ws, s.index) /\ s.a # s.b
    BY DEF allSegments, Leg
<1>2. ASSUME NEW s \in allSegments(ws)
      PROVE  Flown(s)
    <2>1. PICK j \in 1..(Len(ws) - 1) : s = Leg(ws, j)
        BY <1>1
    <2>2. j \in DOMAIN ws /\ j + 1 \in DOMAIN ws
        BY DEF Plan
    <2>3. s.a = ws[j] /\ s.b = ws[j + 1]
        BY <2>1 DEF Leg
    <2> QED
        BY <1>1, <2>2, <2>3 DEF Plan, Flown
<1>3. ASSUME NEW j \in 1..(Len(ws) - 1), ws[j] # ws[j + 1]
      PROVE  Leg(ws, j) \in allSegments(ws)
    BY <1>3 DEF allSegments, Leg
<1>4. ASSUME NEW s \in allSegments(ws)
      PROVE  segmentByIndex(allSegments(ws), s.index) = s
    <2>1. \E t \in allSegments(ws) : t.index = s.index
        OBVIOUS
    <2> DEFINE t == segmentByIndex(allSegments(ws), s.index)
    <2>2. t \in allSegments(ws) /\ t.index = s.index
        BY <2>1 DEF segmentByIndex
    <2> HIDE DEF t
    <2>3. t = Leg(ws, t.index) /\ s = Leg(ws, s.index)
        BY <1>1, <2>2
    <2> QED
        BY <2>2, <2>3 DEF t
<1> QED
    BY <1>1, <1>2, <1>3, <1>4

(* seedSegments holds long legs if the mission has one and any leg         *)
(* otherwise, and it is empty only if nothing is flown.                    *)
LEMMA SeedSegments ==
    ASSUME NEW ws, Plan(ws)
    PROVE  /\ seedSegments(ws) = {} => allSegments(ws) = {}
           /\ \A i \in seedSegments(ws) :
                 /\ Leg(ws, i) \in allSegments(ws)
                 /\ \/ length(Leg(ws, i)) >= MIN_SEGMENT_LENGTH
                    \/ \A s \in allSegments(ws) : length(s) < MIN_SEGMENT_LENGTH
<1>1. \A s \in allSegments(ws) : s = Leg(ws, s.index) /\ length(s) \in Int
    BY LegsFound, DirectionFacts
<1>2. \A s \in longSegments(ws) : s \in allSegments(ws) /\ length(s) >= MIN_SEGMENT_LENGTH
    BY DEF longSegments
<1>3. seedSegments(ws) = {} => allSegments(ws) = {}
    BY <1>2 DEF seedSegments
<1>4. ASSUME NEW i \in seedSegments(ws)
      PROVE  /\ Leg(ws, i) \in allSegments(ws)
             /\ \/ length(Leg(ws, i)) >= MIN_SEGMENT_LENGTH
                \/ \A s \in allSegments(ws) : length(s) < MIN_SEGMENT_LENGTH
    <2>1. CASE longSegments(ws) # {}
        <3>1. PICK s \in longSegments(ws) : s.index = i
            BY <2>1 DEF seedSegments
        <3> QED
            BY <1>1, <1>2, <3>1
    <2>2. CASE longSegments(ws) = {}
        <3>1. PICK s \in allSegments(ws) : s.index = i
            BY <2>2 DEF seedSegments
        <3>2. \A t \in allSegments(ws) : ~(length(t) >= MIN_SEGMENT_LENGTH)
            BY <2>2 DEF longSegments
        <3>3. \A t \in allSegments(ws) : length(t) < MIN_SEGMENT_LENGTH
            BY <1>1, <3>2 DEF MIN_SEGMENT_LENGTH
        <3> QED
            BY <1>1, <3>1, <3>3
    <2> QED
        BY <2>1, <2>2
<1> QED
    BY <1>3, <1>4

(* What generate knows of the seed, in terms of the plan it was drawn for. *)
SeedInv ==
    phase = "done" =>
        /\ ind.genes \in Genes(kind, seedSegments(waypoints))
        /\ ind.obstacles = decode(ind.genes, allSegments(waypoints))
        /\ ind.illegal \in BOOLEAN
        /\ ~ind.illegal => ~layoutProblem(ind.obstacles, allSegments(waypoints), ind.genes.segment, strict)

(* The inductive invariant of Layouts: the plan read so far, the draw that *)
(* is under way, and SeedInv.                                              *)
LayoutInv ==
    /\ kind \in Kind
    /\ items \in 0..MaxItems
    /\ Plan(waypoints)
    /\ waypoints \in Seq(Waypoint \union {Home})
    /\ Len(waypoints) <= items + 1
    /\ phase \in {"plan", "error", "seed", "done"}
    /\ strict \in BOOLEAN
    /\ draws \in 1..SeedDraws
    /\ phase = "error" => Len(waypoints) < 2 \/ seedSegments(waypoints) = {}
    /\ SeedInv

(* LayoutInv holds at the start. *)
LEMMA LayoutInvInit == Init => LayoutInv
<1> SUFFICES ASSUME Init PROVE LayoutInv
    OBVIOUS
<1>1. waypoints \in Seq(Point) /\ Len(waypoints) = 1 /\ waypoints \in Seq(Waypoint \union {Home})
    BY DEF Init, Home, Point
<1>2. Plan(waypoints)
    BY <1>1 DEF Plan
<1>3. kind \in Kind /\ items = 0 /\ phase = "plan" /\ strict = TRUE /\ draws = SeedDraws
    BY DEF Init
<1> QED
    BY <1>1, <1>2, <1>3, ItemsAssumption, DrawsAssumption DEF LayoutInv, SeedInv

(* Reading an item, ending the plan and drawing keep LayoutInv. *)
LEMMA LayoutInvNext == LayoutInv /\ [Next]_vars => LayoutInv'
<1> SUFFICES ASSUME LayoutInv, [Next]_vars PROVE LayoutInv'
    OBVIOUS
<1>1. CASE ReadPosition
    <2>1. PICK p \in Waypoint : Exact(waypoints[Len(waypoints)], p) /\ waypoints' = Append(waypoints, p)
        BY <1>1 DEF ReadPosition
    <2>2. p \in Point
        BY WaypointAssumption DEF Point
    <2>3. waypoints \in Seq(Point) /\ Len(waypoints) >= 1 /\ Len(waypoints) \in Nat
        BY DEF LayoutInv, Plan
    <2>4. /\ waypoints' \in Seq(Point)
          /\ waypoints' \in Seq(Waypoint \union {Home})
          /\ Len(waypoints') = Len(waypoints) + 1
          /\ \A j \in 1..Len(waypoints) : waypoints'[j] = waypoints[j]
          /\ waypoints'[Len(waypoints) + 1] = p
        BY <2>1, <2>2, <2>3 DEF LayoutInv
    <2>5. Plan(waypoints')
        <3>1. ASSUME NEW j \in 1..(Len(waypoints') - 1)
              PROVE  Exact(waypoints'[j], waypoints'[j + 1])
            <4>1. CASE j = Len(waypoints)
                BY <2>1, <2>3, <2>4, <4>1
            <4>2. CASE j # Len(waypoints)
                <5>1. j \in 1..(Len(waypoints) - 1) /\ j + 1 \in 1..Len(waypoints) /\ j \in 1..Len(waypoints)
                    BY <2>3, <2>4, <4>2
                <5> QED
                    BY <2>4, <5>1 DEF LayoutInv, Plan
            <4> QED
                BY <4>1, <4>2
        <3> QED
            BY <2>3, <2>4, <3>1 DEF Plan
    <2>6. /\ items' = items + 1 /\ items < MaxItems
          /\ phase = "plan" /\ UNCHANGED <<kind, phase, strict, draws, ind>>
        BY <1>1 DEF ReadPosition
    <2>7. items' \in 0..MaxItems /\ Len(waypoints') <= items' + 1
        BY <2>3, <2>4, <2>6, ItemsAssumption DEF LayoutInv
    <2> QED
        BY <2>4, <2>5, <2>6, <2>7 DEF LayoutInv, SeedInv
<1>2. CASE SkipItem
    <2>1. /\ items' = items + 1 /\ items < MaxItems
          /\ phase = "plan" /\ UNCHANGED <<kind, waypoints, phase, strict, draws, ind>>
        BY <1>2 DEF SkipItem
    <2>2. Len(waypoints) \in Nat
        BY DEF LayoutInv, Plan
    <2>3. items' \in 0..MaxItems /\ Len(waypoints') <= items' + 1
        BY <2>1, <2>2, ItemsAssumption DEF LayoutInv
    <2> QED
        BY <2>1, <2>3 DEF LayoutInv, SeedInv
<1>3. CASE EndOfPlan
    BY <1>3 DEF EndOfPlan, LayoutInv, SeedInv
<1>4. CASE Draw
    <2>1. phase = "seed" /\ UNCHANGED <<kind, items, waypoints>>
        BY <1>4 DEF Draw
    <2> DEFINE segments == allSegments(waypoints)
               Problem(genes) == layoutProblem(decode(genes, segments), segments, genes.segment, strict)
               Result(genes, mark) == [genes |-> genes, obstacles |-> decode(genes, segments), illegal |-> mark]
    <2>2. PICK genes \in Genes(kind, seedSegments(waypoints)) :
             \/ /\ ~Problem(genes)
                /\ ind' = Result(genes, FALSE)
                /\ phase' = "done"
                /\ UNCHANGED <<strict, draws>>
             \/ /\ draws > 1
                /\ draws' = draws - 1
                /\ UNCHANGED <<phase, strict, ind>>
             \/ /\ strict' = FALSE /\ draws' = SeedDraws
                /\ UNCHANGED <<phase, ind>>
             \/ /\ ind' = Result(genes, TRUE)
                /\ phase' = "done"
                /\ UNCHANGED <<strict, draws>>
        BY <1>4 DEF Draw
    <2>3. strict' \in BOOLEAN /\ draws' \in 1..SeedDraws /\ phase' \in {"seed", "done"}
        <3> HIDE DEF Problem, Result
        <3>1. strict \in BOOLEAN /\ draws \in 1..SeedDraws
            BY DEF LayoutInv
        <3>2. draws' \in {draws, SeedDraws} \/ (draws > 1 /\ draws' = draws - 1)
            BY <2>2
        <3>3. draws' \in 1..SeedDraws
            BY <3>1, <3>2, DrawsAssumption
        <3>4. phase' \in {"seed", "done"}
            BY <2>1, <2>2
        <3>5. strict' \in {strict, FALSE}
            BY <2>2
        <3> QED
            BY <3>1, <3>3, <3>4, <3>5
    <2>4. SeedInv'
        <3>1. CASE phase' # "done"
            BY <3>1 DEF SeedInv
        <3>2. CASE phase' = "done"
            <4>1. CASE ~Problem(genes) /\ ind' = Result(genes, FALSE) /\ UNCHANGED <<strict, draws>>
                BY <2>1, <4>1 DEF SeedInv
            <4>2. CASE ind' = Result(genes, TRUE)
                BY <2>1, <4>2 DEF SeedInv
            <4> QED
                BY <2>1, <2>2, <3>2, <4>1, <4>2
        <3> QED
            BY <3>1, <3>2
    <2> QED
        BY <2>1, <2>3, <2>4 DEF LayoutInv
<1>5. CASE UNCHANGED vars
    BY <1>5 DEF vars, LayoutInv, SeedInv
<1> QED
    BY <1>1, <1>2, <1>3, <1>4, <1>5 DEF Next

(* The leg a seed was drawn on. *)
LEMMA OwnLeg ==
    ASSUME LayoutInv, Seeded
    PROVE  /\ ind.genes.segment \in seedSegments(waypoints)
           /\ ind.genes.segment \in 1..(Len(waypoints) - 1)
           /\ Own = Leg(waypoints, ind.genes.segment)
           /\ Own \in allSegments(waypoints)
           /\ Flown(Own)
<1>1. ind.genes.segment \in seedSegments(waypoints)
    BY DEF LayoutInv, SeedInv, Seeded, Genes
<1> DEFINE i == ind.genes.segment
<1>2. Leg(waypoints, i) \in allSegments(waypoints) /\ Leg(waypoints, i).index = i
    BY <1>1, SeedSegments DEF LayoutInv, Leg
<1>3. Own = Leg(waypoints, i)
    BY <1>2, LegsFound DEF LayoutInv, Own
<1> QED
    BY <1>1, <1>2, <1>3, LegsFound DEF LayoutInv

(* LayoutInv implies the property of the run. *)
LEMMA SeedsWhereItFlies == LayoutInv => SeededWhereItFlies
<1> SUFFICES ASSUME LayoutInv PROVE SeededWhereItFlies
    OBVIOUS
<1>0. Plan(waypoints) /\ Len(waypoints) \in Nat /\ Len(waypoints) >= 1
    BY DEF LayoutInv, Plan
<1>1. SeedsOnFlownLegs
    <2> SUFFICES ASSUME Seeded PROVE SeedsOnFlownLegs
        BY DEF SeedsOnFlownLegs
    <2> DEFINE i == ind.genes.segment
    <2>1. i \in seedSegments(waypoints) /\ i \in 1..(Len(waypoints) - 1)
          /\ Own = Leg(waypoints, i) /\ Own \in allSegments(waypoints) /\ Flown(Own)
        BY OwnLeg
    <2>2. waypoints[i] # waypoints[i + 1]
        BY <2>1 DEF Flown, Leg
    <2>3. \/ length(Leg(waypoints, i)) >= MIN_SEGMENT_LENGTH
          \/ \A s \in allSegments(waypoints) : length(s) < MIN_SEGMENT_LENGTH
        BY <1>0, <2>1, SeedSegments
    <2>4. \A j \in 1..(Len(waypoints) - 1) : waypoints[j] # waypoints[j + 1] => Leg(waypoints, j) \in allSegments(waypoints)
        BY <1>0, LegsFound
    <2> QED
        BY <2>1, <2>2, <2>3, <2>4 DEF SeedsOnFlownLegs, Leg
<1>2. FlyingMissionsAreSeeded
    <2> SUFFICES ASSUME phase = "error", NEW j \in 1..(Len(waypoints) - 1), waypoints[j] # waypoints[j + 1]
                 PROVE  FALSE
        BY DEF FlyingMissionsAreSeeded
    <2>1. Leg(waypoints, j) \in allSegments(waypoints)
        BY <1>0, LegsFound
    <2>2. Len(waypoints) >= 2
        BY <1>0
    <2> QED
        BY <1>0, <2>1, <2>2, SeedSegments DEF LayoutInv
<1> QED
    BY <1>1, <1>2 DEF SeededWhereItFlies

(* LayoutInv holds in every state that parseWaypoints and freshIndividual  *)
(* reach.                                                                  *)
THEOREM LayoutsInvariant == Spec => []LayoutInv
  BY LayoutInvInit, LayoutInvNext, PTL DEF Spec

(* For every mission on the grid and every placement area, seeds are drawn *)
(* whenever something is flown, and on a leg that is flown, of 25 m or     *)
(* more if there is one.                                                   *)
THEOREM SeedsAreFlown == Spec => []SeededWhereItFlies
  BY LayoutsInvariant, SeedsWhereItFlies, PTL

-----------------------------------------------------------------------------
(* How makeWall stores a wall: as it is or turned round, with the length   *)
(* as l or, turned back by 90 degrees, as w.                               *)
LEMMA MakeWallStores ==
    ASSUME NEW start \in Point, NEW axis \in Point, NEW len \in Nat \ {0},
           NEW o, o = makeWall(start, axis, len)
    PROVE  /\ o \in Box
           /\ o.centre = Plus(start, Times(len, axis))
           /\ \E turn \in {-1, 1} :
                 \/ o.l = len /\ o.w = WALL_THICKNESS /\ o.u = Times(turn, axis)
                 \/ o.l = WALL_THICKNESS /\ o.w = len /\ o.u = Times(turn, Left(axis))
<1> DEFINE turn == IF axis[2] > 0 \/ (axis[2] = 0 /\ axis[1] > 0) THEN 1 ELSE -1
           up == IF axis[2] > 0 \/ (axis[2] = 0 /\ axis[1] > 0) THEN axis ELSE Times(-1, axis)
           centre == Plus(start, Times(len, axis))
<1>1. turn \in {-1, 1} /\ up = Times(turn, axis)
    BY DEF Point, Times
<1>2. centre \in Point /\ up \in Point
    BY <1>1, PointOps
<1>3. o = IF up[1] < 0
          THEN [centre |-> centre, l |-> WALL_THICKNESS, w |-> len, u |-> <<up[2], -up[1]>>]
          ELSE [centre |-> centre, l |-> len, w |-> WALL_THICKNESS, u |-> up]
    BY DEF makeWall
<1>4. <<up[2], -up[1]>> = Times(-turn, Left(axis)) /\ -turn \in {-1, 1} /\ <<up[2], -up[1]>> \in Point
    <2> HIDE DEF turn, up
    <2>1. up = <<turn * axis[1], turn * axis[2]>>
        BY <1>1 DEF Times
    <2> QED
        BY <1>1, <2>1 DEF Times, Left, Point
<1> HIDE DEF turn, up, centre
<1>5. CASE up[1] < 0
    <2>1. o = [centre |-> centre, l |-> WALL_THICKNESS, w |-> len, u |-> <<up[2], -up[1]>>]
        BY <1>3, <1>5
    <2>2. o \in Box
        BY <1>2, <1>4, <2>1 DEF Box, WALL_THICKNESS
    <2> QED
        BY <1>4, <2>1, <2>2 DEF centre
<1>6. CASE ~(up[1] < 0)
    <2>1. o = [centre |-> centre, l |-> len, w |-> WALL_THICKNESS, u |-> up]
        BY <1>3, <1>6
    <2>2. o \in Box
        BY <1>2, <2>1 DEF Box, WALL_THICKNESS
    <2> QED
        BY <1>1, <2>1, <2>2 DEF centre
<1> QED
    BY <1>5, <1>6


(* Vector arithmetic. *)
LEMMA VectorSums ==
    ASSUME NEW c \in Point, NEW p \in Point, NEW q \in Point, NEW k \in Int, NEW turn \in {-1, 1}
    PROVE  /\ Times(k, Times(turn, p)) = Times(turn * k, p)
           /\ Times(k, Times(-turn, p)) = Times((-turn) * k, p)
           /\ Times((-turn) * k, p) = Times(-1, Times(turn * k, p))
           /\ Plus(Plus(c, p), q) = Plus(c, Plus(p, q))
           /\ Minus(c, p) = Plus(c, Times(-1, p))
           /\ Plus(p, q) = Plus(q, p)
           /\ Times(-1, Times(-1, p)) = p
           /\ Minus(Minus(c, q), Times(-1, p)) = Plus(c, Plus(p, Times(-1, q)))
           /\ Plus(Minus(c, q), Times(-1, p)) = Plus(c, Plus(Times(-1, p), Times(-1, q)))
<1>1. CASE turn = 1
    BY <1>1 DEF Point, Plus, Minus, Times
<1>2. CASE turn = -1
    BY <1>2 DEF Point, Plus, Minus, Times
<1> QED
    BY <1>1, <1>2

(* The corners of a box, as sums. *)
LEMMA CornerSums ==
    ASSUME NEW c \in Point, NEW A \in Point, NEW B \in Point
    PROVE  /\ Plus(Plus(c, A), B) = Plus(c, Plus(A, B))
           /\ Minus(Plus(c, A), B) = Plus(c, Plus(A, Times(-1, B)))
           /\ Minus(Minus(c, A), B) = Plus(c, Plus(Times(-1, A), Times(-1, B)))
           /\ Plus(Minus(c, A), B) = Plus(c, Plus(Times(-1, A), B))
<1> DEFINE c1 == c[1]
           c2 == c[2]
           a1 == A[1]
           a2 == A[2]
           b1 == B[1]
           b2 == B[2]
<1>1. c1 \in Int /\ c2 \in Int /\ a1 \in Int /\ a2 \in Int /\ b1 \in Int /\ b2 \in Int
    BY DEF Point
<1>2. /\ Plus(Plus(c, A), B) = <<(c1 + a1) + b1, (c2 + a2) + b2>>
      /\ Minus(Plus(c, A), B) = <<(c1 + a1) - b1, (c2 + a2) - b2>>
      /\ Minus(Minus(c, A), B) = <<(c1 - a1) - b1, (c2 - a2) - b2>>
      /\ Plus(Minus(c, A), B) = <<(c1 - a1) + b1, (c2 - a2) + b2>>
    BY DEF Plus, Minus
<1>3. /\ Plus(c, Plus(A, B)) = <<c1 + (a1 + b1), c2 + (a2 + b2)>>
      /\ Plus(c, Plus(A, Times(-1, B))) = <<c1 + (a1 + (-1) * b1), c2 + (a2 + (-1) * b2)>>
      /\ Plus(c, Plus(Times(-1, A), Times(-1, B)))
            = <<c1 + ((-1) * a1 + (-1) * b1), c2 + ((-1) * a2 + (-1) * b2)>>
      /\ Plus(c, Plus(Times(-1, A), B)) = <<c1 + ((-1) * a1 + b1), c2 + ((-1) * a2 + b2)>>
    BY DEF Plus, Times
<1> HIDE DEF c1, c2, a1, a2, b1, b2
<1>4. /\ (c1 + a1) + b1 = c1 + (a1 + b1) /\ (c2 + a2) + b2 = c2 + (a2 + b2)
      /\ (c1 + a1) - b1 = c1 + (a1 + (-1) * b1) /\ (c2 + a2) - b2 = c2 + (a2 + (-1) * b2)
      /\ (c1 - a1) - b1 = c1 + ((-1) * a1 + (-1) * b1) /\ (c2 - a2) - b2 = c2 + ((-1) * a2 + (-1) * b2)
      /\ (c1 - a1) + b1 = c1 + ((-1) * a1 + b1) /\ (c2 - a2) + b2 = c2 + ((-1) * a2 + b2)
    BY <1>1
<1> QED
    BY <1>2, <1>3, <1>4

(* What does not depend on how the wall is stored. *)
LEMMA MakeWallShape ==
    ASSUME NEW start \in Point, NEW axis \in Point, NEW len \in Nat \ {0},
           NEW o, o = makeWall(start, axis, len)
    PROVE  /\ \A n \in Point : projectionRadius(o, n) = len * Abs(Dot(axis, n)) + WALL_THICKNESS * Abs(Dot(Left(axis), n))
           /\ \E i \in 1..2, turn \in {-1, 1} : boxAxes(o)[i] = Times(turn, Left(axis))
           /\ \A i \in 1..4 : \E f, g \in {-1, 1} :
                 boxCorners(o)[i] = Plus(o.centre, Plus(Times(f * len, axis), Times(g * WALL_THICKNESS, Left(axis))))
           /\ \A f, g \in {-1, 1} : \E i \in 1..4 :
                 boxCorners(o)[i] = Plus(o.centre, Plus(Times(f * len, axis), Times(g * WALL_THICKNESS, Left(axis))))
<1> DEFINE C(f, g) == Plus(o.centre, Plus(Times(f * len, axis), Times(g * WALL_THICKNESS, Left(axis))))
<1>1. PICK turn \in {-1, 1} :
         \/ o.l = len /\ o.w = WALL_THICKNESS /\ o.u = Times(turn, axis)
         \/ o.l = WALL_THICKNESS /\ o.w = len /\ o.u = Times(turn, Left(axis))
    BY MakeWallStores
<1>2. o.centre \in Point
    BY MakeWallStores DEF Box
<1>3. Left(axis) \in Point
    BY DEF Left, Point
<1>4. ASSUME NEW n \in Point
      PROVE  /\ Abs(Dot(Times(turn, axis), n)) = Abs(Dot(axis, n))
             /\ Abs(Dot(Times(turn, Left(axis)), n)) = Abs(Dot(Left(axis), n))
             /\ Dot(axis, n) \in Int /\ Dot(Left(axis), n) \in Int
             /\ Left(Times(turn, axis)) = Times(turn, Left(axis))
             /\ Left(Times(turn, Left(axis))) = Times(-turn, axis)
             /\ Abs(Dot(Times(-turn, axis), n)) = Abs(Dot(axis, n))
    <2>1. Dot(axis, n) \in Int /\ Dot(Left(axis), n) \in Int
        BY <1>3, PointOps
    <2>2. Dot(Times(turn, axis), n) = turn * Dot(axis, n) /\ Dot(Times(turn, Left(axis)), n) = turn * Dot(Left(axis), n)
            /\ Dot(Times(-turn, axis), n) = -(turn * Dot(axis, n))
        BY DEF Dot, Times, Left, Point
    <2>3. Left(Times(turn, axis)) = Times(turn, Left(axis)) /\ Left(Times(turn, Left(axis))) = Times(-turn, axis)
        BY DEF Left, Times, Point
    <2>4. turn = 1 \/ turn = -1
        OBVIOUS
    <2>5. \A x \in Int : Abs(turn * x) = Abs(x) /\ Abs(-(turn * x)) = Abs(x)
        BY <2>4 DEF Abs
    <2> QED
        BY <2>1, <2>2, <2>3, <2>5
<1>5. boxAxes(o)[1] = o.u /\ boxAxes(o)[2] = Left(o.u)
    BY DEF boxAxes, Left
<1>6. ASSUME NEW n \in Point
      PROVE  projectionRadius(o, n) = len * Abs(Dot(axis, n)) + WALL_THICKNESS * Abs(Dot(Left(axis), n))
    <2> DEFINE A == Abs(Dot(axis, n))
               B == Abs(Dot(Left(axis), n))
    <2>1. A \in Nat /\ B \in Nat
        BY <1>4, AbsFacts
    <2>2. projectionRadius(o, n) = o.l * Abs(Dot(o.u, n)) + o.w * Abs(Dot(Left(o.u), n))
        BY <1>5 DEF projectionRadius
    <2>3. CASE o.l = len /\ o.w = WALL_THICKNESS /\ o.u = Times(turn, axis)
        BY <1>4, <2>2, <2>3
    <2>4. CASE o.l = WALL_THICKNESS /\ o.w = len /\ o.u = Times(turn, Left(axis))
        <3>1. projectionRadius(o, n) = WALL_THICKNESS * B + len * A
            BY <1>4, <2>2, <2>4
        <3> HIDE DEF A, B
        <3>2. projectionRadius(o, n) = len * A + WALL_THICKNESS * B
            BY <2>1, <3>1 DEF WALL_THICKNESS
        <3> QED
            BY <3>2 DEF A, B
    <2> QED
        BY <1>1, <2>3, <2>4
<1>7. \E i \in 1..2, t \in {-1, 1} : boxAxes(o)[i] = Times(t, Left(axis))
    BY <1>1, <1>3, <1>4, <1>5
<1>8. /\ boxCorners(o)[1] = Plus(Plus(o.centre, Times(o.l, o.u)), Times(o.w, Left(o.u)))
      /\ boxCorners(o)[2] = Minus(Plus(o.centre, Times(o.l, o.u)), Times(o.w, Left(o.u)))
      /\ boxCorners(o)[3] = Minus(Minus(o.centre, Times(o.l, o.u)), Times(o.w, Left(o.u)))
      /\ boxCorners(o)[4] = Plus(Minus(o.centre, Times(o.l, o.u)), Times(o.w, Left(o.u)))
    BY <1>5 DEF boxCorners
<1>9. CASE o.l = len /\ o.w = WALL_THICKNESS /\ o.u = Times(turn, axis)
    <2>1. /\ boxCorners(o)[1] = C(turn, turn) /\ boxCorners(o)[2] = C(turn, -turn)
          /\ boxCorners(o)[3] = C(-turn, -turn) /\ boxCorners(o)[4] = C(-turn, turn)
        <3> DEFINE A == Times(turn * len, axis)
                   B == Times(turn * WALL_THICKNESS, Left(axis))
        <3>1. A \in Point /\ B \in Point /\ Times(-1, A) \in Point /\ Times(-1, B) \in Point
            BY <1>3, PointOps DEF WALL_THICKNESS
        <3>2. Times(o.l, o.u) = A /\ Times((-turn) * len, axis) = Times(-1, A)
            BY <1>9, VectorSums
        <3>3. Times(o.w, Left(o.u)) = B /\ Times((-turn) * WALL_THICKNESS, Left(axis)) = Times(-1, B)
            BY <1>3, <1>4, <1>9, VectorSums DEF WALL_THICKNESS
        <3> HIDE DEF A, B
        <3>4. /\ boxCorners(o)[1] = Plus(o.centre, Plus(A, B)) /\ boxCorners(o)[2] = Plus(o.centre, Plus(A, Times(-1, B)))
              /\ boxCorners(o)[3] = Plus(o.centre, Plus(Times(-1, A), Times(-1, B)))
              /\ boxCorners(o)[4] = Plus(o.centre, Plus(Times(-1, A), B))
            BY <1>2, <1>8, <3>1, <3>2, <3>3, CornerSums
        <3> QED
            BY <3>2, <3>3, <3>4 DEF A, B
    <2> HIDE DEF C
    <2>2. /\ \A i \in 1..4 : \E f, g \in {-1, 1} : boxCorners(o)[i] = C(f, g)
          /\ \A f, g \in {-1, 1} : \E i \in 1..4 : boxCorners(o)[i] = C(f, g)
        BY <2>1
    <2> QED
        BY <1>6, <1>7, <2>2 DEF C
<1>10. CASE o.l = WALL_THICKNESS /\ o.w = len /\ o.u = Times(turn, Left(axis))
    <2>1. /\ boxCorners(o)[1] = C(-turn, turn) /\ boxCorners(o)[2] = C(turn, turn)
          /\ boxCorners(o)[3] = C(turn, -turn) /\ boxCorners(o)[4] = C(-turn, -turn)
        <3> DEFINE A == Times(turn * len, axis)
                   B == Times(turn * WALL_THICKNESS, Left(axis))
        <3>1. A \in Point /\ B \in Point /\ Times(-1, A) \in Point /\ Times(-1, B) \in Point
            BY <1>3, PointOps DEF WALL_THICKNESS
        <3>2. Times(o.w, Left(o.u)) = Times(-1, A) /\ Times((-turn) * len, axis) = Times(-1, A)
            BY <1>4, <1>10, VectorSums
        <3>3. Times(o.l, o.u) = B /\ Times((-turn) * WALL_THICKNESS, Left(axis)) = Times(-1, B)
            BY <1>3, <1>10, VectorSums DEF WALL_THICKNESS
        <3> HIDE DEF A, B
        <3>4. boxCorners(o)[1] = Plus(o.centre, Plus(Times(-1, A), B))
            <4>1. boxCorners(o)[1] = Plus(o.centre, Plus(B, Times(-1, A)))
                BY <1>2, <1>8, <3>1, <3>2, <3>3, CornerSums
            <4> QED
                BY <3>1, <4>1, VectorSums, <1>2
        <3>5. boxCorners(o)[2] = Plus(o.centre, Plus(A, B))
            <4>1. boxCorners(o)[2] = Plus(o.centre, Plus(B, Times(-1, Times(-1, A))))
                BY <1>2, <1>8, <3>1, <3>2, <3>3, CornerSums
            <4>2. Times(-1, Times(-1, A)) = A /\ Plus(B, A) = Plus(A, B)
                BY <3>1, VectorSums, <1>2
            <4> QED
                BY <4>1, <4>2
        <3>6. boxCorners(o)[3] = Plus(o.centre, Plus(A, Times(-1, B)))
            BY <1>2, <1>8, <3>1, <3>2, <3>3, VectorSums
        <3>7. boxCorners(o)[4] = Plus(o.centre, Plus(Times(-1, A), Times(-1, B)))
            BY <1>2, <1>8, <3>1, <3>2, <3>3, VectorSums
        <3> QED
            BY <3>2, <3>3, <3>4, <3>5, <3>6, <3>7 DEF A, B
    <2> HIDE DEF C
    <2>2. /\ \A i \in 1..4 : \E f, g \in {-1, 1} : boxCorners(o)[i] = C(f, g)
          /\ \A f, g \in {-1, 1} : \E i \in 1..4 : boxCorners(o)[i] = C(f, g)
        BY <2>1
    <2> QED
        BY <1>6, <1>7, <2>2 DEF C
<1> QED
    BY <1>1, <1>9, <1>10

(* x along a leg of direction d and y off it, to the side. *)
InFrame(d, side, x, y) == Plus(Times(x, d), Times(side * y, <<d[2], -d[1]>>))

(* Products and sums of vectors given in the frame of a leg. *)
LEMMA FrameDot ==
    ASSUME NEW d \in Point, Dot(d, d) = 25, NEW side \in {-1, 1},
           NEW x \in Int, NEW y \in Int, NEW x2 \in Int, NEW y2 \in Int
    PROVE  /\ Dot(InFrame(d, side, x, y), InFrame(d, side, x2, y2)) = 25 * (x * x2 + y * y2)
           /\ Plus(InFrame(d, side, x, y), InFrame(d, side, x2, y2)) = InFrame(d, side, x + x2, y + y2)
<1> DEFINE d1 == d[1]
           d2 == d[2]
<1>1. d1 \in Int /\ d2 \in Int /\ d1 * d1 + d2 * d2 = 25
    BY DEF Dot, Point
<1>2. \A a, b \in Int : InFrame(d, side, a, b) = <<a * d1 + (side * b) * d2, a * d2 - (side * b) * d1>>
    BY <1>1 DEF InFrame, Plus, Times
<1> HIDE DEF d1, d2
<1> DEFINE e1 == x * d1 + (side * y) * d2
           e2 == x * d2 - (side * y) * d1
           f1 == x2 * d1 + (side * y2) * d2
           f2 == x2 * d2 - (side * y2) * d1
<1>3. InFrame(d, side, x, y) = <<e1, e2>> /\ InFrame(d, side, x2, y2) = <<f1, f2>>
    BY <1>2
<1>4. InFrame(d, side, x + x2, y + y2) = <<e1 + f1, e2 + f2>>
    <2>1. x + x2 \in Int /\ y + y2 \in Int
        OBVIOUS
    <2>2. InFrame(d, side, x + x2, y + y2) = <<(x + x2) * d1 + (side * (y + y2)) * d2, (x + x2) * d2 - (side * (y + y2)) * d1>>
        BY <1>2, <2>1
    <2>3. e1 + f1 = (x + x2) * d1 + (side * (y + y2)) * d2 /\ e2 + f2 = (x + x2) * d2 - (side * (y + y2)) * d1
        BY <1>1
    <2> QED
        BY <2>2, <2>3
<1>5. e1 * f1 + e2 * f2 = 25 * (x * x2 + y * y2)
    <2>1. e1 * f1 + e2 * f2 = (x * x2 + (side * side) * (y * y2)) * (d1 * d1 + d2 * d2)
        BY <1>1
    <2>2. side * side = 1
        OBVIOUS
    <2>3. (x * x2 + 1 * (y * y2)) * 25 = 25 * (x * x2 + y * y2)
        OBVIOUS
    <2> QED
        BY <1>1, <2>1, <2>2, <2>3
<1> HIDE DEF e1, e2, f1, f2
<1> QED
    BY <1>3, <1>4, <1>5 DEF Dot, Plus

(* Multiples and quarter turns of a vector in the frame of a leg. *)
LEMMA FrameFacts ==
    ASSUME NEW d \in Point, Dot(d, d) = 25, NEW side \in {-1, 1}, NEW x \in Int, NEW y \in Int
    PROVE  /\ InFrame(d, side, x, y) \in Point
           /\ \A k \in Int : Times(k, InFrame(d, side, x, y)) = InFrame(d, side, k * x, k * y)
           /\ Left(InFrame(d, side, x, y)) = InFrame(d, side, side * y, -(side * x))
<1> DEFINE d1 == d[1]
           d2 == d[2]
<1>1. d1 \in Int /\ d2 \in Int /\ d1 * d1 + d2 * d2 = 25
    BY DEF Dot, Point
<1>2. \A a, b \in Int : InFrame(d, side, a, b) = <<a * d1 + (side * b) * d2, a * d2 - (side * b) * d1>>
    BY <1>1 DEF InFrame, Plus, Times
<1> HIDE DEF d1, d2
<1> DEFINE e1 == x * d1 + (side * y) * d2
           e2 == x * d2 - (side * y) * d1
<1>3. InFrame(d, side, x, y) = <<e1, e2>>
    BY <1>2
<1>a. e1 \in Int /\ e2 \in Int
    BY <1>1
<1>4. ASSUME NEW k \in Int
      PROVE  InFrame(d, side, k * x, k * y) = <<k * e1, k * e2>>
    <2>1. k * x \in Int /\ k * y \in Int
        OBVIOUS
    <2>2. InFrame(d, side, k * x, k * y) = <<(k * x) * d1 + (side * (k * y)) * d2, (k * x) * d2 - (side * (k * y)) * d1>>
        BY <1>2, <2>1
    <2>3. k * e1 = (k * x) * d1 + (side * (k * y)) * d2 /\ k * e2 = (k * x) * d2 - (side * (k * y)) * d1
        BY <1>1
    <2> QED
        BY <2>2, <2>3
<1>5. InFrame(d, side, side * y, -(side * x)) = <<-e2, e1>>
    <2>1. side * y \in Int /\ -(side * x) \in Int
        OBVIOUS
    <2>2. InFrame(d, side, side * y, -(side * x))
            = <<(side * y) * d1 + (side * (-(side * x))) * d2, (side * y) * d2 - (side * (-(side * x))) * d1>>
        BY <1>2, <2>1
    <2>3. side * (-(side * x)) = -x
        <3>1. side = 1 \/ side = -1
            OBVIOUS
        <3> QED
            BY <3>1
    <2>4. -e2 = (side * y) * d1 + (-x) * d2 /\ e1 = (side * y) * d2 - (-x) * d1
        BY <1>1
    <2> QED
        BY <2>2, <2>3, <2>4
<1> HIDE DEF e1, e2
<1>6. \A k \in Int : Times(k, InFrame(d, side, x, y)) = InFrame(d, side, k * x, k * y)
    BY <1>3, <1>4 DEF Times
<1>7. Left(InFrame(d, side, x, y)) = InFrame(d, side, side * y, -(side * x))
    BY <1>3, <1>5 DEF Left
<1> QED
    BY <1>3, <1>6, <1>7, <1>a DEF Point

(* The genes of a draw are in their ranges. *)
LEMMA GeneFacts ==
    ASSUME NEW k \in Kind, NEW choices, NEW genes \in Genes(k, choices)
    PROVE  /\ genes.kind = k /\ genes.segment \in choices
           /\ genes.side \in {-1, 1}
           /\ genes.t \in 1..4
           /\ genes.length \in 17..20
           /\ genes.overhang \in 3..10
           /\ genes.angle \in {<<4, 3>>, <<3, 4>>}
           /\ k = "gate" => genes.gateWidth \in 7..10
<1>1. /\ genes.kind = k /\ genes.segment \in choices /\ genes.side \in {-1, 1} /\ genes.t \in Along[k]
      /\ genes.angle \in Angle[k] /\ genes.length \in Length[k] /\ genes.overhang \in Overhang[k]
      /\ k = "gate" => genes.gateWidth \in GateWidth["gate"]
    BY DEF Genes
<1> QED
    BY <1>1, RangesAssumption DEF Kind

(* The genes and the leg of a draw. *)
Drawn(genes, s) ==
    /\ Flown(s)
    /\ genes.side \in {-1, 1}
    /\ genes.t \in 1..4
    /\ genes.length \in 17..20
    /\ genes.overhang \in 3..10
    /\ genes.angle \in {<<4, 3>>, <<3, 4>>}

(* The axis of the wall, in the frame of its leg. *)
WallAxis(genes, s) == InFrame(direction(s), genes.side, genes.angle[1], genes.angle[2])

(* The leg and the axis of a draw in numbers. *)
LEMMA DrawnFacts ==
    ASSUME NEW genes, NEW s, Drawn(genes, s)
    PROVE  /\ direction(s) \in Point /\ Dot(direction(s), direction(s)) = 25
           /\ sideNormal(s) = <<direction(s)[2], -direction(s)[1]>> /\ sideNormal(s) \in Point
           /\ pointAt(s, genes.t) \in Point
           /\ tiltedAxis(s, genes.side, genes.angle) = WallAxis(genes, s)
           /\ WallAxis(genes, s) \in Point
           /\ Dot(WallAxis(genes, s), WallAxis(genes, s)) = 625
           /\ Dot(WallAxis(genes, s), sideNormal(s)) = genes.side * (25 * genes.angle[2])
           /\ genes.angle[1] \in 3..4 /\ genes.angle[2] \in 3..4
<1> DEFINE d == direction(s)
           axis == WallAxis(genes, s)
<1>1. d \in Point /\ Dot(d, d) = 25
    BY DirectionFacts DEF Drawn
<1>2. sideNormal(s) = <<d[2], -d[1]>> /\ sideNormal(s) \in Point
    BY <1>1 DEF sideNormal, Point
<1>3. pointAt(s, genes.t) \in Point
    <2>1. genes.t \in Int /\ s.a \in Point /\ s.b \in Point
        BY DEF Drawn, Flown
    <2>2. genes.t * (Scale \div 5) \in Int /\ Scale \in Int
        BY <2>1 DEF Scale
    <2> QED
        BY <2>1, <2>2, PointOps DEF pointAt
<1>4. tiltedAxis(s, genes.side, genes.angle) = axis
    BY DEF tiltedAxis, sideNormal, WallAxis, InFrame
<1>5. genes.angle = <<4, 3>> \/ genes.angle = <<3, 4>>
    BY DEF Drawn
<1>6. genes.angle[1] \in 3..4 /\ genes.angle[2] \in 3..4 /\ genes.side \in {-1, 1}
    BY <1>5 DEF Drawn
<1> HIDE DEF d
<1>7. axis \in Point /\ Dot(axis, axis) = 625
    <2> DEFINE a1 == genes.angle[1]
               a2 == genes.angle[2]
    <2>1. a1 \in Int /\ a2 \in Int /\ axis = InFrame(d, genes.side, a1, a2)
        BY <1>6 DEF WallAxis, d
    <2>2. a1 * a1 + a2 * a2 = 25
        BY <1>5
    <2> HIDE DEF a1, a2, axis
    <2>3. axis \in Point /\ Dot(axis, axis) = 25 * (a1 * a1 + a2 * a2)
        BY <1>1, <1>6, <2>1, FrameFacts, FrameDot
    <2> QED
        BY <2>2, <2>3 DEF axis
<1>8. Dot(axis, sideNormal(s)) = genes.side * (25 * genes.angle[2])
    <2>1. sideNormal(s) = InFrame(d, genes.side, 0, genes.side)
        BY <1>1, <1>2, <1>6 DEF InFrame, Plus, Times, Point
    <2>a. genes.angle[1] \in Int /\ genes.angle[2] \in Int /\ genes.side \in Int
        BY <1>6
    <2>2. Dot(InFrame(d, genes.side, genes.angle[1], genes.angle[2]), InFrame(d, genes.side, 0, genes.side))
            = 25 * (genes.angle[1] * 0 + genes.angle[2] * genes.side)
        <3>1. \A x, y, z, w \in Int :
                 Dot(InFrame(d, genes.side, x, y), InFrame(d, genes.side, z, w)) = 25 * (x * z + y * w)
            BY <1>1, <1>6, FrameDot
        <3> DEFINE a1 == genes.angle[1]
                   a2 == genes.angle[2]
                   zero == 0
                   e == genes.side
        <3>2. a1 \in Int /\ a2 \in Int /\ zero \in Int /\ e \in Int
            BY <2>a
        <3> HIDE DEF a1, a2, zero, e
        <3>3. Dot(InFrame(d, genes.side, a1, a2), InFrame(d, genes.side, zero, e)) = 25 * (a1 * zero + a2 * e)
            BY <3>1, <3>2
        <3> QED
            BY <3>3 DEF a1, a2, zero, e
    <2>3. 25 * (genes.angle[1] * 0 + genes.angle[2] * genes.side) = genes.side * (25 * genes.angle[2])
        BY <1>6
    <2> QED
        BY <2>1, <2>2, <2>3 DEF WallAxis, d
<1> QED
    BY <1>1, <1>2, <1>3, <1>4, <1>6, <1>7, <1>8 DEF d

(* The axis of a wall runs from where it starts to its far end, or back. *)
LEMMA WallEnds ==
    ASSUME NEW start \in Point, NEW axis \in Point, NEW len \in Nat, len > WALL_THICKNESS,
           NEW o, o = makeWall(start, axis, len)
    PROVE  \/ wallAxis(o) = <<start, Plus(start, Times(2 * len, axis))>>
           \/ wallAxis(o) = <<Plus(start, Times(2 * len, axis)), start>>
<1> DEFINE A == Times(len, axis)
           half == IF o.l >= o.w THEN Times(o.l, o.u) ELSE Times(o.w, Left(o.u))
<1>1. wallAxis(o) = <<Minus(o.centre, half), Plus(o.centre, half)>>
    BY DEF wallAxis, boxAxes, Left
<1>2. o.centre = Plus(start, A)
    BY MakeWallStores DEF WALL_THICKNESS
<1>3. A \in Point
    BY PointOps
<1>4. PICK turn \in {-1, 1} :
         \/ o.l = len /\ o.w = WALL_THICKNESS /\ o.u = Times(turn, axis)
         \/ o.l = WALL_THICKNESS /\ o.w = len /\ o.u = Times(turn, Left(axis))
    BY MakeWallStores DEF WALL_THICKNESS
<1>5. half = A \/ half = Times(-1, A)
    <2>1. turn = 1 \/ turn = -1
        OBVIOUS
    <2>2. CASE o.l = len /\ o.w = WALL_THICKNESS /\ o.u = Times(turn, axis)
        <3>1. half = Times(len, Times(turn, axis))
            BY <2>2 DEF WALL_THICKNESS
        <3> QED
            BY <2>1, <3>1 DEF Times, Point
    <2>3. CASE o.l = WALL_THICKNESS /\ o.w = len /\ o.u = Times(turn, Left(axis))
        <3>1. half = Times(len, Left(Times(turn, Left(axis))))
            BY <2>3 DEF WALL_THICKNESS
        <3>2. Left(Times(turn, Left(axis))) = Times(-turn, axis)
            BY DEF Left, Times, Point
        <3> QED
            BY <2>1, <3>1, <3>2 DEF Times, Point
    <2> QED
        BY <1>4, <2>2, <2>3
<1>6. Minus(Plus(start, A), A) = start /\ Plus(Plus(start, A), Times(-1, A)) = start
    BY <1>3 DEF Plus, Minus, Times, Point
<1>7. Plus(Plus(start, A), A) = Plus(start, Times(2 * len, axis))
    BY DEF Plus, Times, Point
<1>8. Minus(Plus(start, A), Times(-1, A)) = Plus(Plus(start, A), A)
    BY <1>3 DEF Plus, Minus, Times, Point
<1> HIDE DEF A, half
<1> QED
    BY <1>1, <1>2, <1>5, <1>6, <1>7, <1>8

(* A point between two others on one line. *)
LEMMA Stretch ==
    ASSUME NEW p \in Point, NEW v \in Point, Dot(v, v) > 0, NEW m \in Nat \ {0}, NEW k \in Nat \ {0}
    PROVE  /\ OnSegment(p, Minus(p, Times(m, v)), Plus(p, Times(k, v)))
           /\ OnSegment(p, Plus(p, Times(k, v)), Minus(p, Times(m, v)))
<1> DEFINE a == Minus(p, Times(m, v))
           b == Plus(p, Times(k, v))
           V == Dot(v, v)
<1>1. V \in Int /\ V > 0
    BY PointOps
<1>2. /\ cross(a, b, p) = 0
      /\ Dot(Minus(p, a), Minus(b, a)) = (m * (m + k)) * V
      /\ Dot(Minus(p, b), Minus(a, b)) = (k * (m + k)) * V
      /\ cross(b, a, p) = 0
    <2>1. cross(a, b, p) = 0
        BY DEF cross, Minus, Plus, Times, Point
    <2>2. cross(b, a, p) = 0
        <3>1. a \in Point /\ b \in Point
            BY PointOps
        <3> HIDE DEF a, b
        <3>2. cross(a, b, p) = -cross(b, a, p) /\ cross(b, a, p) \in Int
            BY <3>1, CrossAt
        <3> QED
            BY <2>1, <3>2
    <2>3. Dot(Minus(p, a), Minus(b, a)) = (m * (m + k)) * V
        BY DEF Dot, Minus, Plus, Times, Point
    <2>4. Dot(Minus(p, b), Minus(a, b)) = (k * (m + k)) * V
        BY DEF Dot, Minus, Plus, Times, Point
    <2> QED
        BY <2>1, <2>2, <2>3, <2>4
<1>3. m * (m + k) > 0 /\ k * (m + k) > 0 /\ m * (m + k) \in Int /\ k * (m + k) \in Int
    BY ProductSign
<1>4. (m * (m + k)) * V > 0 /\ (k * (m + k)) * V > 0
    <2> DEFINE x == m * (m + k)
               y == k * (m + k)
    <2> HIDE DEF x, y, V
    <2>1. x * V > 0 /\ y * V > 0
        BY <1>1, <1>3, ProductSign DEF x, y
    <2> QED
        BY <2>1 DEF x, y
<1>5. a # b
    <2> SUFFICES ASSUME a = b PROVE FALSE
        OBVIOUS
    <2>1. Dot(Minus(p, a), Minus(b, a)) = 0
        BY DEF Dot, Minus, Plus, Times, Point
    <2> QED
        BY <1>2, <1>4, <2>1
<1>6. Dot(Minus(p, a), Minus(b, a)) >= 0 /\ Dot(Minus(p, b), Minus(a, b)) >= 0
    <2> HIDE DEF V
    <2> QED
        BY <1>1, <1>2, <1>4
<1> HIDE DEF a, b
<1>7. OnSegment(p, a, b) /\ OnSegment(p, b, a)
    BY <1>2, <1>5, <1>6 DEF OnSegment
<1> QED
    BY <1>7 DEF a, b

(* An axis that leads to one side of the leg with the normal n. *)
ToSide(axis, n, side) == Dot(axis, axis) = 625 /\ \E c \in Nat \ {0} : Dot(axis, n) = side * c

(* The axis of a wall against the point where the wall is to cut a leg. *)
CutsLeg(axis, at, n, side, overhang) ==
    /\ OnSegment(at, axis[1], axis[2])
    /\ \E i \in 1..2 :
          /\ side * Sign(Dot(Minus(axis[i], at), n)) = 1
          /\ side * Sign(Dot(Minus(axis[3 - i], at), n)) = -1
          /\ Dot(Minus(axis[i], at), Minus(axis[i], at)) = (Scale * overhang) * (Scale * overhang)

(* The wall of the genes against its leg: where it cuts it, how far it     *)
(* reaches past it, and on which side.                                     *)
LEMMA WallOnLeg ==
    ASSUME NEW at \in Point, NEW axis \in Point, NEW n \in Point, NEW side \in {-1, 1},
           ToSide(axis, n, side),
           NEW len \in Nat, NEW overhang \in Nat, len > WALL_THICKNESS, overhang > 0, overhang < len,
           NEW o, o = makeWall(Minus(at, Times(2 * (len - overhang), axis)), axis, len)
    PROVE  CutsLeg(wallAxis(o), at, n, side, overhang)
<1> DEFINE m == 2 * (len - overhang)
           k == 2 * overhang
           near == Minus(at, Times(m, axis))
           far == Plus(at, Times(k, axis))
<1>a. PICK c \in Nat \ {0} : Dot(axis, n) = side * c
    BY DEF ToSide
<1>b. Dot(axis, axis) = 625
    BY DEF ToSide
<1>1. m \in Nat \ {0} /\ k \in Nat \ {0} /\ 2 * len = m + k
    OBVIOUS
<1>2. Plus(near, Times(2 * len, axis)) = far
    <2> HIDE DEF m, k
    <2>1. Plus(near, Times(m + k, axis)) = far
        BY <1>1 DEF Plus, Minus, Times, Point
    <2> QED
        BY <1>1, <2>1
<1>3. near \in Point /\ far \in Point
    BY <1>1, PointOps
<1>4. wallAxis(o) = <<near, far>> \/ wallAxis(o) = <<far, near>>
    BY <1>2, <1>3, WallEnds
<1>5. OnSegment(at, near, far) /\ OnSegment(at, far, near)
    BY <1>1, <1>b, Stretch
<1>6. Dot(Minus(far, at), n) = k * (side * c) /\ Dot(Minus(near, at), n) = -(m * (side * c))
    <2>1. Dot(Minus(far, at), n) = k * Dot(axis, n) /\ Dot(Minus(near, at), n) = -(m * Dot(axis, n))
        <3> HIDE DEF m, k
        <3> QED
            BY <1>1 DEF Dot, Minus, Plus, Times, Point
    <2> QED
        BY <1>a, <2>1
<1>7. Dot(Minus(far, at), Minus(far, at)) = (Scale * overhang) * (Scale * overhang)
    <2>1. Dot(Minus(far, at), Minus(far, at)) = (k * k) * Dot(axis, axis)
        <3> HIDE DEF m, k
        <3> QED
            BY <1>1 DEF Dot, Minus, Plus, Times, Point
    <2>2. (k * k) * 625 = (50 * overhang) * (50 * overhang)
        OBVIOUS
    <2> QED
        BY <1>b, <2>1, <2>2 DEF Scale
<1>8. side * Sign(Dot(Minus(far, at), n)) = 1 /\ side * Sign(Dot(Minus(near, at), n)) = -1
    <2> HIDE DEF m, k
    <2>1. k * c > 0 /\ m * c > 0 /\ k * c \in Int /\ m * c \in Int
        BY <1>1, ProductSign
    <2>2. k * (side * c) = side * (k * c) /\ m * (side * c) = side * (m * c)
        BY <1>1
    <2> DEFINE x == k * c
               y == m * c
    <2> HIDE DEF x, y
    <2>3. x \in Int /\ y \in Int /\ x > 0 /\ y > 0
        BY <2>1 DEF x, y
    <2>4. side * Sign(side * x) = 1 /\ side * Sign(-(side * y)) = -1
        <3>1. side = 1 \/ side = -1
            OBVIOUS
        <3> QED
            BY <2>3, <3>1 DEF Sign
    <2> QED
        BY <1>6, <2>2, <2>4 DEF x, y
<1> HIDE DEF near, far
<1> QED
    <2>1. CASE wallAxis(o) = <<near, far>>
        <3>1. wallAxis(o)[1] = near /\ wallAxis(o)[2] = far /\ wallAxis(o)[3 - 2] = near
            BY <2>1
        <3> QED
            BY <1>5, <1>7, <1>8, <3>1 DEF CutsLeg
    <2>2. CASE wallAxis(o) = <<far, near>>
        <3>1. wallAxis(o)[1] = far /\ wallAxis(o)[2] = near /\ wallAxis(o)[3 - 1] = near
            BY <2>2
        <3> QED
            BY <1>5, <1>7, <1>8, <3>1 DEF CutsLeg
    <2> QED
        BY <1>4, <2>1, <2>2

(* makeWall returns a box with an axis of length Unit. *)
LEMMA MakeWallUnit ==
    ASSUME NEW start \in Point, NEW axis \in Point, NEW len \in Nat \ {0}, Dot(axis, axis) = 625,
           NEW o, o = makeWall(start, axis, len)
    PROVE  o \in Box /\ Dot(o.u, o.u) = 625
<1>1. PICK turn \in {-1, 1} : o.u = Times(turn, axis) \/ o.u = Times(turn, Left(axis))
    BY MakeWallStores
<1>2. turn * turn = 1
    OBVIOUS
<1>3. ASSUME NEW v \in Point, Dot(v, v) = 625
      PROVE  Dot(Times(turn, v), Times(turn, v)) = 625
    BY <1>2, <1>3, Lengths
<1>4. Left(axis) \in Point /\ Dot(Left(axis), Left(axis)) = 625
    BY DEF Left, Dot, Point
<1> QED
    BY <1>1, <1>3, <1>4, MakeWallStores

(* A quarter turn in the frame of a leg. *)
LEMMA FrameLeft ==
    ASSUME NEW d \in Point, NEW side \in {-1, 1}, NEW x \in Int, NEW y \in Int
    PROVE  Left(InFrame(d, side, x, y)) = InFrame(d, side, side * y, -(side * x))
<1>1. side = 1 \/ side = -1
    OBVIOUS
<1>2. CASE side = 1
    BY <1>2 DEF InFrame, Left, Plus, Times, Point
<1>3. CASE side = -1
    BY <1>3 DEF InFrame, Left, Plus, Times, Point
<1> QED
    BY <1>1, <1>2, <1>3

(* The corner f ahead and g to the left of a wall around <<cx, cy>> along  *)
(* <<x, y>>, in the frame of a leg.                                        *)
FrameCorner(d, side, tip, cx, cy, x, y, len, f, g) ==
    Plus(tip, InFrame(d, side, cx + f * len * x + 2 * g * (side * y), cy + f * len * y - 2 * g * (side * x)))

(* A wall in the frame of a leg: its corners and its radius. *)
LEMMA FramedWall ==
    ASSUME NEW d \in Point, Dot(d, d) = 25, NEW side \in {-1, 1}, NEW tip \in Point,
           NEW cx \in Int, NEW cy \in Int, NEW x \in Int, NEW y \in Int, NEW len \in Nat \ {0},
           NEW start \in Point, NEW o, o = makeWall(start, InFrame(d, side, x, y), len),
           o.centre = Plus(tip, InFrame(d, side, cx, cy))
    PROVE  /\ \A i \in 1..4 : \E f, g \in {-1, 1} : boxCorners(o)[i] = FrameCorner(d, side, tip, cx, cy, x, y, len, f, g)
           /\ \A f, g \in {-1, 1} : \E i \in 1..4 : boxCorners(o)[i] = FrameCorner(d, side, tip, cx, cy, x, y, len, f, g)
<1> DEFINE axis == InFrame(d, side, x, y)
           C(f, g) == Plus(o.centre, Plus(Times(f * len, axis), Times(g * WALL_THICKNESS, Left(axis))))
           F(f, g) == Plus(tip, InFrame(d, side, cx + f * len * x + 2 * g * (side * y),
                                                 cy + f * len * y - 2 * g * (side * x)))
<1>1. axis \in Point
    BY FrameFacts
<1>a. Left(InFrame(d, side, x, y)) = InFrame(d, side, side * y, -(side * x))
    BY FrameLeft
<1>2. /\ \A i \in 1..4 : \E f, g \in {-1, 1} : boxCorners(o)[i] = C(f, g)
      /\ \A f, g \in {-1, 1} : \E i \in 1..4 : boxCorners(o)[i] = C(f, g)
    <2>1. o = makeWall(start, axis, len)
        OBVIOUS
    <2> HIDE DEF axis
    <2> QED
        BY <1>1, <2>1, MakeWallShape
<1>3. ASSUME NEW f \in {-1, 1}, NEW g \in {-1, 1}
      PROVE  C(f, g) = F(f, g)
    <2> DEFINE k == f * len
               m == g * WALL_THICKNESS
               lx == side * y
               ly == -(side * x)
               fx == k * x
               fy == k * y
               gx == m * lx
               gy == m * ly
    <2>1. k \in Int /\ m \in Int /\ m = 2 * g
        BY DEF WALL_THICKNESS
    <2>2. lx \in Int /\ ly \in Int
        OBVIOUS
    <2>3. Left(axis) = InFrame(d, side, lx, ly)
        BY <1>a
    <2> HIDE DEF k, m, lx, ly
    <2>4. fx \in Int /\ fy \in Int /\ gx \in Int /\ gy \in Int
        BY <2>1, <2>2
    <2>5. Times(k, axis) = InFrame(d, side, fx, fy)
        BY <2>1, FrameFacts
    <2>6. Times(m, Left(axis)) = InFrame(d, side, gx, gy)
        BY <2>1, <2>2, <2>3, FrameFacts
    <2> HIDE DEF fx, fy, gx, gy
    <2>7. Plus(InFrame(d, side, fx, fy), InFrame(d, side, gx, gy)) = InFrame(d, side, fx + gx, fy + gy)
        BY <2>4, FrameDot
    <2> DEFINE hx == fx + gx
               hy == fy + gy
    <2>8. hx \in Int /\ hy \in Int
        BY <2>4
    <2> HIDE DEF hx, hy
    <2>9. Plus(InFrame(d, side, cx, cy), InFrame(d, side, hx, hy)) = InFrame(d, side, cx + hx, cy + hy)
        BY <2>8, FrameDot
    <2>10. InFrame(d, side, cx, cy) \in Point /\ InFrame(d, side, hx, hy) \in Point
        BY <2>8, FrameFacts
    <2>11. Plus(Plus(tip, InFrame(d, side, cx, cy)), InFrame(d, side, hx, hy)) = Plus(tip, InFrame(d, side, cx + hx, cy + hy))
        BY <2>9, <2>10, VectorSums
    <2>12. C(f, g) = Plus(tip, InFrame(d, side, cx + hx, cy + hy))
        <3> HIDE DEF axis
        <3>1. C(f, g) = Plus(o.centre, Plus(Times(k, axis), Times(m, Left(axis))))
            BY DEF k, m
        <3> QED
            BY <2>5, <2>6, <2>7, <2>11, <3>1 DEF hx, hy
    <2>13. cx + hx = cx + f * len * x + 2 * g * (side * y)
        <3>1. hx = (f * len) * x + m * (side * y)
            BY DEF hx, fx, gx, k, lx
        <3> QED
            BY <2>1, <3>1
    <2>14. cy + hy = cy + f * len * y - 2 * g * (side * x)
        <3>1. hy = (f * len) * y + m * (-(side * x))
            BY DEF hy, fy, gy, k, ly
        <3> QED
            BY <2>1, <3>1
    <2> QED
        BY <2>12, <2>13, <2>14
<1> HIDE DEF C, F
<1>4. /\ \A i \in 1..4 : \E f, g \in {-1, 1} : boxCorners(o)[i] = F(f, g)
      /\ \A f, g \in {-1, 1} : \E i \in 1..4 : boxCorners(o)[i] = F(f, g)
    BY <1>2, <1>3
<1> QED
    BY <1>4 DEF F, FrameCorner

(* A wall of the gate whose blocker starts offset off its tip. *)
Gate(d, side, tip, a1, a2, len, offset, wall, blocker) ==
    /\ d \in Point /\ Dot(d, d) = 25 /\ side \in {-1, 1} /\ tip \in Point
    /\ (a1 = 4 /\ a2 = 3) \/ (a1 = 3 /\ a2 = 4)
    /\ len \in 17..20 /\ offset \in 0..300
    /\ \E start \in Point : wall = makeWall(start, InFrame(d, side, a1, a2), len)
    /\ wall.centre = Plus(tip, InFrame(d, side, -(len * a1), -(len * a2)))
    /\ \E start \in Point : blocker = makeWall(start, InFrame(d, side, -4, 3), len)
    /\ blocker.centre = Plus(tip, InFrame(d, side, 30 - 4 * len, offset + 3 * len))

(* The corners of the two walls of a gate, in the frame of its leg around  *)
(* the tip of the first one.                                               *)
LEMMA GateCorners ==
    ASSUME NEW d, NEW side, NEW tip, NEW a1, NEW a2, NEW len, NEW offset, NEW wall, NEW blocker,
           Gate(d, side, tip, a1, a2, len, offset, wall, blocker)
    PROVE  /\ wall \in Box /\ Dot(wall.u, wall.u) = 625
           /\ blocker \in Box /\ Dot(blocker.u, blocker.u) = 625
           /\ \A i \in 1..4 : \E f, g \in {-1, 1} :
                 boxCorners(wall)[i] = Plus(tip, InFrame(d, side, -(len * a1) + f * len * a1 + 2 * g * (side * a2),
                                                                  -(len * a2) + f * len * a2 - 2 * g * (side * a1)))
           /\ \A f, g \in {-1, 1} : \E i \in 1..4 :
                 boxCorners(wall)[i] = Plus(tip, InFrame(d, side, -(len * a1) + f * len * a1 + 2 * g * (side * a2),
                                                                  -(len * a2) + f * len * a2 - 2 * g * (side * a1)))
           /\ \A i \in 1..4 : \E f, g \in {-1, 1} :
                 boxCorners(blocker)[i] = Plus(tip, InFrame(d, side, 30 - 4 * len - 4 * f * len + 6 * g * side,
                                                                     offset + 3 * len + 3 * f * len + 8 * g * side))
           /\ \A f, g \in {-1, 1} : \E i \in 1..4 :
                 boxCorners(blocker)[i] = Plus(tip, InFrame(d, side, 30 - 4 * len - 4 * f * len + 6 * g * side,
                                                                     offset + 3 * len + 3 * f * len + 8 * g * side))
<1>1. /\ d \in Point /\ Dot(d, d) = 25 /\ side \in {-1, 1} /\ tip \in Point
      /\ len \in 17..20 /\ offset \in 0..300 /\ len \in Nat \ {0}
      /\ a1 \in Int /\ a2 \in Int
    BY DEF Gate
<1>a. a1 * a1 + a2 * a2 = 25
    <2>1. (a1 = 4 /\ a2 = 3) \/ (a1 = 3 /\ a2 = 4)
        BY DEF Gate
    <2> QED
        BY <2>1
<1>2. PICK ws \in Point : wall = makeWall(ws, InFrame(d, side, a1, a2), len)
    BY DEF Gate
<1>3. wall \in Box /\ Dot(wall.u, wall.u) = 625
    <2> DEFINE axis == InFrame(d, side, a1, a2)
    <2>1. axis \in Point /\ Dot(axis, axis) = 25 * (a1 * a1 + a2 * a2)
        BY <1>1, FrameFacts, FrameDot
    <2>3. Dot(axis, axis) = 625
        BY <1>a, <2>1
    <2> HIDE DEF axis
    <2> QED
        BY <1>1, <1>2, <2>1, <2>3, MakeWallUnit DEF axis
<1>4. /\ \A i \in 1..4 : \E f, g \in {-1, 1} :
            boxCorners(wall)[i] = Plus(tip, InFrame(d, side, -(len * a1) + f * len * a1 + 2 * g * (side * a2),
                                                             -(len * a2) + f * len * a2 - 2 * g * (side * a1)))
      /\ \A f, g \in {-1, 1} : \E i \in 1..4 :
            boxCorners(wall)[i] = Plus(tip, InFrame(d, side, -(len * a1) + f * len * a1 + 2 * g * (side * a2),
                                                             -(len * a2) + f * len * a2 - 2 * g * (side * a1)))
    <2> DEFINE cx == -(len * a1)
               cy == -(len * a2)
    <2>1. cx \in Int /\ cy \in Int
        BY <1>1
    <2>2. wall.centre = Plus(tip, InFrame(d, side, cx, cy))
        BY DEF Gate
    <2> HIDE DEF cx, cy
    <2>3. /\ \A i \in 1..4 : \E f, g \in {-1, 1} : boxCorners(wall)[i] = FrameCorner(d, side, tip, cx, cy, a1, a2, len, f, g)
          /\ \A f, g \in {-1, 1} : \E i \in 1..4 : boxCorners(wall)[i] = FrameCorner(d, side, tip, cx, cy, a1, a2, len, f, g)
        BY <1>1, <1>2, <2>1, <2>2, FramedWall
    <2> QED
        BY <2>3 DEF cx, cy, FrameCorner
<1> DEFINE b1 == -4
           b2 == 3
           ex == 30 - 4 * len
           ey == offset + 3 * len
<1>5. PICK bs \in Point : blocker = makeWall(bs, InFrame(d, side, b1, b2), len)
    BY DEF Gate
<1>6. blocker.centre = Plus(tip, InFrame(d, side, ex, ey))
    BY DEF Gate
<1>7. b1 \in Int /\ b2 \in Int /\ b1 * b1 + b2 * b2 = 25 /\ ex \in Int /\ ey \in Int
    BY <1>1
<1>8. blocker \in Box /\ Dot(blocker.u, blocker.u) = 625
    <2> HIDE DEF b1, b2
    <2> DEFINE axis == InFrame(d, side, b1, b2)
    <2>1. axis \in Point /\ Dot(axis, axis) = 25 * (b1 * b1 + b2 * b2)
        BY <1>1, <1>7, FrameFacts, FrameDot
    <2>3. Dot(axis, axis) = 625
        BY <1>7, <2>1
    <2> HIDE DEF axis
    <2> QED
        BY <1>1, <1>5, <2>1, <2>3, MakeWallUnit DEF axis
<1> DEFINE F(f, g) == FrameCorner(d, side, tip, ex, ey, b1, b2, len, f, g)
           G(f, g) == Plus(tip, InFrame(d, side, 30 - 4 * len - 4 * f * len + 6 * g * side,
                                                 offset + 3 * len + 3 * f * len + 8 * g * side))
<1>9. /\ \A i \in 1..4 : \E f, g \in {-1, 1} : boxCorners(blocker)[i] = F(f, g)
      /\ \A f, g \in {-1, 1} : \E i \in 1..4 : boxCorners(blocker)[i] = F(f, g)
    <2> HIDE DEF b1, b2, ex, ey
    <2> QED
        BY <1>1, <1>5, <1>6, <1>7, FramedWall
<1>10. ASSUME NEW f \in {-1, 1}, NEW g \in {-1, 1}
       PROVE  F(f, g) = G(f, g)
    <2>1. ex + f * len * b1 + 2 * g * (side * b2) = 30 - 4 * len - 4 * f * len + 6 * g * side
        BY <1>1
    <2>2. ey + f * len * b2 - 2 * g * (side * b1) = offset + 3 * len + 3 * f * len + 8 * g * side
        BY <1>1
    <2> HIDE DEF b1, b2, ex, ey
    <2> QED
        BY <2>1, <2>2 DEF FrameCorner
<1> HIDE DEF F, G
<1>11. /\ \A i \in 1..4 : \E f, g \in {-1, 1} : boxCorners(blocker)[i] = G(f, g)
       /\ \A f, g \in {-1, 1} : \E i \in 1..4 : boxCorners(blocker)[i] = G(f, g)
    BY <1>9, <1>10
<1>12. /\ \A i \in 1..4 : \E f, g \in {-1, 1} :
             boxCorners(blocker)[i] = Plus(tip, InFrame(d, side, 30 - 4 * len - 4 * f * len + 6 * g * side,
                                                                 offset + 3 * len + 3 * f * len + 8 * g * side))
       /\ \A f, g \in {-1, 1} : \E i \in 1..4 :
             boxCorners(blocker)[i] = Plus(tip, InFrame(d, side, 30 - 4 * len - 4 * f * len + 6 * g * side,
                                                                 offset + 3 * len + 3 * f * len + 8 * g * side))
    BY <1>11 DEF G
<1> QED
    BY <1>3, <1>4, <1>8, <1>12

(* The distance of two points in the frame of a leg. *)
LEMMA FrameDistance ==
    ASSUME NEW d \in Point, Dot(d, d) = 25, NEW side \in {-1, 1}, NEW tip \in Point,
           NEW x \in Int, NEW y \in Int, NEW x2 \in Int, NEW y2 \in Int, NEW p, NEW q,
           p = Plus(tip, InFrame(d, side, x, y)), q = Plus(tip, InFrame(d, side, x2, y2))
    PROVE  /\ Dot(Minus(p, q), Minus(p, q)) = 25 * ((x - x2) * (x - x2) + (y - y2) * (y - y2))
           /\ Minus(p, q) = InFrame(d, side, x - x2, y - y2)
<1> DEFINE e == x - x2
           f == y - y2
<1>1. e \in Int /\ f \in Int /\ e + x2 = x /\ f + y2 = y
    OBVIOUS
<1> HIDE DEF e, f
<1>2. Dot(InFrame(d, side, e, f), InFrame(d, side, e, f)) = 25 * (e * e + f * f)
    BY <1>1, FrameDot
<1>3. Minus(p, q) = InFrame(d, side, e, f)
    <2> DEFINE A == InFrame(d, side, e, f)
               B == InFrame(d, side, x2, y2)
    <2>1. Plus(A, B) = InFrame(d, side, e + x2, f + y2)
        BY <1>1, FrameDot
    <2>2. A \in Point /\ B \in Point /\ p = Plus(tip, Plus(A, B)) /\ q = Plus(tip, B)
        BY <1>1, <2>1, FrameFacts
    <2> HIDE DEF A, B
    <2>3. Minus(p, q) = A
        BY <2>2 DEF Plus, Minus, Point
    <2> QED
        BY <2>3 DEF A
<1> QED
    BY <1>2, <1>3 DEF e, f

(* Next to the tip of the wall the blocker leaves less than any gate. *)
LEMMA GateNear ==
    ASSUME NEW d, NEW side, NEW tip, NEW a1, NEW a2, NEW len, NEW wall, NEW blocker,
           Gate(d, side, tip, a1, a2, len, 0, wall, blocker), NEW gap \in 7..10
    PROVE  GapBelow(wall, blocker, gap)
<1> DEFINE one == 1
           less == -1
<1>1. /\ d \in Point /\ Dot(d, d) = 25 /\ side \in {-1, 1} /\ tip \in Point
      /\ len \in 17..20
      /\ a1 \in Int /\ a2 \in Int
    BY DEF Gate
<1>2. (a1 = 4 /\ a2 = 3) \/ (a1 = 3 /\ a2 = 4)
    BY DEF Gate
<1>3. one \in {-1, 1} /\ less \in {-1, 1}
    OBVIOUS
<1>4. wall \in Box /\ Dot(wall.u, wall.u) = 625 /\ blocker \in Box /\ Dot(blocker.u, blocker.u) = 625
    BY GateCorners
<1> HIDE DEF one, less
<1>5. PICK i \in 1..4 :
         boxCorners(wall)[i] = Plus(tip, InFrame(d, side, -(len * a1) + one * len * a1 + 2 * one * (side * a2),
                                                          -(len * a2) + one * len * a2 - 2 * one * (side * a1)))
    BY <1>3, GateCorners
<1>6. PICK j \in 1..4 :
         boxCorners(blocker)[j] = Plus(tip, InFrame(d, side, 30 - 4 * len - 4 * less * len + 6 * one * side,
                                                             0 + 3 * len + 3 * less * len + 8 * one * side))
    BY <1>3, GateCorners
<1> DEFINE x == 2 * (side * a2)
           y == -(2 * (side * a1))
           x2 == 30 + 6 * side
           y2 == 8 * side
<1>7. x \in Int /\ y \in Int /\ x2 \in Int /\ y2 \in Int
    BY <1>1
<1>8. boxCorners(wall)[i] = Plus(tip, InFrame(d, side, x, y))
    <2>1. -(len * a1) + one * len * a1 + 2 * one * (side * a2) = x
        BY <1>1 DEF one
    <2>2. -(len * a2) + one * len * a2 - 2 * one * (side * a1) = y
        BY <1>1 DEF one
    <2> QED
        BY <1>5, <2>1, <2>2
<1>9. boxCorners(blocker)[j] = Plus(tip, InFrame(d, side, x2, y2))
    <2>1. 30 - 4 * len - 4 * less * len + 6 * one * side = x2
        BY <1>1 DEF one, less
    <2>2. 0 + 3 * len + 3 * less * len + 8 * one * side = y2
        BY <1>1 DEF one, less
    <2> QED
        BY <1>6, <2>1, <2>2
<1>10. (x - x2) * (x - x2) + (y - y2) * (y - y2) <= 1220
    <2>1. side = 1 \/ side = -1
        BY <1>1
    <2>2. CASE side = 1
        BY <1>2, <2>2
    <2>3. CASE side = -1
        BY <1>2, <2>3
    <2> QED
        BY <2>1, <2>2, <2>3
<1> HIDE DEF x, y, x2, y2
<1> DEFINE p == boxCorners(wall)[i]
           q == boxCorners(blocker)[j]
<1>11. Dot(Minus(p, q), Minus(p, q)) = 25 * ((x - x2) * (x - x2) + (y - y2) * (y - y2))
    BY <1>1, <1>7, <1>8, <1>9, FrameDistance
<1>12. (Scale * gap) * (Scale * gap) > 25 * 1220
    BY DEF Scale
<1> DEFINE z == (x - x2) * (x - x2) + (y - y2) * (y - y2)
<1>13. z \in Int
    BY <1>7
<1>14. (Scale * gap) * (Scale * gap) \in Int
    BY DEF Scale
<1>15. Dot(Minus(p, q), Minus(p, q)) < (Scale * gap) * (Scale * gap)
    <2> HIDE DEF z, p, q
    <2>1. z <= 1220 /\ Dot(Minus(p, q), Minus(p, q)) = 25 * z
        BY <1>10, <1>11 DEF z
    <2> QED
        BY <1>12, <1>13, <1>14, <2>1
<1> QED
    BY <1>4, <1>15, NearCorners

(* GATE_OFFSET_MAX off the tip the blocker leaves more than any gate. *)
LEMMA GateFar ==
    ASSUME NEW d, NEW side, NEW tip, NEW a1, NEW a2, NEW len, NEW wall, NEW blocker,
           Gate(d, side, tip, a1, a2, len, 300, wall, blocker), NEW gap \in 7..10
    PROVE  ~GapBelow(wall, blocker, gap)
<1> DEFINE n1 == 3
           n2 == 4
           n == InFrame(d, side, n1, n2)
<1>1. /\ d \in Point /\ Dot(d, d) = 25 /\ side \in {-1, 1} /\ tip \in Point
      /\ len \in 17..20 /\ len \in Nat \ {0}
      /\ a1 \in Int /\ a2 \in Int
    BY DEF Gate
<1>2. (a1 = 4 /\ a2 = 3) \/ (a1 = 3 /\ a2 = 4)
    BY DEF Gate
<1>3. wall \in Box /\ Dot(wall.u, wall.u) = 625 /\ blocker \in Box /\ Dot(blocker.u, blocker.u) = 625
    BY GateCorners
<1>4. n1 \in Int /\ n2 \in Int /\ n1 * n1 + n2 * n2 = 25
    OBVIOUS
<1>5. n \in Point /\ Dot(n, n) = 625
    <2> HIDE DEF n1, n2
    <2>1. n \in Point /\ Dot(n, n) = 25 * (n1 * n1 + n2 * n2)
        BY <1>1, <1>4, FrameFacts, FrameDot
    <2> QED
        BY <1>4, <2>1
<1>6. ASSUME NEW x \in Int, NEW y \in Int
      PROVE  Dot(n, InFrame(d, side, x, y)) = 25 * (3 * x + 4 * y)
    <2> HIDE DEF n1, n2
    <2>1. Dot(n, InFrame(d, side, x, y)) = 25 * (n1 * x + n2 * y)
        BY <1>1, <1>4, FrameDot
    <2> QED
        BY <2>1 DEF n1, n2
<1> HIDE DEF n
<1> DEFINE D == 30650
<1>7. ASSUME NEW i \in 1..4, NEW j \in 1..4
      PROVE  Dot(n, Minus(boxCorners(blocker)[j], boxCorners(wall)[i])) >= D
    <2>1. PICK f, g \in {-1, 1} :
             boxCorners(wall)[i] = Plus(tip, InFrame(d, side, -(len * a1) + f * len * a1 + 2 * g * (side * a2),
                                                              -(len * a2) + f * len * a2 - 2 * g * (side * a1)))
        BY GateCorners
    <2>2. PICK e, h \in {-1, 1} :
             boxCorners(blocker)[j] = Plus(tip, InFrame(d, side, 30 - 4 * len - 4 * e * len + 6 * h * side,
                                                                 300 + 3 * len + 3 * e * len + 8 * h * side))
        BY GateCorners
    <2> DEFINE x == 30 - 4 * len - 4 * e * len + 6 * h * side
               y == 300 + 3 * len + 3 * e * len + 8 * h * side
               x2 == -(len * a1) + f * len * a1 + 2 * g * (side * a2)
               y2 == -(len * a2) + f * len * a2 - 2 * g * (side * a1)
    <2>3. x \in Int /\ y \in Int /\ x2 \in Int /\ y2 \in Int
        BY <1>1
    <2>4. 3 * x + 4 * y >= 1240
        <3>1. 3 * x + 4 * y = 1290 + 50 * (h * side)
            BY <1>1
        <3>2. h * side = 1 \/ h * side = -1
            BY <1>1
        <3> QED
            BY <3>1, <3>2
    <2>5. 3 * x2 + 4 * y2 <= 14
        <3>1. CASE a1 = 4 /\ a2 = 3
            <4>1. 3 * x2 + 4 * y2 = (f - 1) * (24 * len) - 14 * (g * side)
                BY <1>1, <3>1
            <4>2. g * side = 1 \/ g * side = -1
                BY <1>1
            <4>3. f = 1 \/ f = -1
                OBVIOUS
            <4>4. (f - 1) * (24 * len) <= 0
                BY <1>1, <4>3
            <4> HIDE DEF x2, y2
            <4> QED
                BY <1>1, <4>1, <4>2, <4>4
        <3>2. CASE a1 = 3 /\ a2 = 4
            <4>1. 3 * x2 + 4 * y2 = (f - 1) * (25 * len)
                BY <1>1, <3>2
            <4>3. f = 1 \/ f = -1
                OBVIOUS
            <4>4. (f - 1) * (25 * len) <= 0
                BY <1>1, <4>3
            <4> HIDE DEF x2, y2
            <4> QED
                BY <1>1, <4>1, <4>4
        <3> QED
            BY <1>2, <3>1, <3>2
    <2> HIDE DEF x, y, x2, y2
    <2>6. Minus(boxCorners(blocker)[j], boxCorners(wall)[i]) = InFrame(d, side, x - x2, y - y2)
        <3>1. boxCorners(blocker)[j] = Plus(tip, InFrame(d, side, x, y)) /\ boxCorners(wall)[i] = Plus(tip, InFrame(d, side, x2, y2))
            BY <2>1, <2>2 DEF x, y, x2, y2
        <3> QED
            BY <1>1, <2>3, <3>1, FrameDistance
    <2> DEFINE ex == x - x2
               ey == y - y2
    <2>7. ex \in Int /\ ey \in Int /\ 3 * ex + 4 * ey >= 1226
        BY <2>3, <2>4, <2>5
    <2> HIDE DEF ex, ey
    <2>8. Dot(n, InFrame(d, side, ex, ey)) = 25 * (3 * ex + 4 * ey)
        BY <1>6, <2>7
    <2>9. 25 * (3 * ex + 4 * ey) >= D
        BY <2>7
    <2> QED
        BY <2>6, <2>8, <2>9 DEF ex, ey
<1>8. D \in Nat \ {0} /\ Scale * gap \in Nat /\ Spans(D, n, Scale * gap)
    <2>1. (Scale * gap) * (Scale * gap) <= 250000 /\ Scale * gap \in Nat
        BY DEF Scale
    <2>2. D * D = 939422500
        OBVIOUS
    <2> DEFINE m == (Scale * gap) * (Scale * gap)
    <2>a. m \in Int
        BY <2>1
    <2>3. 625 * m <= D * D
        <3> HIDE DEF m
        <3>1. m <= 250000
            BY <2>1 DEF m
        <3> QED
            BY <2>2, <2>a, <3>1
    <2> QED
        BY <1>5, <2>1, <2>3 DEF Spans
<1> HIDE DEF D
<1>9. ASSUME NEW e \in Edges(wall), NEW f \in Edges(blocker)
      PROVE  ~EdgesCloser(e, f, Scale * gap)
    BY <1>3, <1>5, <1>7, <1>8, FarCorners
<1>10. ~overlaps(wall, blocker)
    <2> DEFINE b1 == -4
               b2 == 3
               axis == InFrame(d, side, a1, a2)
               baxis == InFrame(d, side, b1, b2)
               lx == side * a2
               ly == -(side * a1)
               bx == side * b2
               by == -(side * b1)
    <2>1. PICK ws \in Point : wall = makeWall(ws, axis, len)
        BY DEF Gate
    <2>2. PICK bs \in Point : blocker = makeWall(bs, baxis, len)
        BY DEF Gate
    <2>3. b1 \in Int /\ b2 \in Int /\ lx \in Int /\ ly \in Int /\ bx \in Int /\ by \in Int
        BY <1>1
    <2>4. Left(axis) = InFrame(d, side, lx, ly)
        BY <1>1, FrameLeft
    <2>5. Left(baxis) = InFrame(d, side, bx, by)
        <3> HIDE DEF b1, b2
        <3> QED
            BY <1>1, <2>3, FrameLeft
    <2>a. 3 * b1 + 4 * b2 = 0 /\ bx = 3 * side /\ by = 4 * side
        BY <1>1
    <2> HIDE DEF b1, b2, lx, ly, bx, by
    <2>6. axis \in Point /\ baxis \in Point
        BY <1>1, <2>3, FrameFacts
    <2>b. Left(axis) \in Point /\ Left(baxis) \in Point
        BY <1>1, <2>3, <2>4, <2>5, FrameFacts
    <2>7. /\ Dot(n, axis) = 25 * (3 * a1 + 4 * a2) /\ Dot(n, Left(axis)) = 25 * (3 * lx + 4 * ly)
          /\ Dot(n, baxis) = 25 * (3 * b1 + 4 * b2) /\ Dot(n, Left(baxis)) = 25 * (3 * bx + 4 * by)
        BY <1>1, <1>6, <2>3, <2>4, <2>5
    <2> HIDE DEF axis, baxis
    <2>8. /\ \A v \in Point : projectionRadius(wall, v) = len * Abs(Dot(axis, v)) + WALL_THICKNESS * Abs(Dot(Left(axis), v))
          /\ \A v \in Point : projectionRadius(blocker, v) = len * Abs(Dot(baxis, v)) + WALL_THICKNESS * Abs(Dot(Left(baxis), v))
        BY <1>1, <2>1, <2>2, <2>6, MakeWallShape
    <2>9. PICK k \in 1..2, turn \in {-1, 1} : boxAxes(blocker)[k] = Times(turn, Left(baxis))
        BY <1>1, <2>2, <2>6, MakeWallShape
    <2>10. Left(baxis) = Times(side, n)
        <3>1. Times(side, n) = InFrame(d, side, side * n1, side * n2)
            <4> HIDE DEF n1, n2
            <4>1. \A c \in Int : Times(c, n) = InFrame(d, side, c * n1, c * n2)
                BY <1>1, <1>4, FrameFacts DEF n
            <4>2. side \in Int
                BY <1>1
            <4> QED
                BY <4>1, <4>2
        <3>2. side * n1 = bx /\ side * n2 = by
            BY <1>1, <2>a
        <3> QED
            BY <2>5, <3>1, <3>2
    <2> DEFINE m == boxAxes(blocker)[k]
               Same(v) == Abs(Dot(v, m)) = Abs(Dot(n, v))
    <2>11. m \in Point /\ \A v \in Point : Same(v)
        <3>1. turn * side = 1 \/ turn * side = -1
            BY <1>1
        <3>2. m = Times(turn, Times(side, n))
            BY <2>9, <2>10
        <3>3. m = Times(turn * side, n)
            BY <1>1, <1>5, <3>2 DEF Times, Point
        <3> HIDE DEF m
        <3> DEFINE t == turn * side
        <3> HIDE DEF t
        <3>4. m = Times(t, n) /\ (t = 1 \/ t = -1)
            BY <3>1, <3>3 DEF t
        <3>5. ASSUME NEW v \in Point
              PROVE  Same(v)
            <4>1. Dot(v, m) = t * Dot(n, v) /\ Dot(n, v) \in Int
                BY <1>5, <3>4 DEF Dot, Times, Point
            <4> QED
                BY <3>4, <4>1 DEF Abs
        <3>6. m \in Point
            BY <1>5, <3>4, PointOps
        <3> QED
            BY <3>5, <3>6
    <2>12. projectionRadius(wall, m) <= 25 * (len * (3 * a1 + 4 * a2) + 14)
        <3>1. projectionRadius(wall, m) = len * Abs(25 * (3 * a1 + 4 * a2)) + 2 * Abs(25 * (3 * lx + 4 * ly))
            <4> HIDE DEF m
            <4>1. projectionRadius(wall, m) = len * Abs(Dot(axis, m)) + WALL_THICKNESS * Abs(Dot(Left(axis), m))
                BY <2>8, <2>11
            <4>2. Abs(Dot(axis, m)) = Abs(Dot(n, axis)) /\ Abs(Dot(Left(axis), m)) = Abs(Dot(n, Left(axis)))
                BY <2>6, <2>b, <2>11
            <4> QED
                BY <2>7, <4>1, <4>2 DEF WALL_THICKNESS
        <3>2. Abs(25 * (3 * a1 + 4 * a2)) = 25 * (3 * a1 + 4 * a2)
            BY <1>2 DEF Abs
        <3>3. Abs(25 * (3 * lx + 4 * ly)) <= 175 /\ Abs(25 * (3 * lx + 4 * ly)) \in Int
            <4>1. CASE side = 1
                BY <1>2, <4>1 DEF Abs, lx, ly
            <4>2. CASE side = -1
                BY <1>2, <4>2 DEF Abs, lx, ly
            <4> QED
                BY <1>1, <4>1, <4>2
        <3>4. len * (25 * (3 * a1 + 4 * a2)) = 25 * (len * (3 * a1 + 4 * a2))
            BY <1>1
        <3> DEFINE z == len * (3 * a1 + 4 * a2)
                   w == Abs(25 * (3 * lx + 4 * ly))
        <3>5. z \in Int
            BY <1>1
        <3> HIDE DEF z, w, m
        <3>6. projectionRadius(wall, m) = 25 * z + 2 * w
            BY <3>1, <3>2, <3>4 DEF z, w
        <3>7. w <= 175 /\ w \in Int
            BY <3>3 DEF w
        <3>8. projectionRadius(wall, m) <= 25 * (z + 14)
            BY <3>5, <3>6, <3>7
        <3> QED
            BY <3>8 DEF z
    <2>13. projectionRadius(blocker, m) = 1250
        <3> HIDE DEF m
        <3>1. projectionRadius(blocker, m) = len * Abs(Dot(baxis, m)) + WALL_THICKNESS * Abs(Dot(Left(baxis), m))
            BY <2>8, <2>11
        <3>2. Abs(Dot(baxis, m)) = Abs(Dot(n, baxis)) /\ Abs(Dot(Left(baxis), m)) = Abs(Dot(n, Left(baxis)))
            BY <2>6, <2>b, <2>11
        <3>3. Abs(Dot(n, baxis)) = 0
            BY <2>7, <2>a DEF Abs
        <3>4. Abs(Dot(n, Left(baxis))) = 625
            <4>1. Dot(n, Left(baxis)) = 625 * side
                BY <1>1, <2>7, <2>a
            <4>2. side = 1 \/ side = -1
                BY <1>1
            <4> QED
                BY <4>1, <4>2 DEF Abs
        <3> QED
            BY <1>1, <3>1, <3>2, <3>3, <3>4 DEF WALL_THICKNESS
    <2> DEFINE off == Minus(blocker.centre, wall.centre)
    <2>14. off \in Point /\ Dot(n, off) = 25 * (1290 + len * (3 * a1 + 4 * a2))
        <3> DEFINE x == 30 - 4 * len
                   y == 300 + 3 * len
                   x2 == -(len * a1)
                   y2 == -(len * a2)
                   ex == x - x2
                   ey == y - y2
        <3>1. x \in Int /\ y \in Int /\ x2 \in Int /\ y2 \in Int
            BY <1>1
        <3>2. 3 * ex + 4 * ey = 1290 + len * (3 * a1 + 4 * a2)
            BY <1>1
        <3>3. blocker.centre = Plus(tip, InFrame(d, side, x, y)) /\ wall.centre = Plus(tip, InFrame(d, side, x2, y2))
            BY DEF Gate
        <3> HIDE DEF x, y, x2, y2
        <3>4. off = InFrame(d, side, ex, ey)
            BY <1>1, <3>1, <3>3, FrameDistance
        <3>5. ex \in Int /\ ey \in Int
            BY <3>1
        <3> HIDE DEF ex, ey
        <3>6. Dot(n, off) = 25 * (3 * ex + 4 * ey)
            BY <1>6, <3>4, <3>5
        <3>7. off \in Point
            BY <1>1, <3>4, <3>5, FrameFacts
        <3> QED
            BY <3>2, <3>6, <3>7
    <2>15. Abs(Dot(off, m)) = Dot(n, off) /\ Dot(n, off) \in Int
        <3>1. Abs(Dot(off, m)) = Abs(Dot(n, off))
            BY <2>11, <2>14
        <3>2. Dot(n, off) \in Int /\ Dot(n, off) >= 0
            <4>1. len * (3 * a1 + 4 * a2) >= 0
                BY <1>1, <1>2
            <4> QED
                BY <1>1, <2>14, <4>1
        <3> HIDE DEF off, m
        <3> QED
            BY <3>1, <3>2 DEF Abs
    <2>16. ~(Abs(Dot(off, m)) < projectionRadius(wall, m) + projectionRadius(blocker, m))
        <3> DEFINE z == len * (3 * a1 + 4 * a2)
                   r == projectionRadius(wall, m)
        <3>1. z \in Int
            BY <1>1
        <3>2. r \in Int
            <4> HIDE DEF m
            <4>1. r = len * Abs(Dot(axis, m)) + WALL_THICKNESS * Abs(Dot(Left(axis), m))
                BY <2>8, <2>11
            <4>2. Abs(Dot(axis, m)) \in Int /\ Abs(Dot(Left(axis), m)) \in Int
                BY <2>6, <2>b, <2>11, PointOps, AbsFacts
            <4> QED
                BY <1>1, <4>1, <4>2 DEF WALL_THICKNESS
        <3> HIDE DEF off, m
        <3>3. r <= 25 * (z + 14) /\ Abs(Dot(off, m)) = 25 * (1290 + z)
            BY <2>12, <2>14, <2>15
        <3> HIDE DEF z, r
        <3>4. ~(Abs(Dot(off, m)) < r + 1250)
            BY <3>1, <3>2, <3>3
        <3> QED
            BY <2>13, <3>4 DEF r
    <2> QED
        BY <2>16 DEF overlaps
<1> QED
    BY <1>9, <1>10 DEF GapBelow

(* The end of the wall past the leg. *)
Tip(genes, s) == Plus(pointAt(s, genes.t), Times(2 * genes.overhang, WallAxis(genes, s)))

(* The start and the axis of a blocker. *)
LEMMA BlockerFacts ==
    ASSUME NEW genes, NEW s, Drawn(genes, s), NEW offset \in 0..300
    PROVE  /\ blockerAt(genes, s, offset)
                = makeWall(Plus(Tip(genes, s), InFrame(direction(s), genes.side, 30, offset)),
                           InFrame(direction(s), genes.side, -4, 3), genes.length)
           /\ Tip(genes, s) \in Point
<1> DEFINE d == direction(s)
           n == sideNormal(s)
           e == genes.side
           tip == Tip(genes, s)
<1>1. d \in Point /\ n = <<d[2], -d[1]>> /\ n \in Point /\ e \in {-1, 1}
    BY DrawnFacts DEF Drawn
<1>2. tip \in Point
    <2>1. pointAt(s, genes.t) \in Point /\ WallAxis(genes, s) \in Point
        BY DrawnFacts
    <2>2. 2 * genes.overhang \in Int
        BY DEF Drawn
    <2> QED
        BY <2>1, <2>2, PointOps DEF Tip
<1>3. tiltedAxis(s, genes.side, genes.angle) = WallAxis(genes, s)
    BY DrawnFacts
<1>4. blockerAt(genes, s, offset)
        = makeWall(Plus(Plus(tip, Times(GATE_AHEAD * (Scale \div 5), d)), Times(offset * e, n)),
                   Times(-1, tiltedAxis(s, -e, GATE_BLOCKER)), genes.length)
    BY <1>3 DEF blockerAt, Tip
<1>5. GATE_AHEAD * (Scale \div 5) = 30
    BY DEF GATE_AHEAD, Scale
<1>6. Times(-1, tiltedAxis(s, -e, GATE_BLOCKER)) = InFrame(d, e, -4, 3)
    <2>1. tiltedAxis(s, -e, GATE_BLOCKER) = Plus(Times(4, d), Times((-e) * 3, n))
        BY DEF tiltedAxis, GATE_BLOCKER
    <2> HIDE DEF d, n, e
    <2> QED
        BY <1>1, <2>1 DEF InFrame, Plus, Times, Point
<1>7. Plus(Plus(tip, Times(30, d)), Times(offset * e, n)) = Plus(tip, InFrame(d, e, 30, offset))
    <2> HIDE DEF d, n, e, tip
    <2>1. InFrame(d, e, 30, offset) = Plus(Times(30, d), Times(e * offset, n)) /\ e * offset = offset * e
        BY <1>1 DEF InFrame
    <2>2. offset * e \in Int
        BY <1>1
    <2>3. Times(30, d) \in Point /\ Times(offset * e, n) \in Point
        BY <1>1, <2>2, PointOps
    <2> QED
        BY <1>2, <2>1, <2>3, VectorSums
<1> QED
    BY <1>2, <1>4, <1>5, <1>6, <1>7

(* The centre of the wall, seen from its tip. *)
LEMMA TipReached ==
    ASSUME NEW at \in Point, NEW axis \in Point, NEW len \in Int, NEW over \in Int
    PROVE  Plus(Minus(at, Times(2 * (len - over), axis)), Times(len, axis))
             = Plus(Plus(at, Times(2 * over, axis)), Times(-len, axis))
  BY DEF Plus, Minus, Times, Point

(* The gate of a draw in the frame of its leg. *)
LEMMA DrawnGate ==
    ASSUME NEW genes, NEW s, Drawn(genes, s), NEW offset \in 0..300
    PROVE  Gate(direction(s), genes.side, Tip(genes, s), genes.angle[1], genes.angle[2], genes.length, offset,
                decodeWall(genes, s), blockerAt(genes, s, offset))
<1> DEFINE d == direction(s)
           e == genes.side
           tip == Tip(genes, s)
           a1 == genes.angle[1]
           a2 == genes.angle[2]
           len == genes.length
           over == genes.overhang
           at == pointAt(s, genes.t)
           axis == WallAxis(genes, s)
           wall == decodeWall(genes, s)
           start == Minus(at, Times(2 * (len - over), axis))
           blocker == blockerAt(genes, s, offset)
<1>1. /\ d \in Point /\ Dot(d, d) = 25 /\ e \in {-1, 1} /\ tip \in Point /\ len \in 17..20 /\ over \in 3..10
      /\ at \in Point /\ axis \in Point
    BY DrawnFacts, BlockerFacts DEF Drawn
<1>2. (a1 = 4 /\ a2 = 3) \/ (a1 = 3 /\ a2 = 4)
    <2>1. genes.angle = <<4, 3>> \/ genes.angle = <<3, 4>>
        BY DEF Drawn
    <2> QED
        BY <2>1
<1>3. a1 \in Int /\ a2 \in Int
    BY <1>2
<1>4. wall = makeWall(start, axis, len)
    <2>1. tiltedAxis(s, genes.side, genes.angle) = axis
        BY DrawnFacts
    <2> QED
        BY <2>1 DEF decodeWall
<1>5. axis = InFrame(d, e, a1, a2)
    BY DEF WallAxis
<1>6. tip = Plus(at, Times(2 * over, axis))
    BY DEF Tip
<1>7. blocker = makeWall(Plus(tip, InFrame(d, e, 30, offset)), InFrame(d, e, -4, 3), len)
    BY BlockerFacts
<1> HIDE DEF d, e, tip, a1, a2, len, over, at, axis, wall, blocker
<1>8. start \in Point
    <2>1. 2 * (len - over) \in Int
        BY <1>1
    <2> QED
        BY <1>1, <2>1, PointOps
<1>9. wall.centre = Plus(tip, InFrame(d, e, -(len * a1), -(len * a2)))
    <2>1. wall.centre = Plus(start, Times(len, axis))
        <3>1. len \in Nat \ {0}
            BY <1>1
        <3> QED
            BY <1>1, <1>4, <1>8, <3>1, MakeWallStores
    <2> DEFINE k == -len
    <2>2. k \in Int /\ k * a1 = -(len * a1) /\ k * a2 = -(len * a2)
        BY <1>1, <1>3
    <2>3. Plus(start, Times(len, axis)) = Plus(tip, Times(k, axis))
        <3>1. len \in Int /\ over \in Int
            BY <1>1
        <3> QED
            BY <1>1, <1>6, <3>1, TipReached
    <2> HIDE DEF k
    <2>4. Times(k, axis) = InFrame(d, e, k * a1, k * a2)
        BY <1>1, <1>3, <1>5, <2>2, FrameFacts
    <2> QED
        BY <2>1, <2>2, <2>3, <2>4
<1> DEFINE b1 == -4
           b2 == 3
           ahead == 30
           sx == len * b1
           sy == len * b2
<1>10. b1 \in Int /\ b2 \in Int /\ ahead \in Int /\ sx \in Int /\ sy \in Int /\ len \in Int /\ offset \in Int
       /\ ahead + sx = 30 - 4 * len /\ offset + sy = offset + 3 * len
    BY <1>1
<1>11. blocker = makeWall(Plus(tip, InFrame(d, e, ahead, offset)), InFrame(d, e, b1, b2), len)
    BY <1>7
<1> HIDE DEF b1, b2, ahead
<1>12. InFrame(d, e, ahead, offset) \in Point /\ InFrame(d, e, b1, b2) \in Point
    BY <1>1, <1>10, FrameFacts
<1>13. Plus(tip, InFrame(d, e, ahead, offset)) \in Point
    BY <1>1, <1>12, PointOps
<1>14. blocker.centre = Plus(tip, InFrame(d, e, 30 - 4 * len, offset + 3 * len))
    <2> DEFINE bs == Plus(tip, InFrame(d, e, ahead, offset))
               baxis == InFrame(d, e, b1, b2)
    <2>1. blocker.centre = Plus(bs, Times(len, baxis))
        <3>1. len \in Nat \ {0} /\ bs \in Point /\ baxis \in Point /\ blocker = makeWall(bs, baxis, len)
            BY <1>1, <1>11, <1>12, <1>13
        <3> HIDE DEF bs, baxis
        <3> QED
            BY <3>1, MakeWallStores
    <2>2. Times(len, baxis) = InFrame(d, e, sx, sy)
        <3>0. d \in Point /\ Dot(d, d) = 25 /\ e \in {-1, 1} /\ b1 \in Int /\ b2 \in Int
            BY <1>1, <1>10
        <3>1. \A c \in Int : Times(c, baxis) = InFrame(d, e, c * b1, c * b2)
            BY <3>0, FrameFacts
        <3> QED
            BY <1>10, <3>1
    <2> HIDE DEF sx, sy
    <2>3. Plus(InFrame(d, e, ahead, offset), InFrame(d, e, sx, sy)) = InFrame(d, e, ahead + sx, offset + sy)
        BY <1>1, <1>10, FrameDot
    <2>4. InFrame(d, e, sx, sy) \in Point
        BY <1>1, <1>10, FrameFacts
    <2>5. Plus(bs, InFrame(d, e, sx, sy)) = Plus(tip, InFrame(d, e, ahead + sx, offset + sy))
        BY <1>1, <1>12, <2>3, <2>4, VectorSums
    <2> QED
        BY <1>10, <2>1, <2>2, <2>5
<1>15. (\E w \in Point : wall = makeWall(w, InFrame(d, e, a1, a2), len))
       /\ (\E b \in Point : blocker = makeWall(b, InFrame(d, e, -4, 3), len))
    BY <1>4, <1>5, <1>8, <1>11, <1>13 DEF b1, b2
<1>16. Gate(d, e, tip, a1, a2, len, offset, wall, blocker)
    BY <1>1, <1>2, <1>9, <1>14, <1>15 DEF Gate
<1> QED
    BY <1>16 DEF d, e, tip, a1, a2, len, wall, blocker

(* The bracket of the bisection: the gap reaches the gate width at hi and  *)
(* not at lo, and they are no further apart than width.                    *)
IsBracket(genes, s, b, width) ==
    /\ b[1] \in 0..300 /\ b[2] \in 0..300
    /\ b[1] < b[2] /\ b[2] - b[1] <= width
    /\ GapBelow(decodeWall(genes, s), blockerAt(genes, s, b[1]), genes.gateWidth)
    /\ ~GapBelow(decodeWall(genes, s), blockerAt(genes, s, b[2]), genes.gateWidth)

(* One step of the bisection. *)
Halve(genes, s, b) ==
    LET mid == (b[1] + b[2]) \div 2
    IN  IF GapBelow(decodeWall(genes, s), blockerAt(genes, s, mid), genes.gateWidth)
        THEN <<mid, b[2]>> ELSE <<b[1], mid>>

(* A step of the bisection keeps the bracket and halves its width. *)
LEMMA Halved ==
    ASSUME NEW genes, NEW s, NEW b, NEW width \in 1..300, IsBracket(genes, s, b, width)
    PROVE  IsBracket(genes, s, Halve(genes, s, b), (width + 1) \div 2)
<1> DEFINE lo == b[1]
           hi == b[2]
           mid == (lo + hi) \div 2
           half == (width + 1) \div 2
           Narrow(x) == GapBelow(decodeWall(genes, s), blockerAt(genes, s, x), genes.gateWidth)
<1>1. lo \in 0..300 /\ hi \in 0..300 /\ lo < hi /\ hi - lo <= width /\ Narrow(lo) /\ ~Narrow(hi)
    BY DEF IsBracket
<1>2. Halve(genes, s, b) = IF Narrow(mid) THEN <<mid, hi>> ELSE <<lo, mid>>
    BY DEF Halve
<1> HIDE DEF lo, hi, Narrow
<1>3. mid \in 0..300 /\ mid < hi /\ lo <= mid /\ hi - mid <= half /\ mid - lo <= half
    BY <1>1
<1>4. CASE Narrow(mid)
    BY <1>1, <1>2, <1>3, <1>4 DEF IsBracket, Narrow
<1>5. CASE ~Narrow(mid)
    <2>1. lo < mid
        <3>1. lo # mid
            BY <1>1, <1>5
        <3> QED
            BY <1>1, <1>3, <3>1
    <2> QED
        BY <1>1, <1>2, <1>3, <1>5, <2>1 DEF IsBracket, Narrow
<1> QED
    BY <1>4, <1>5

(* The bisection ends with two offsets a step apart. *)
LEMMA OffsetFound ==
    ASSUME NEW genes, NEW s, Drawn(genes, s), genes.gateWidth \in 7..10
    PROVE  /\ GateOffset(genes, s) \in 1..300
           /\ ~GapBelow(decodeWall(genes, s), blockerAt(genes, s, GateOffset(genes, s)), genes.gateWidth)
           /\ GapBelow(decodeWall(genes, s), blockerAt(genes, s, GateOffset(genes, s) - 1), genes.gateWidth)
<1> DEFINE H(b) == Halve(genes, s, b)
           b0 == <<0, 300>>
           b1 == H(b0)
           b2 == H(b1)
           b3 == H(b2)
           b4 == H(b3)
           b5 == H(b4)
           b6 == H(b5)
           b7 == H(b6)
           b8 == H(b7)
           b9 == H(b8)
           E(f) == f = [i \in 0..9 |-> IF i = 0 THEN <<0, 300>> ELSE H(f[i - 1])]
           bracket == CHOOSE f : E(f)
<1>1. GateOffset(genes, s) = bracket[9][2]
    BY DEF GateOffset, Halve, GATE_SOLVE_STEPS, GATE_OFFSET_MAX
<1>2. \E f : E(f)
    <2> DEFINE g == [i \in 0..9 |-> IF i = 0 THEN b0 ELSE IF i = 1 THEN b1 ELSE IF i = 2 THEN b2
                        ELSE IF i = 3 THEN b3 ELSE IF i = 4 THEN b4 ELSE IF i = 5 THEN b5
                        ELSE IF i = 6 THEN b6 ELSE IF i = 7 THEN b7 ELSE IF i = 8 THEN b8 ELSE b9]
    <2>1. g[0] = b0 /\ g[1] = b1 /\ g[2] = b2 /\ g[3] = b3 /\ g[4] = b4 /\ g[5] = b5 /\ g[6] = b6 /\ g[7] = b7
          /\ g[8] = b8 /\ g[9] = b9
        <3> HIDE DEF b0, b1, b2, b3, b4, b5, b6, b7, b8, b9
        <3> QED
            OBVIOUS
    <2>2. \A i \in 0..9 : g[i] = IF i = 0 THEN <<0, 300>> ELSE H(g[i - 1])
        <3>1. g[0] = <<0, 300>> /\ g[1] = H(g[0]) /\ g[2] = H(g[1]) /\ g[3] = H(g[2]) /\ g[4] = H(g[3]) /\ g[5] = H(g[4])
              /\ g[6] = H(g[5]) /\ g[7] = H(g[6]) /\ g[8] = H(g[7]) /\ g[9] = H(g[8])
            <4> HIDE DEF g, H
            <4> QED
                BY <2>1
        <3> HIDE DEF g, H
        <3> QED
            BY <3>1
    <2>3. g = [i \in 0..9 |-> g[i]]
        <3> HIDE DEF b0, b1, b2, b3, b4, b5, b6, b7, b8, b9
        <3> QED
            OBVIOUS
    <2> HIDE DEF g, H
    <2>4. E(g)
        BY <2>2, <2>3
    <2> QED
        BY <2>4
<1>3. E(bracket)
    BY <1>2
<1> HIDE DEF H, bracket
<1>4. /\ bracket[0] = <<0, 300>> /\ bracket[1] = H(bracket[0]) /\ bracket[2] = H(bracket[1])
      /\ bracket[3] = H(bracket[2]) /\ bracket[4] = H(bracket[3]) /\ bracket[5] = H(bracket[4])
      /\ bracket[6] = H(bracket[5]) /\ bracket[7] = H(bracket[6]) /\ bracket[8] = H(bracket[7])
      /\ bracket[9] = H(bracket[8])
    BY <1>3
<1>5. IsBracket(genes, s, bracket[0], 300)
    <2>1. GapBelow(decodeWall(genes, s), blockerAt(genes, s, 0), genes.gateWidth)
        <3>1. Gate(direction(s), genes.side, Tip(genes, s), genes.angle[1], genes.angle[2], genes.length, 0,
                   decodeWall(genes, s), blockerAt(genes, s, 0))
            BY DrawnGate
        <3> QED
            BY <3>1, GateNear
    <2>2. ~GapBelow(decodeWall(genes, s), blockerAt(genes, s, 300), genes.gateWidth)
        <3>1. Gate(direction(s), genes.side, Tip(genes, s), genes.angle[1], genes.angle[2], genes.length, 300,
                   decodeWall(genes, s), blockerAt(genes, s, 300))
            BY DrawnGate
        <3> QED
            BY <3>1, GateFar
    <2> QED
        BY <1>4, <2>1, <2>2 DEF IsBracket
<1>6. \A b : \A w \in 1..300 : IsBracket(genes, s, b, w) => IsBracket(genes, s, H(b), (w + 1) \div 2)
    BY Halved DEF H
<1>7. /\ (300 + 1) \div 2 = 150 /\ (150 + 1) \div 2 = 75 /\ (75 + 1) \div 2 = 38 /\ (38 + 1) \div 2 = 19
      /\ (19 + 1) \div 2 = 10 /\ (10 + 1) \div 2 = 5 /\ (5 + 1) \div 2 = 3 /\ (3 + 1) \div 2 = 2 /\ (2 + 1) \div 2 = 1
    OBVIOUS
<1>8. IsBracket(genes, s, bracket[3], 38)
    <2>1. IsBracket(genes, s, bracket[1], 150)
        BY <1>4, <1>5, <1>6, <1>7
    <2>2. IsBracket(genes, s, bracket[2], 75)
        BY <1>4, <2>1, <1>6, <1>7
    <2> QED
        BY <1>4, <2>2, <1>6, <1>7
<1>9. IsBracket(genes, s, bracket[6], 5)
    <2>1. IsBracket(genes, s, bracket[4], 19)
        BY <1>4, <1>8, <1>6, <1>7
    <2>2. IsBracket(genes, s, bracket[5], 10)
        BY <1>4, <2>1, <1>6, <1>7
    <2> QED
        BY <1>4, <2>2, <1>6, <1>7
<1>10. IsBracket(genes, s, bracket[9], 1)
    <2>1. IsBracket(genes, s, bracket[7], 3)
        BY <1>4, <1>9, <1>6, <1>7
    <2>2. IsBracket(genes, s, bracket[8], 2)
        BY <1>4, <2>1, <1>6, <1>7
    <2> QED
        BY <1>4, <2>2, <1>6, <1>7
<1> DEFINE lo == bracket[9][1]
           hi == bracket[9][2]
<1>11. lo \in 0..300 /\ hi \in 0..300 /\ lo < hi /\ hi - lo <= 1
    BY <1>10 DEF IsBracket
<1>12. GapBelow(decodeWall(genes, s), blockerAt(genes, s, lo), genes.gateWidth)
       /\ ~GapBelow(decodeWall(genes, s), blockerAt(genes, s, hi), genes.gateWidth)
    BY <1>10 DEF IsBracket
<1> HIDE DEF lo, hi
<1>13. hi \in 1..300 /\ lo = hi - 1
    BY <1>11
<1> QED
    BY <1>1, <1>12, <1>13 DEF hi

(* A wall moved is the wall made there. *)
LEMMA MovedWall ==
    ASSUME NEW start \in Point, NEW axis \in Point, NEW v \in Point, NEW len \in Nat
    PROVE  [makeWall(start, axis, len) EXCEPT !.centre = Minus(@, v)] = makeWall(Minus(start, v), axis, len)
<1> DEFINE up == IF axis[2] > 0 \/ (axis[2] = 0 /\ axis[1] > 0) THEN axis ELSE Times(-1, axis)
           A == Times(len, axis)
           W(c) == IF up[1] < 0
                   THEN [centre |-> c, l |-> WALL_THICKNESS, w |-> len, u |-> <<up[2], -up[1]>>]
                   ELSE [centre |-> c, l |-> len, w |-> WALL_THICKNESS, u |-> up]
<1>1. makeWall(start, axis, len) = W(Plus(start, A)) /\ makeWall(Minus(start, v), axis, len) = W(Plus(Minus(start, v), A))
    BY DEF makeWall
<1>2. A \in Point
    BY PointOps
<1> HIDE DEF up, A
<1>3. Plus(Minus(start, v), A) = Minus(Plus(start, A), v)
    BY <1>2 DEF Plus, Minus, Point
<1>4. ASSUME NEW c
      PROVE  [W(c) EXCEPT !.centre = Minus(@, v)] = W(Minus(c, v))
    <2>1. CASE up[1] < 0
        BY <2>1
    <2>2. CASE ~(up[1] < 0)
        BY <2>2
    <2> QED
        BY <2>1, <2>2
<1> HIDE DEF W
<1> QED
    BY <1>1, <1>3, <1>4

(* A blocker moved a tenth of a metre towards the leg is the one with the  *)
(* next smaller offset.                                                    *)
LEMMA BlockerCloser ==
    ASSUME NEW genes, NEW s, Drawn(genes, s), NEW offset \in 1..300
    PROVE  [blockerAt(genes, s, offset) EXCEPT !.centre = Minus(@, Times(genes.side, sideNormal(s)))]
             = blockerAt(genes, s, offset - 1)
<1> DEFINE d == direction(s)
           n == sideNormal(s)
           e == genes.side
           tip == Tip(genes, s)
           less == offset - 1
           ahead == 30
           b1 == -4
           b2 == 3
           len == genes.length
           axis == InFrame(d, e, b1, b2)
           start == Plus(tip, InFrame(d, e, ahead, offset))
           v == Times(e, n)
<1>1. d \in Point /\ Dot(d, d) = 25 /\ n = <<d[2], -d[1]>> /\ n \in Point /\ e \in {-1, 1} /\ len \in Nat
    BY DrawnFacts DEF Drawn
<1>2. offset \in 0..300 /\ less \in 0..300 /\ ahead \in Int /\ b1 \in Int /\ b2 \in Int
    OBVIOUS
<1>3. tip \in Point
    BY <1>2, BlockerFacts
<1>4. blockerAt(genes, s, offset) = makeWall(start, axis, len)
    BY <1>2, BlockerFacts
<1>5. blockerAt(genes, s, less) = makeWall(Plus(tip, InFrame(d, e, ahead, less)), axis, len)
    BY <1>2, BlockerFacts
<1> HIDE DEF d, n, e, tip, ahead, b1, b2, len
<1>6. axis \in Point
    BY <1>1, <1>2, FrameFacts
<1>7. start \in Point
    <2>1. InFrame(d, e, ahead, offset) \in Point
        <3>1. offset \in Int
            OBVIOUS
        <3> QED
            BY <1>1, <1>2, <3>1, FrameFacts
    <2> QED
        BY <1>3, <2>1, PointOps
<1>8. v \in Point
    <2>1. e \in Int
        BY <1>1
    <2> QED
        BY <1>1, <2>1, PointOps
<1>9. Minus(start, v) = Plus(tip, InFrame(d, e, ahead, less))
    <2>1. InFrame(d, e, ahead, offset) = Plus(Times(ahead, d), Times(e * offset, n))
          /\ InFrame(d, e, ahead, less) = Plus(Times(ahead, d), Times(e * less, n))
        BY <1>1 DEF InFrame
    <2>2. e \in Int /\ e * less = e * offset - e /\ e * offset \in Int
        BY <1>1
    <2> DEFINE k == e * offset
    <2> HIDE DEF k, less
    <2>3. Minus(Plus(tip, Plus(Times(ahead, d), Times(k, n))), Times(e, n)) = Plus(tip, Plus(Times(ahead, d), Times(k - e, n)))
        <3>1. k \in Int /\ e \in Int
            BY <2>2 DEF k
        <3>2. Times(ahead, d) \in Point
            BY <1>1, <1>2, PointOps
        <3> DEFINE A == Times(ahead, d)
        <3> HIDE DEF A
        <3>3. Minus(Plus(tip, Plus(A, Times(k, n))), Times(e, n)) = Plus(tip, Plus(A, Times(k - e, n)))
            <4>1. A \in Point /\ n \in Point
                BY <1>1, <3>2 DEF A
            <4> QED
                BY <1>3, <3>1, <4>1 DEF Plus, Minus, Times, Point
        <3> QED
            BY <3>3 DEF A
    <2> QED
        BY <2>1, <2>2, <2>3 DEF k
<1> HIDE DEF axis, start, v, less
<1>10. [makeWall(start, axis, len) EXCEPT !.centre = Minus(@, v)] = makeWall(Minus(start, v), axis, len)
    BY <1>1, <1>6, <1>7, <1>8, MovedWall
<1>11. [blockerAt(genes, s, offset) EXCEPT !.centre = Minus(@, v)] = blockerAt(genes, s, less)
    BY <1>4, <1>5, <1>9, <1>10
<1> QED
    BY <1>11 DEF v, e, n, less

(* What was drawn for the seed. *)
LEMMA SeedDrawn ==
    ASSUME LayoutInv, Seeded
    PROVE  /\ Drawn(ind.genes, Own)
           /\ kind = "gate" => ind.genes.gateWidth \in 7..10
           /\ kind = "gate" => ind.obstacles = decodeGate(ind.genes, Own)
           /\ kind = "wall" => ind.obstacles = <<decodeWall(ind.genes, Own)>>
           /\ kind \in Kind
<1>1. kind \in Kind /\ ind.genes \in Genes(kind, seedSegments(waypoints))
      /\ ind.obstacles = decode(ind.genes, allSegments(waypoints))
    BY DEF LayoutInv, SeedInv, Seeded
<1>2. Flown(Own)
    BY OwnLeg
<1> DEFINE genes == ind.genes
<1>3. /\ genes.kind = kind /\ genes.side \in {-1, 1} /\ genes.t \in 1..4 /\ genes.length \in 17..20
      /\ genes.overhang \in 3..10 /\ genes.angle \in {<<4, 3>>, <<3, 4>>}
      /\ kind = "gate" => genes.gateWidth \in 7..10
    BY <1>1, GeneFacts
<1>4. ind.obstacles = IF genes.kind = "gate" THEN decodeGate(genes, Own) ELSE <<decodeWall(genes, Own)>>
    BY <1>1 DEF decode, Own
<1> QED
    BY <1>1, <1>2, <1>3, <1>4 DEF Drawn

(* The wall is the first obstacle of either motif. *)
LEMMA FirstIsTheWall ==
    ASSUME LayoutInv, Seeded
    PROVE  ind.obstacles[1] = decodeWall(ind.genes, Own)
  BY SeedDrawn DEF decodeGate, Kind

(* The wall of a seed cuts its leg. *)
LEMMA SeedCutsItsLeg == LayoutInv => WallCutsItsLeg
<1> SUFFICES ASSUME LayoutInv, Seeded PROVE WallCutsItsLeg
    BY DEF WallCutsItsLeg
<1> DEFINE genes == ind.genes
           s == Own
           at == pointAt(s, genes.t)
           axis == WallAxis(genes, s)
           n == sideNormal(s)
           len == genes.length
           over == genes.overhang
           c == 25 * genes.angle[2]
           o == decodeWall(genes, s)
           e == genes.side
<1>1. Drawn(genes, s)
    BY SeedDrawn
<1>2. ind.obstacles[1] = o
    BY FirstIsTheWall
<1>3. at \in Point /\ axis \in Point /\ n \in Point /\ Dot(axis, axis) = 625 /\ Dot(axis, n) = e * c
      /\ tiltedAxis(s, e, genes.angle) = axis
    BY <1>1, DrawnFacts
<1>4. c \in Nat \ {0}
    BY <1>1, DrawnFacts
<1>5. e \in {-1, 1} /\ len \in Nat /\ over \in Nat /\ len > WALL_THICKNESS /\ over > 0 /\ over < len
    BY <1>1 DEF Drawn, WALL_THICKNESS
<1>6. o = makeWall(Minus(at, Times(2 * (len - over), axis)), axis, len)
    BY <1>3 DEF decodeWall
<1>a. ToSide(axis, n, e)
    BY <1>3, <1>4 DEF ToSide
<1> HIDE DEF genes, s, at, axis, n, len, over, c, o, e
<1>7. CutsLeg(wallAxis(o), at, n, e, over)
    <2>1. at \in Point /\ axis \in Point /\ n \in Point
        BY <1>3
    <2> QED
        BY <2>1, <1>5, <1>6, <1>a, WallOnLeg
<1> QED
    BY <1>2, <1>7 DEF WallCutsItsLeg, CutsLeg, genes, s, at, n, over, e

(* The gate of a seed has the width of its gene. *)
LEMMA SeedGateWidth == LayoutInv => GateAsWideAsItsGene
<1> SUFFICES ASSUME LayoutInv, Seeded, kind = "gate" PROVE GateAsWideAsItsGene
    BY DEF GateAsWideAsItsGene
<1> DEFINE genes == ind.genes
           s == Own
           offset == GateOffset(genes, s)
           wall == ind.obstacles[1]
           blocker == ind.obstacles[2]
<1>1. Drawn(genes, s) /\ genes.gateWidth \in 7..10 /\ ind.obstacles = decodeGate(genes, s)
    BY SeedDrawn
<1>2. wall = decodeWall(genes, s) /\ blocker = blockerAt(genes, s, offset)
    BY <1>1 DEF decodeGate
<1> HIDE DEF genes, s
<1>3. /\ offset \in 1..300
      /\ ~GapBelow(decodeWall(genes, s), blockerAt(genes, s, offset), genes.gateWidth)
      /\ GapBelow(decodeWall(genes, s), blockerAt(genes, s, offset - 1), genes.gateWidth)
    BY <1>1, OffsetFound
<1> HIDE DEF offset, wall, blocker
<1>4. [blocker EXCEPT !.centre = Minus(@, Times(genes.side, sideNormal(s)))] = blockerAt(genes, s, offset - 1)
    BY <1>1, <1>2, <1>3, BlockerCloser
<1>5. /\ ~GapBelow(wall, blocker, genes.gateWidth)
      /\ GapBelow(wall, [blocker EXCEPT !.centre = Minus(@, Times(genes.side, sideNormal(s)))], genes.gateWidth)
    BY <1>2, <1>3, <1>4
<1> QED
    BY <1>5 DEF GateAsWideAsItsGene, wall, blocker, genes, s

(* On every leg with one of the twelve directions of the grid, for every   *)
(* choice of genes on the grid (crossing angles 36.9 and 53.1 degrees,     *)
(* lengths, overhangs and gate widths in whole metres, t in fifths), the   *)
(* wall that decode returns cuts its leg at t with the overhang of its     *)
(* gene on the side of its gene.  The bisection for the blocker, which     *)
(* here stands at 36.9 degrees and not at GATE_BLOCKER_DEG, ends at the    *)
(* gate width to a tenth of a metre.  Angles between are not covered.      *)
THEOREM LayoutsDecoded == Spec => []DecodedAsTheGenesSay
<1>1. LayoutInv => DecodedAsTheGenesSay
    BY SeedCutsItsLeg, SeedGateWidth DEF DecodedAsTheGenesSay
<1> QED
    BY <1>1, LayoutsInvariant, PTL

(* A multiple lies between the multiples of the absolute value. *)
LEMMA AbsBounds ==
    ASSUME NEW k \in Nat, NEW x \in Int
    PROVE  /\ Abs(x) \in Nat /\ k * Abs(x) \in Nat /\ k * x \in Int
           /\ k * x <= k * Abs(x) /\ -(k * x) <= k * Abs(x)
<1>1. CASE x < 0
    <2>1. Abs(x) = -x /\ -x \in Nat
        BY <1>1 DEF Abs
    <2>2. k * (-x) = -(k * x) /\ k * (-x) >= 0
        BY <2>1, ProductSign
    <2> QED
        BY <2>1, <2>2
<1>2. CASE ~(x < 0)
    <2>1. Abs(x) = x /\ x \in Nat
        BY <1>2 DEF Abs
    <2>2. k * x >= 0
        BY <2>1, ProductSign
    <2> QED
        BY <2>1, <2>2
<1> QED
    BY <1>1, <1>2

(* A corner is no further from the centre than the rotated half extents. *)
LEMMA CornerExtents ==
    ASSUME NEW o \in Box, NEW j \in 1..4, NEW i \in 1..2
    PROVE  /\ boxCorners(o)[j][i] \in Int /\ o.centre[i] \in Int /\ rotatedHalfExtents(o.l, o.w, o.u)[i] \in Int
           /\ o.centre[i] - rotatedHalfExtents(o.l, o.w, o.u)[i] <= boxCorners(o)[j][i]
           /\ boxCorners(o)[j][i] <= o.centre[i] + rotatedHalfExtents(o.l, o.w, o.u)[i]
<1> DEFINE l == o.l
           w == o.w
           u1 == o.u[1]
           u2 == o.u[2]
           c1 == o.centre[1]
           c2 == o.centre[2]
           x1 == l * u1
           x2 == l * u2
           y1 == w * (-u2)
           y2 == w * u1
           p1 == l * Abs(u1)
           p2 == l * Abs(u2)
           q1 == w * Abs(u2)
           q2 == w * Abs(u1)
<1>1. l \in Nat /\ w \in Nat /\ u1 \in Int /\ u2 \in Int /\ c1 \in Int /\ c2 \in Int
    BY DEF Box, Point
<1>2. rotatedHalfExtents(o.l, o.w, o.u) = <<p1 + q1, p2 + q2>>
    BY DEF rotatedHalfExtents
<1>3. /\ boxCorners(o)[1] = <<c1 + x1 + y1, c2 + x2 + y2>>
      /\ boxCorners(o)[2] = <<(c1 + x1) - y1, (c2 + x2) - y2>>
      /\ boxCorners(o)[3] = <<c1 - x1 - y1, c2 - x2 - y2>>
      /\ boxCorners(o)[4] = <<c1 - x1 + y1, c2 - x2 + y2>>
    <2>1. Times(l, boxAxes(o)[1]) = <<x1, x2>> /\ Times(w, boxAxes(o)[2]) = <<y1, y2>>
        BY DEF boxAxes, Times
    <2> DEFINE A == Times(l, boxAxes(o)[1])
               B == Times(w, boxAxes(o)[2])
    <2>2. /\ boxCorners(o)[1] = Plus(Plus(o.centre, A), B) /\ boxCorners(o)[2] = Minus(Plus(o.centre, A), B)
          /\ boxCorners(o)[3] = Minus(Minus(o.centre, A), B) /\ boxCorners(o)[4] = Plus(Minus(o.centre, A), B)
        BY DEF boxCorners
    <2> HIDE DEF A, B, x1, x2, y1, y2
    <2>3. A[1] = x1 /\ A[2] = x2 /\ B[1] = y1 /\ B[2] = y2
        BY <2>1 DEF A, B
    <2>4. Plus(Plus(o.centre, A), B) = <<c1 + x1 + y1, c2 + x2 + y2>>
        BY <2>3 DEF Plus
    <2>5. Minus(Plus(o.centre, A), B) = <<(c1 + x1) - y1, (c2 + x2) - y2>>
        BY <2>3 DEF Plus, Minus
    <2>6. Minus(Minus(o.centre, A), B) = <<c1 - x1 - y1, c2 - x2 - y2>>
        BY <2>3 DEF Minus
    <2>7. Plus(Minus(o.centre, A), B) = <<c1 - x1 + y1, c2 - x2 + y2>>
        BY <2>3 DEF Plus, Minus
    <2> QED
        BY <2>2, <2>4, <2>5, <2>6, <2>7
<1> HIDE DEF l, w, u1, u2, c1, c2
<1>4. y1 = -(w * u2) /\ w * u2 \in Int
    BY <1>1
<1>5. /\ x1 \in Int /\ x2 \in Int /\ y1 \in Int /\ y2 \in Int
      /\ p1 \in Nat /\ p2 \in Nat /\ q1 \in Nat /\ q2 \in Nat
      /\ x1 <= p1 /\ -x1 <= p1 /\ x2 <= p2 /\ -x2 <= p2
      /\ y2 <= q2 /\ -y2 <= q2 /\ w * u2 <= q1 /\ -(w * u2) <= q1
    <2>1. x1 \in Int /\ p1 \in Nat /\ x1 <= p1 /\ -x1 <= p1
        BY <1>1, AbsBounds
    <2>2. x2 \in Int /\ p2 \in Nat /\ x2 <= p2 /\ -x2 <= p2
        BY <1>1, AbsBounds
    <2>3. y2 \in Int /\ q2 \in Nat /\ y2 <= q2 /\ -y2 <= q2
        BY <1>1, AbsBounds
    <2>4. q1 \in Nat /\ w * u2 <= q1 /\ -(w * u2) <= q1
        BY <1>1, AbsBounds
    <2> QED
        BY <1>4, <2>1, <2>2, <2>3, <2>4
<1>6. y1 <= q1 /\ -y1 <= q1
    <2> HIDE DEF y1
    <2> QED
        BY <1>4, <1>5
<1> HIDE DEF x1, x2, y1, y2, p1, p2, q1, q2
<1>7. CASE i = 1
    <2>1. o.centre[i] = c1 /\ rotatedHalfExtents(o.l, o.w, o.u)[i] = p1 + q1
        BY <1>2, <1>7 DEF c1
    <2>2. boxCorners(o)[j][i] \in {c1 + x1 + y1, (c1 + x1) - y1, c1 - x1 - y1, c1 - x1 + y1}
        BY <1>3, <1>7
    <2> QED
        BY <1>1, <1>5, <1>6, <2>1, <2>2
<1>8. CASE i = 2
    <2>1. o.centre[i] = c2 /\ rotatedHalfExtents(o.l, o.w, o.u)[i] = p2 + q2
        BY <1>2, <1>8 DEF c2
    <2>2. boxCorners(o)[j][i] \in {c2 + x2 + y2, (c2 + x2) - y2, c2 - x2 - y2, c2 - x2 + y2}
        BY <1>3, <1>8
    <2> QED
        BY <1>1, <1>5, <1>6, <2>1, <2>2
<1> QED
    BY <1>7, <1>8

(* The obstacles of a seed are boxes. *)
LEMMA SeedBoxes ==
    ASSUME LayoutInv, Seeded
    PROVE  \A k \in DOMAIN ind.obstacles : ind.obstacles[k] \in Box
<1> DEFINE genes == ind.genes
           s == Own
<1>1. Drawn(genes, s)
    BY SeedDrawn
<1>2. decodeWall(genes, s) \in Box
    <2> DEFINE zero == 0
    <2>1. zero \in 0..300
        OBVIOUS
    <2> HIDE DEF zero, genes, s
    <2>2. Gate(direction(s), genes.side, Tip(genes, s), genes.angle[1], genes.angle[2], genes.length, zero,
               decodeWall(genes, s), blockerAt(genes, s, zero))
        BY <1>1, <2>1, DrawnGate
    <2> QED
        BY <2>2, GateCorners
<1>3. CASE kind = "wall"
    <2>1. ind.obstacles = <<decodeWall(genes, s)>>
        BY <1>3, SeedDrawn
    <2> QED
        BY <1>2, <2>1
<1>4. CASE kind = "gate"
    <2> DEFINE offset == GateOffset(genes, s)
    <2>1. genes.gateWidth \in 7..10 /\ ind.obstacles = <<decodeWall(genes, s), blockerAt(genes, s, offset)>>
        BY <1>4, SeedDrawn DEF decodeGate
    <2>2. offset \in 1..300
        BY <1>1, <2>1, OffsetFound
    <2> HIDE DEF offset, genes, s
    <2>3. offset \in 0..300
        BY <2>2
    <2>4. Gate(direction(s), genes.side, Tip(genes, s), genes.angle[1], genes.angle[2], genes.length, offset,
               decodeWall(genes, s), blockerAt(genes, s, offset))
        BY <1>1, <2>3, DrawnGate
    <2>5. blockerAt(genes, s, offset) \in Box
        BY <2>4, GateCorners
    <2> QED
        BY <1>2, <2>1, <2>5
<1> QED
    BY <1>3, <1>4, SeedDrawn DEF Kind

(* A legal seed is inside the area with every corner. *)
LEMMA SeedInsideArea == LayoutInv => LegalInsideArea
<1> SUFFICES ASSUME LayoutInv, Legal, NEW k \in DOMAIN ind.obstacles, NEW c \in Corner(ind.obstacles[k])
             PROVE  /\ Scale * Bounds[1] <= c[1] /\ c[1] <= Scale * Bounds[2]
                    /\ Scale * Bounds[3] <= c[2] /\ c[2] <= Scale * Bounds[4]
    BY DEF LegalInsideArea
<1>1. fitsInBounds(Bounds, ind.obstacles)
    <2>1. ~layoutProblem(ind.obstacles, allSegments(waypoints), ind.genes.segment, strict)
        BY DEF LayoutInv, SeedInv, Legal, Seeded
    <2> QED
        BY <2>1 DEF layoutProblem
<1> DEFINE o == ind.obstacles[k]
           h == rotatedHalfExtents(o.l, o.w, o.u)
<1>2. o \in Box
    BY SeedBoxes DEF Legal
<1>3. PICK j \in 1..4 : c = boxCorners(o)[j]
    BY DEF Corner
<1>4. /\ o.centre[1] - h[1] >= Scale * Bounds[1] /\ o.centre[1] + h[1] <= Scale * Bounds[2]
      /\ o.centre[2] - h[2] >= Scale * Bounds[3] /\ o.centre[2] + h[2] <= Scale * Bounds[4]
    <2>1. \A i \in 1..2 : /\ o.centre[i] - h[i] >= Scale * Bounds[2 * i - 1]
                          /\ o.centre[i] + h[i] <= Scale * Bounds[2 * i]
        BY <1>1 DEF fitsInBounds
    <2> HIDE DEF o, h
    <2>2. 2 * 1 - 1 = 1 /\ 2 * 1 = 2 /\ 2 * 2 - 1 = 3 /\ 2 * 2 = 4
        OBVIOUS
    <2> QED
        BY <2>1, <2>2
<1>5. /\ Scale * Bounds[1] \in Int /\ Scale * Bounds[2] \in Int
      /\ Scale * Bounds[3] \in Int /\ Scale * Bounds[4] \in Int
    BY BoundsAssumption DEF Scale
<1>6. /\ c[1] \in Int /\ o.centre[1] \in Int /\ h[1] \in Int /\ o.centre[1] - h[1] <= c[1] /\ c[1] <= o.centre[1] + h[1]
      /\ c[2] \in Int /\ o.centre[2] \in Int /\ h[2] \in Int /\ o.centre[2] - h[2] <= c[2] /\ c[2] <= o.centre[2] + h[2]
    BY <1>2, <1>3, CornerExtents
<1> DEFINE s1 == Scale * Bounds[1]
           s2 == Scale * Bounds[2]
           s3 == Scale * Bounds[3]
           s4 == Scale * Bounds[4]
<1> HIDE DEF o, h, s1, s2, s3, s4
<1>7. s1 <= c[1] /\ c[1] <= s2 /\ s3 <= c[2] /\ c[2] <= s4
    <2>1. s1 \in Int /\ s2 \in Int /\ s3 \in Int /\ s4 \in Int
        BY <1>5 DEF s1, s2, s3, s4
    <2>2. /\ o.centre[1] - h[1] >= s1 /\ o.centre[1] + h[1] <= s2
          /\ o.centre[2] - h[2] >= s3 /\ o.centre[2] + h[2] <= s4
        BY <1>4 DEF s1, s2, s3, s4
    <2> QED
        BY <1>6, <2>1, <2>2
<1> QED
    BY <1>7 DEF s1, s2, s3, s4

(* The ends of a wall are points. *)
LEMMA AxisPoints ==
    ASSUME NEW o \in Box
    PROVE  wallAxis(o)[1] \in Point /\ wallAxis(o)[2] \in Point
<1> DEFINE half == IF o.l >= o.w THEN Times(o.l, o.u) ELSE Times(o.w, Left(o.u))
<1>1. o.l \in Int /\ o.w \in Int /\ o.u \in Point /\ o.centre \in Point
    BY DEF Box
<1>2. Left(o.u) \in Point
    BY <1>1 DEF Left, Point
<1>3. half \in Point
    BY <1>1, <1>2, PointOps
<1>4. wallAxis(o)[1] = Minus(o.centre, half) /\ wallAxis(o)[2] = Plus(o.centre, half)
    BY DEF wallAxis, boxAxes, Left
<1> HIDE DEF half
<1> QED
    BY <1>1, <1>3, <1>4, PointOps

(* A legal seed of the strict pass meets no other leg. *)
LEMMA SeedCutsNoOther == LayoutInv => StrictCutsOwnLegOnly
<1> SUFFICES ASSUME LayoutInv, Legal, strict, CutsAnotherLeg PROVE FALSE
    BY DEF StrictCutsOwnLegOnly
<1> DEFINE segments == allSegments(waypoints)
           own == ind.genes.segment
<1>1. ~crossesOtherSegment(ind.obstacles, segments, own)
    <2>1. ~layoutProblem(ind.obstacles, segments, own, strict)
        BY DEF LayoutInv, SeedInv, Legal, Seeded
    <2> QED
        BY <2>1 DEF layoutProblem
<1>2. PICK k \in DOMAIN ind.obstacles, s \in segments :
         /\ s.index # own
         /\ Meet(wallAxis(ind.obstacles[k])[1], wallAxis(ind.obstacles[k])[2], Times(Scale, s.a), Times(Scale, s.b))
    BY DEF CutsAnotherLeg
<1>3. wallAxis(ind.obstacles[k])[1] \in Point /\ wallAxis(ind.obstacles[k])[2] \in Point
    BY SeedBoxes, AxisPoints DEF Legal
<1>4. Times(Scale, s.a) \in Point /\ Times(Scale, s.b) \in Point
    <2>1. s.a \in Point /\ s.b \in Point
        BY LegsFound DEF LayoutInv, Flown
    <2> QED
        BY <2>1, PointOps DEF Scale
<1>5. segmentsIntersect(wallAxis(ind.obstacles[k])[1], wallAxis(ind.obstacles[k])[2], Times(Scale, s.a), Times(Scale, s.b))
    BY <1>2, <1>3, <1>4, MeetIsSeen
<1> QED
    BY <1>1, <1>2, <1>5 DEF crossesOtherSegment

(* What layoutProblem accepts is inside the placement area with every      *)
(* corner and, in the strict pass, no axis of a wall has a point in common *)
(* with a leg that is not its own, for every area and every mission and    *)
(* draw on the grid.                                                       *)
THEOREM LayoutsAccepted == Spec => []AcceptedIsLegal
<1>1. LayoutInv => AcceptedIsLegal
    BY SeedInsideArea, SeedCutsNoOther DEF AcceptedIsLegal
<1> QED
    BY <1>1, LayoutsInvariant, PTL

(* Types. *)
THEOREM LayoutsTypes == Spec => []TypeOK
<1>1. LayoutInv => TypeOK
    <2> SUFFICES ASSUME LayoutInv PROVE TypeOK
        OBVIOUS
    <2>1. Seeded => Len(ind.obstacles) = (IF kind = "gate" THEN 2 ELSE 1)
        BY SeedDrawn DEF decodeGate, Kind
    <2> QED
        BY <2>1 DEF TypeOK, LayoutInv
<1> QED
    BY <1>1, LayoutsInvariant, PTL

-----------------------------------------------------------------------------
(***************************************************************************)
(* Breeding: from a population to the next.                                *)
(***************************************************************************)

(* The genomes of all niches. *)
AllGenomes == UNION {Genomes(Counts[k]) : k \in Slot}

(* The children a generation can be made of. *)
ChildSet == [genes : AllGenomes, illegal : BOOLEAN, origin : {"seed", "bred", "elite"}, parents : SUBSET AllGenomes]

(* A child of the generation to come against the population it is made from. *)
InsideFrame(c, members) ==
    \E p, q \in {i.genes : i \in {members[j] : j \in {h \in Slot : ~members[h].illegal}}} :
        /\ Frame(p) = Frame(c.genes) /\ Frame(q) = Frame(c.genes)
        /\ Cardinality({g \in Gene[p.niche] : c.genes.value[g] \notin {p.value[g], q.value[g]}}) <= 1

(* What BredByTheRules says of one child. *)
RightChild(c, members) ==
    /\ c.illegal <=> c.genes \in Unplaceable
    /\ c.origin = "bred" => InsideFrame(c, members) /\ c.genes \notin Cutting \union Unplaceable

(* The inductive invariant of Breeding: the marks and the genomes of the   *)
(* population and of the generation to come, each in its slot.             *)
BreedInv ==
    /\ pop \in [Slot -> [genes : AllGenomes, illegal : BOOLEAN]]
    /\ \A k \in Slot : pop[k].genes \in Genomes(Counts[k])
    /\ \A k \in Slot : pop[k].illegal <=> pop[k].genes \in Unplaceable
    /\ next \in Seq(ChildSet)
    /\ Len(next) <= Len(Counts)
    /\ \A k \in DOMAIN next : next[k].genes \in Genomes(Counts[k]) /\ RightChild(next[k], pop)
    /\ gen \in 0..MaxGenerations
    /\ next # <<>> => gen < MaxGenerations

(* Slots are numbered from 1. *)
LEMMA SlotsAre == Slot = 1..Len(Counts) /\ Len(Counts) \in Nat /\ Len(Counts) > 0
  BY CountsAssumption DEF Slot

(* What freshIndividual returns is marked if and only if it cannot be      *)
(* placed.                                                                 *)
LEMMA FreshFacts ==
    ASSUME NEW n, NEW child \in Fresh(n)
    PROVE  /\ child = Individual(child.genes, child.illegal, "seed", {})
           /\ child.genes \in Genomes(n)
           /\ child.illegal \in BOOLEAN
           /\ child.illegal <=> child.genes \in Unplaceable
<1> DEFINE Ok(isStrict) == {genes \in Genomes(n) : ~problemOf(genes, isStrict)}
<1>1. CASE \E genes \in Ok(TRUE) \union Ok(FALSE) : child = Individual(genes, FALSE, "seed", {})
    BY <1>1 DEF Individual, problemOf
<1>2. CASE \E genes \in Genomes(n) \ Ok(FALSE) : child = Individual(genes, TRUE, "seed", {})
    BY <1>2 DEF Individual, problemOf
<1> QED
    BY <1>1, <1>2 DEF Fresh

(* The parts of a genome. *)
LEMMA GenomeFields ==
    ASSUME NEW n, NEW c \in Genomes(n)
    PROVE  /\ c = [niche |-> n, segment |-> c.segment, side |-> c.side, value |-> c.value]
           /\ c.niche = n
           /\ c.segment \in SegmentChoices /\ c.side \in Sides
           /\ c.value \in [Gene[n] -> UNION {Values(n, g) : g \in Gene[n]}]
           /\ \A g \in Gene[n] : c.value[g] \in Values(n, g)
  BY DEF Genomes

(* A genome with other values in range is a genome of the same frame. *)
LEMMA GenomeMade ==
    ASSUME NEW n, NEW c \in Genomes(n),
           NEW v \in [Gene[n] -> UNION {Values(n, g) : g \in Gene[n]}],
           \A g \in Gene[n] : v[g] \in Values(n, g)
    PROVE  /\ [c EXCEPT !.value = v] \in Genomes(n)
           /\ [c EXCEPT !.value = v].value = v
           /\ Frame([c EXCEPT !.value = v]) = Frame(c)
  BY GenomeFields DEF Genomes, Frame

(* mutateGenes stays in the frame and in the ranges and moves at most one  *)
(* gene.                                                                   *)
LEMMA MutateFacts ==
    ASSUME NEW n, NEW c \in Genomes(n), NEW m \in mutateGenes(c)
    PROVE  /\ m \in Genomes(n)
           /\ Frame(m) = Frame(c)
           /\ \E g \in Gene[n] : \A h \in Gene[n] \ {g} : m.value[h] = c.value[h]
<1>0. c.niche = n
    BY GenomeFields
<1>a. PICK g \in Gene[n] : \E v \in Values(n, g) : m = [c EXCEPT !.value[g] = v]
    BY <1>0 DEF mutateGenes
<1>1. PICK v \in Values(n, g) : m = [c EXCEPT !.value[g] = v]
    BY <1>a
<1> DEFINE value == [c.value EXCEPT ![g] = v]
<1>2. value \in [Gene[n] -> UNION {Values(n, h) : h \in Gene[n]}]
    BY GenomeFields
<1>3. \A h \in Gene[n] : value[h] \in Values(n, h)
    BY GenomeFields
<1>4. m = [c EXCEPT !.value = value]
    BY <1>1, GenomeFields
<1>5. \A h \in Gene[n] \ {g} : value[h] = c.value[h]
    BY GenomeFields
<1> HIDE DEF value
<1> QED
    BY <1>2, <1>3, <1>4, <1>5, GenomeMade

(* Every gene of a child of crossover is one of its parents' genes. *)
LEMMA CrossoverFacts ==
    ASSUME NEW n, NEW a \in Genomes(n), NEW b \in Genomes(n), NEW c \in crossoverGenes(a, b)
    PROVE  /\ c \in Genomes(n)
           /\ \E p, q \in {a, b} :
                 /\ Frame(p) = Frame(c) /\ Frame(q) = Frame(c)
                 /\ \A g \in Gene[n] : c.value[g] \in {p.value[g], q.value[g]}
<1>0. a.niche = n
    BY GenomeFields
<1>1. CASE Frame(a) # Frame(b)
    <2>1. c \in {a, b}
        BY <1>1 DEF crossoverGenes
    <2> QED
        BY <2>1
<1>2. CASE Frame(a) = Frame(b)
    <2>1. PICK fromB \in SUBSET Gene[n] :
             c = [a EXCEPT !.value = [g \in Gene[n] |-> IF g \in fromB THEN b.value[g] ELSE a.value[g]]]
        BY <1>0, <1>2 DEF crossoverGenes
    <2> DEFINE value == [g \in Gene[n] |-> IF g \in fromB THEN b.value[g] ELSE a.value[g]]
    <2>2. value \in [Gene[n] -> UNION {Values(n, h) : h \in Gene[n]}]
        BY GenomeFields
    <2>3. \A h \in Gene[n] : value[h] \in Values(n, h) /\ value[h] \in {a.value[h], b.value[h]}
        BY GenomeFields
    <2>4. c = [a EXCEPT !.value = value]
        BY <2>1
    <2> HIDE DEF value
    <2>5. c \in Genomes(n) /\ c.value = value /\ Frame(c) = Frame(a)
        BY <2>2, <2>3, <2>4, GenomeMade
    <2> QED
        BY <1>2, <2>3, <2>5
<1> QED
    BY <1>1, <1>2

(* A subset of a singleton has at most one element. *)
LEMMA AtMostOne ==
    ASSUME NEW S, NEW x, S \subseteq {x}
    PROVE  Cardinality(S) <= 1
<1>1. CASE S = {}
    BY <1>1, FS_EmptySet
<1>2. CASE S # {}
    <2>1. S = {x}
        BY <1>2
    <2> QED
        BY <2>1, FS_Singleton
<1> QED
    BY <1>1, <1>2

(* tournament draws from members of the niche that can be simulated. *)
LEMMA PoolFacts ==
    ASSUME BreedInv, NEW n, NEW a \in Pool(n)
    PROVE  /\ a \in Genomes(n)
           /\ a \in AllGenomes
           /\ a \in {i.genes : i \in {pop[j] : j \in {h \in Slot : ~pop[h].illegal}}}
<1>1. PICK k \in Slot : pop[k].genes.niche = n /\ ~pop[k].illegal /\ a = pop[k].genes
    BY DEF Pool
<1>2. a \in Genomes(Counts[k])
    BY <1>1 DEF BreedInv
<1>3. n = Counts[k]
    BY <1>1, <1>2, GenomeFields
<1> QED
    BY <1>1, <1>2, <1>3 DEF AllGenomes

(* nicheChild returns a child by the rules. *)
LEMMA ChildFacts ==
    ASSUME BreedInv, NEW n, NEW child \in Children(n), NEW k \in Slot, n = Counts[k]
    PROVE  child \in ChildSet /\ child.genes \in Genomes(n) /\ RightChild(child, pop)
<1>1. CASE child \in Fresh(n)
    <2>1. child.genes \in AllGenomes
        BY <1>1, FreshFacts DEF AllGenomes
    <2> QED
        BY <1>1, <2>1, FreshFacts DEF ChildSet, RightChild, Individual
<1>2. CASE child \notin Fresh(n)
    <2>1. PICK o \in Offspring(n) : ~problemOf(o[1], TRUE) /\ child = Individual(o[1], FALSE, "bred", o[2])
        BY <1>2 DEF Children
    <2>2. PICK a \in Pool(n), b \in Pool(n) : \E genes \in UNION {mutateGenes(c) : c \in crossoverGenes(a, b)} : o = <<genes, {a, b}>>
        BY DEF Offspring
    <2>3. PICK c \in crossoverGenes(a, b) : \E m \in mutateGenes(c) : o = <<m, {a, b}>>
        BY <2>2
    <2>4. PICK m \in mutateGenes(c) : o = <<m, {a, b}>>
        BY <2>3
    <2>5. a \in Genomes(n) /\ b \in Genomes(n) /\ a \in AllGenomes /\ b \in AllGenomes
        BY PoolFacts
    <2>6. c \in Genomes(n)
        BY <2>5, CrossoverFacts
    <2>7. PICK p \in {a, b}, q \in {a, b} :
             /\ Frame(p) = Frame(c) /\ Frame(q) = Frame(c)
             /\ \A g \in Gene[n] : c.value[g] \in {p.value[g], q.value[g]}
        BY <2>5, CrossoverFacts
    <2>8. m \in Genomes(n) /\ Frame(m) = Frame(c)
        BY <2>6, MutateFacts
    <2>9. PICK moved \in Gene[n] : \A h \in Gene[n] \ {moved} : m.value[h] = c.value[h]
        BY <2>6, MutateFacts
    <2> DEFINE Parents == {i.genes : i \in {pop[j] : j \in {h \in Slot : ~pop[h].illegal}}}
    <2>10. p \in Parents /\ q \in Parents
        <3>1. a \in Parents /\ b \in Parents
            BY PoolFacts
        <3> QED
            BY <3>1
    <2>11. p.niche = n
        BY <2>5, GenomeFields
    <2>12. Cardinality({g \in Gene[p.niche] : m.value[g] \notin {p.value[g], q.value[g]}}) <= 1
        <3>1. {g \in Gene[p.niche] : m.value[g] \notin {p.value[g], q.value[g]}} \subseteq {moved}
            BY <2>7, <2>9, <2>11
        <3> QED
            BY <3>1, AtMostOne
    <2>13. child = [genes |-> m, illegal |-> FALSE, origin |-> "bred", parents |-> {a, b}]
        BY <2>1, <2>4 DEF Individual
    <2>14. m \notin Cutting \union Unplaceable
        BY <2>1, <2>4 DEF problemOf
    <2>15. child.genes = m /\ child.illegal = FALSE
        BY <2>13
    <2>16. InsideFrame(child, pop)
        BY <2>7, <2>8, <2>10, <2>12, <2>15 DEF InsideFrame
    <2>17. m \in AllGenomes /\ {a, b} \subseteq AllGenomes
        BY <2>5, <2>8 DEF AllGenomes
    <2>18. child \in ChildSet
        BY <2>13, <2>17 DEF ChildSet
    <2> QED
        BY <2>8, <2>14, <2>15, <2>16, <2>18 DEF RightChild
<1> QED
    BY <1>1, <1>2

(* The three actions that make a child add one that keeps to the rules. *)
LEMMA ChildAdded ==
    ASSUME BreedInv, gen < MaxGenerations, Open \in Slot, NEW child \in ChildSet,
           child.genes \in Genomes(Counts[Open]), RightChild(child, pop),
           next' = Append(next, child), UNCHANGED <<pop, gen>>
    PROVE  BreedInv'
<1>1. Slot' = Slot /\ AllGenomes' = AllGenomes /\ ChildSet' = ChildSet
    BY DEF Slot, AllGenomes, ChildSet
<1>3. /\ next' \in Seq(ChildSet)
      /\ Len(next') = Len(next) + 1
      /\ DOMAIN next' = 1..(Len(next) + 1)
      /\ \A k \in DOMAIN next : next'[k] = next[k]
      /\ next'[Open] = child
    BY DEF BreedInv, Open
<1>4. Len(next') <= Len(Counts)
    BY <1>3, SlotsAre DEF Open
<1>5. \A k \in DOMAIN next' : next'[k].genes \in Genomes(Counts[k]) /\ RightChild(next'[k], pop')
    <2> TAKE k \in DOMAIN next'
    <2>1. CASE k = Open
        BY <1>3, <2>1
    <2>2. CASE k # Open
        <3>1. k \in DOMAIN next
            BY <1>3, <2>2 DEF BreedInv, Open
        <3> QED
            BY <1>3, <3>1 DEF BreedInv
    <2> QED
        BY <2>1, <2>2
<1> QED
    BY <1>1, <1>3, <1>4, <1>5 DEF BreedInv

(* A first population of seeds is right. *)
LEMMA BreedInvInit == BreedInit => BreedInv
<1> SUFFICES ASSUME BreedInit PROVE BreedInv
    OBVIOUS
<1>1. /\ pop \in [Slot -> {Member(i) : i \in UNION {Fresh(n) : n \in Niche}}]
      /\ \A k \in Slot : pop[k].genes.niche = Counts[k]
    BY DEF BreedInit
<1>2. ASSUME NEW k \in Slot
      PROVE  /\ pop[k] \in [genes : AllGenomes, illegal : BOOLEAN]
             /\ pop[k].genes \in Genomes(Counts[k])
             /\ pop[k].illegal <=> pop[k].genes \in Unplaceable
    <2>1. PICK n \in Niche : \E i \in Fresh(n) : pop[k] = Member(i)
        BY <1>1
    <2>2. PICK i \in Fresh(n) : pop[k] = Member(i)
        BY <2>1
    <2>3. pop[k] = [genes |-> i.genes, illegal |-> i.illegal]
        BY <2>2 DEF Member
    <2>4. i.genes \in Genomes(n) /\ i.illegal \in BOOLEAN /\ (i.illegal <=> i.genes \in Unplaceable)
        BY FreshFacts
    <2>5. n = Counts[k]
        BY <1>1, <2>3, <2>4, GenomeFields
    <2>6. i.genes \in AllGenomes
        BY <2>4, <2>5 DEF AllGenomes
    <2> QED
        BY <2>3, <2>4, <2>5, <2>6
<1>3. pop \in [Slot -> [genes : AllGenomes, illegal : BOOLEAN]]
    BY <1>1, <1>2
<1>4. next = <<>> /\ gen = 0
    BY DEF BreedInit
<1>5. next \in Seq(ChildSet) /\ Len(next) = 0 /\ DOMAIN next = {}
    BY <1>4
<1>6. Len(next) <= Len(Counts) /\ gen \in 0..MaxGenerations
    BY <1>4, <1>5, SlotsAre, GenerationsAssumption
<1> QED
    BY <1>2, <1>3, <1>4, <1>5, <1>6 DEF BreedInv

(* Elites, immigrants, children and the change of generation keep          *)
(* BreedInv.                                                               *)
LEMMA BreedInvNext == BreedInv /\ [BreedNext]_breedVars => BreedInv'
<1> SUFFICES ASSUME BreedInv, [BreedNext]_breedVars PROVE BreedInv'
    OBVIOUS
<1>1. CASE CarryElite
    <2>1. PICK k \in Slot :
             /\ pop[k].genes.niche = Counts[Open]
             /\ next' = Append(next, Individual(pop[k].genes, pop[k].illegal, "elite", {}))
        BY <1>1 DEF CarryElite
    <2> DEFINE child == Individual(pop[k].genes, pop[k].illegal, "elite", {})
    <2>2. pop[k].genes \in Genomes(Counts[k]) /\ pop[k].genes \in AllGenomes /\ pop[k].illegal \in BOOLEAN
        BY DEF BreedInv
    <2>3. child \in ChildSet
        BY <2>2 DEF Individual, ChildSet
    <2>4. Counts[Open] = Counts[k]
        BY <2>1, <2>2, GenomeFields
    <2>5. child.genes = pop[k].genes /\ child.illegal = pop[k].illegal /\ child.origin = "elite"
        BY DEF Individual
    <2>6. RightChild(child, pop)
        BY <2>5 DEF RightChild, BreedInv
    <2> HIDE DEF child
    <2> QED
        BY <1>1, <2>1, <2>2, <2>3, <2>4, <2>5, <2>6, ChildAdded DEF CarryElite, child
<1>2. CASE AddImmigrant
    <2>1. PICK child \in Fresh(Counts[Open]) : next' = Append(next, child)
        BY <1>2 DEF AddImmigrant
    <2>2. child.genes \in AllGenomes
        BY <1>2, FreshFacts DEF AddImmigrant, AllGenomes
    <2>3. child \in ChildSet /\ RightChild(child, pop) /\ child.genes \in Genomes(Counts[Open])
        BY <2>2, FreshFacts DEF ChildSet, RightChild, Individual
    <2> QED
        BY <1>2, <2>1, <2>3, ChildAdded DEF AddImmigrant
<1>3. CASE AddChild
    <2>1. PICK child \in Children(Counts[Open]) : next' = Append(next, child)
        BY <1>3 DEF AddChild
    <2>2. child \in ChildSet /\ RightChild(child, pop) /\ child.genes \in Genomes(Counts[Open])
        BY <1>3, ChildFacts DEF AddChild
    <2> QED
        BY <1>3, <2>1, <2>2, ChildAdded DEF AddChild
<1>4. CASE NextGeneration
    <2>1. /\ pop' = [k \in Slot |-> Member(next[k])]
          /\ next' = <<>>
          /\ gen' = gen + 1
        BY <1>4 DEF NextGeneration
    <2>2. DOMAIN next = Slot /\ next # <<>>
        BY <1>4, SlotsAre DEF NextGeneration, Open, BreedInv
    <2>3. Slot' = Slot /\ AllGenomes' = AllGenomes /\ ChildSet' = ChildSet
        BY DEF Slot, AllGenomes, ChildSet
    <2>4. ASSUME NEW k \in Slot
          PROVE  /\ pop'[k] \in [genes : AllGenomes, illegal : BOOLEAN]
                 /\ pop'[k].genes \in Genomes(Counts[k])
                 /\ pop'[k].illegal <=> pop'[k].genes \in Unplaceable
        <3>1. next[k] \in ChildSet /\ next[k].genes \in Genomes(Counts[k]) /\ RightChild(next[k], pop)
            BY <2>2 DEF BreedInv
        <3>2. pop'[k] = [genes |-> next[k].genes, illegal |-> next[k].illegal]
            BY <2>1 DEF Member
        <3> QED
            BY <3>1, <3>2 DEF ChildSet, RightChild
    <2>5. pop' \in [Slot -> [genes : AllGenomes, illegal : BOOLEAN]]
        BY <2>1, <2>4
    <2>6. next' \in Seq(ChildSet) /\ Len(next') = 0 /\ DOMAIN next' = {}
        BY <2>1
    <2>7. Len(next') <= Len(Counts) /\ gen' \in 0..MaxGenerations
        BY <2>1, <2>2, <2>6, SlotsAre, GenerationsAssumption DEF BreedInv
    <2> QED
        BY <2>1, <2>3, <2>4, <2>5, <2>6, <2>7 DEF BreedInv
<1>5. CASE UNCHANGED breedVars
    BY <1>5 DEF breedVars, BreedInv, Slot, AllGenomes, ChildSet
<1> QED
    BY <1>1, <1>2, <1>3, <1>4, <1>5 DEF BreedNext

(* BreedInv implies the property of the run and the types. *)
LEMMA BreedInvRules == BreedInv => BredByTheRules /\ BreedTypeOK
<1> SUFFICES ASSUME BreedInv PROVE BredByTheRules /\ BreedTypeOK
    OBVIOUS
<1>1. BredInsideFrame
    BY DEF BredInsideFrame, BreedInv, RightChild, InsideFrame
<1>2. BredCutNothing
    BY DEF BredCutNothing, BreedInv, RightChild
<1>3. IllegalIsUnplaceable
    BY DEF IllegalIsUnplaceable, Everyone, BreedInv, RightChild
<1>4. \A k \in DOMAIN next : next[k] \in ChildSet
    BY DEF BreedInv
<1>5. \A i \in Everyone : i.illegal \in BOOLEAN
    BY <1>4 DEF Everyone, BreedInv, ChildSet
<1>6. \A k \in DOMAIN next : next[k].origin \in {"seed", "bred", "elite"}
    BY <1>4 DEF ChildSet
<1> QED
    BY <1>1, <1>2, <1>3, <1>5, <1>6 DEF BredByTheRules, BreedTypeOK, BreedInv

(* Over any number of generations, niches, genes and segments, breeding    *)
(* keeps to its rules: a child mixes parents of its own niche, segment and *)
(* side and moves at most one gene, passes the strict test, and only what  *)
(* cannot be placed is marked illegal.                                     *)
THEOREM BreedingRules == BreedSpec => []BredByTheRules
  BY BreedInvInit, BreedInvNext, BreedInvRules, PTL DEF BreedSpec

(* Every gene stays in its range and every slot keeps its niche, after any *)
(* number of mutations and crossovers.                                     *)
THEOREM BreedingTypes == BreedSpec => []BreedTypeOK
  BY BreedInvInit, BreedInvNext, BreedInvRules, PTL DEF BreedSpec

-----------------------------------------------------------------------------
(***************************************************************************)
(* FunctionChecks: the scores of two layouts side by side.                 *)
(***************************************************************************)

(* The inductive invariant of the runs: the two layouts are measured side  *)
(* by side, in flights of the same length.                                 *)
RunsInv ==
    /\ first \in Seq([d : Distances, t : FlightTimes])
    /\ second \in Seq([d : Distances, t : FlightTimes])
    /\ Len(first) <= MaxRuns
    /\ Len(second) = Len(first)
    /\ \A r \in 1..Len(first) : first[r].t = second[r].t

(* RunsInv holds at the start. *)
LEMMA RunsInvInit == CheckInit => RunsInv
  BY RunsAssumption DEF CheckInit, RunsInv

(* RunsInv is kept: rerun appends a measurement to both. *)
LEMMA RunsInvNext == RunsInv /\ [CheckNext]_checkVars => RunsInv'
<1> SUFFICES ASSUME RunsInv, [CheckNext]_checkVars PROVE RunsInv'
    OBVIOUS
<1>1. CASE UNCHANGED <<first, second>>
    BY <1>1 DEF RunsInv
<1>2. CASE Fly
    <2>1. PICK d \in Distances, e \in Distances, t \in FlightTimes :
             first' = Append(first, [d |-> d, t |-> t]) /\ second' = Append(second, [d |-> e, t |-> t])
        BY <1>2 DEF Fly
    <2>2. Len(first) < MaxRuns
        BY <1>2 DEF Fly
    <2> DEFINE R == [d : Distances, t : FlightTimes]
               x == [d |-> d, t |-> t]
               y == [d |-> e, t |-> t]
    <2>3. x \in R /\ y \in R /\ x.t = y.t
        OBVIOUS
    <2>4. first \in Seq(R) /\ second \in Seq(R) /\ Len(first) \in Nat /\ Len(second) = Len(first)
        BY DEF RunsInv
    <2> HIDE DEF R, x, y
    <2>5. first' = Append(first, x) /\ second' = Append(second, y)
        BY <2>1 DEF x, y
    <2>6. /\ first' \in Seq(R) /\ second' \in Seq(R)
          /\ Len(first') = Len(first) + 1 /\ Len(second') = Len(second) + 1
          /\ \A r \in 1..Len(first) : first'[r] = first[r] /\ second'[r] = second[r]
          /\ first'[Len(first) + 1] = x /\ second'[Len(first) + 1] = y
        BY <2>3, <2>4, <2>5
    <2>7. \A r \in 1..Len(first') : first'[r].t = second'[r].t
        <3> SUFFICES ASSUME NEW r \in 1..Len(first') PROVE first'[r].t = second'[r].t
            OBVIOUS
        <3>1. CASE r = Len(first) + 1
            BY <2>3, <2>6, <3>1
        <3>2. CASE r # Len(first) + 1
            <4>1. r \in 1..Len(first)
                BY <2>4, <2>6, <3>2
            <4> QED
                BY <2>6, <4>1 DEF RunsInv
        <3> QED
            BY <3>1, <3>2
    <2>8. Len(first') <= MaxRuns /\ Len(second') = Len(first')
        BY <2>2, <2>4, <2>6, RunsAssumption
    <2> QED
        BY <2>6, <2>7, <2>8 DEF RunsInv, R
<1> QED
    BY <1>1, <1>2 DEF CheckNext, PlaceEnd, PlaceBox, checkVars

(* Scores over one denominator compare as their points do. *)
LEMMA SameDenominator ==
    ASSUME NEW x \in Int, NEW y \in Int, NEW D \in Nat \ {0}
    PROVE  /\ Below(<<x, D>>, <<y, D>>) <=> x < y
           /\ Below(<<x, D * 4>>, <<y, D * 1>>) <=> x < 4 * y
           /\ Below(<<x, D * 1>>, <<y, D * 1>>) <=> x < y
<1>1. ASSUME NEW p \in Int, NEW q \in Int
      PROVE  p * D < q * D <=> p < q
    <2>1. q * D - p * D = (q - p) * D
        OBVIOUS
    <2>2. q - p > 0 => (q - p) * D > 0
        OBVIOUS
    <2>3. q - p <= 0 => (q - p) * D <= 0
        OBVIOUS
    <2> QED
        BY <2>1, <2>2, <2>3
<1>2. D * 1 = D /\ y * (D * 4) = (4 * y) * D
    OBVIOUS
<1>3. x * D < y * D <=> x < y
    BY <1>1
<1>4. x * D < (4 * y) * D <=> x < 4 * y
    BY <1>1
<1> QED
    BY <1>2, <1>3, <1>4 DEF Below

(* The points of the runs of a layout, and the same with the nudges. *)
TierSum(runs) == SumFunction([r \in DOMAIN runs |-> tierPoints(runs[r].d)])
ShapedSum(runs) == SumFunction([r \in DOMAIN runs |-> shapedPoints(runs[r].d)])

(* y thousandths of a point are x points and a nudge. *)
IsShaped(x, y) ==
    /\ x \in Nat /\ y \in Nat
    /\ 1000 * x <= y /\ y <= 1000 * x + 250
    /\ x > 0 => 1000 * x < y

(* The points of one run, shaped and not. *)
LEMMA PointsShaped ==
    ASSUME NEW d \in Nat
    PROVE  IsShaped(tierPoints(d), shapedPoints(d))
  BY NudgeBounded DEF IsShaped

(* With a quarter of a point and no more for each run, the nudges of n     *)
(* runs add up to less than a point if n < 4, and to no more than one if n *)
(* = 4.                                                                    *)
LEMMA PointsOfRuns ==
    ASSUME NEW runs, NEW n \in Nat, DOMAIN runs = 1..n, \A r \in 1..n : runs[r].d \in Nat
    PROVE  /\ TierSum(runs) \in Nat /\ ShapedSum(runs) \in Nat
           /\ 1000 * TierSum(runs) <= ShapedSum(runs)
           /\ ShapedSum(runs) <= 1000 * TierSum(runs) + 250 * n
           /\ TierSum(runs) > 0 => 1000 * TierSum(runs) < ShapedSum(runs)
<1> DEFINE S == 1..n
           tp == [r \in S |-> tierPoints(runs[r].d)]
           sp == [r \in S |-> shapedPoints(runs[r].d)]
<1>1. IsFiniteSet(S) /\ Cardinality(S) = n
    BY Initial
<1>2. TierSum(runs) = SumFunction(tp) /\ ShapedSum(runs) = SumFunction(sp)
    BY DEF TierSum, ShapedSum
<1>3. ASSUME NEW r \in S PROVE IsShaped(tp[r], sp[r])
    <2>1. IsShaped(tierPoints(runs[r].d), shapedPoints(runs[r].d))
        BY PointsShaped
    <2> QED
        BY <2>1
<1>4. DOMAIN tp = S /\ DOMAIN sp = S
    OBVIOUS
<1> HIDE DEF tp, sp, S
<1>5. Nudged(sp, tp, S)
    BY <1>3 DEF Nudged, IsShaped
<1> QED
    BY <1>1, <1>2, <1>4, <1>5, SumsOfShaped

(* RunsInv implies the property of the run. *)
LEMMA ScoresOrdered == RunsInv => ScoresInOrder
<1> SUFFICES ASSUME RunsInv PROVE ScoresInOrder
    OBVIOUS
<1> DEFINE n == Len(first)
           S == 1..n
           T == SumOfTimes(first)
           D == NicheSize * NicheSize * T
           A1 == TierSum(first)
           A2 == TierSum(second)
           B1 == ShapedSum(first)
           B2 == ShapedSum(second)
<1>1. /\ n \in Nat /\ n <= MaxRuns /\ n <= 4
      /\ DOMAIN first = S /\ DOMAIN second = S
    BY RunsAssumption DEF RunsInv
<1>2. IsFiniteSet(S) /\ Cardinality(S) = n
    BY <1>1, Initial
<1>3. \A r \in S : /\ first[r].d \in Distances /\ second[r].d \in Distances
                   /\ first[r].d \in Nat /\ second[r].d \in Nat
                   /\ first[r].t \in Nat \ {0} /\ first[r].t = second[r].t
    <2>1. \A r \in S : first[r] \in [d : Distances, t : FlightTimes] /\ second[r] \in [d : Distances, t : FlightTimes]
        <3> DEFINE R == [d : Distances, t : FlightTimes]
        <3>1. first \in Seq(R) /\ second \in Seq(R) /\ Len(second) = Len(first)
            BY DEF RunsInv
        <3> HIDE DEF R
        <3>2. \A r \in S : first[r] \in R /\ second[r] \in R
            BY <3>1
        <3> QED
            BY <3>2 DEF R
    <2> QED
        BY <2>1, DistancesAssumption, TimesAssumption DEF RunsInv
<1>4. /\ A1 \in Nat /\ B1 \in Nat /\ 1000 * A1 <= B1 /\ B1 <= 1000 * A1 + 250 * n
      /\ A1 > 0 => 1000 * A1 < B1
    <2>1. \A r \in 1..n : first[r].d \in Nat
        BY <1>3
    <2> HIDE DEF n
    <2> QED
        BY <1>1, <2>1, PointsOfRuns
<1>5. /\ A2 \in Nat /\ B2 \in Nat /\ 1000 * A2 <= B2 /\ B2 <= 1000 * A2 + 250 * n
      /\ A2 > 0 => 1000 * A2 < B2
    <2>1. \A r \in 1..n : second[r].d \in Nat
        BY <1>3
    <2> HIDE DEF n
    <2> QED
        BY <1>1, <2>1, PointsOfRuns
<1>6. CASE n = 0
    <2>1. first = <<>> /\ second = <<>>
        BY <1>6 DEF RunsInv
    <2>2. official(first) = <<0, 1>> /\ official(second) = <<0, 1>>
        BY <2>1 DEF official, officialTestScore, scoreFromPoints
    <2>3. ~Below(<<0, 1>>, <<0, 1>>)
        BY DEF Below
    <2>4. DOMAIN first = {}
        BY <2>1
    <2>5. TiersComeFirst
        BY <2>2, <2>3 DEF TiersComeFirst
    <2>6. CloserScoresHigher
        BY <2>4 DEF CloserScoresHigher
    <2>7. StuckYields
        <3>1. ~(official(first)[1] > 0)
            BY <2>2
        <3> QED
            BY <3>1 DEF StuckYields
    <2> QED
        BY <2>5, <2>6, <2>7 DEF ScoresInOrder
<1>7. CASE n > 0
    <2>1. first # <<>> /\ second # <<>>
        BY <1>1, <1>7
    <2>2. T \in Nat /\ T > 0
        <3> DEFINE f == [r \in S |-> first[r].t]
        <3>1. T = SumFunction(f)
            BY <1>1 DEF SumOfTimes
        <3>2. DOMAIN f = S /\ \A r \in DOMAIN f : f[r] \in Nat /\ f[r] # 0
            BY <1>3
        <3>3. 1 \in S
            BY <1>1, <1>7
        <3> HIDE DEF f, S
        <3>4. SumFunction(f) \in Nat /\ SumFunction(f) # 0
            BY <1>2, <3>2, <3>3, SumOfNaturals
        <3> QED
            BY <3>1, <3>4
    <2>3. SumOfTimes(second) = T
        <3>1. [r \in DOMAIN first |-> first[r].t] = [r \in DOMAIN second |-> second[r].t]
            BY <1>1, <1>3
        <3> QED
            BY <3>1 DEF SumOfTimes
    <2>4. D \in Nat \ {0}
        <3> DEFINE m == NicheSize * NicheSize
        <3>1. m \in Nat /\ m > 0
            BY NicheAssumption
        <3> HIDE DEF m, T
        <3>2. m * T \in Nat /\ m * T > 0
            BY <2>2, <3>1
        <3> QED
            BY <3>2 DEF m
    <2> DEFINE a1 == 1000 * A1
               a2 == 1000 * A2
    <2>5. official(first) = <<a1, D>> /\ official(second) = <<a2, D>>
        BY <2>1, <2>3 DEF official, officialTestScore, scoreFromPoints, TierSum
    <2>6. /\ searchTestScore(first, NicheSize, FALSE) = <<B1, D * 1>>
          /\ searchTestScore(first, NicheSize, TRUE) = <<B1, D * 4>>
          /\ searchTestScore(second, NicheSize, FALSE) = <<B2, D * 1>>
        BY <2>1, <2>3 DEF searchTestScore, scoreFromPoints, ShapedSum
    <2>8. (Below(<<a1, D>>, <<a2, D>>) <=> a1 < a2) /\ (Below(<<a2, D>>, <<a1, D>>) <=> a2 < a1)
          /\ (Below(<<B1, D * 1>>, <<B2, D * 1>>) <=> B1 < B2) /\ (Below(<<B1, D * 4>>, <<B2, D * 1>>) <=> B1 < 4 * B2)
        <3> HIDE DEF A1, A2, B1, B2, D
        <3>1. a1 \in Int /\ a2 \in Int /\ B1 \in Int /\ B2 \in Int
            BY <1>4, <1>5
        <3> HIDE DEF a1, a2
        <3> QED
            BY <2>4, <3>1, SameDenominator
    <2>7. CloserScoresHigher
        <3> SUFFICES ASSUME \A r \in S : second[r].d <= first[r].d,
                            NEW q \in S, second[q].d < first[q].d
                     PROVE  B1 < B2
            <4>1. B1 < B2 => Below(searchTestScore(first, NicheSize, FALSE), searchTestScore(second, NicheSize, FALSE))
                <5>1. Below(<<B1, D * 1>>, <<B2, D * 1>>) <=> B1 < B2
                    <6> HIDE DEF B1, B2, D, a1, a2
                    <6> QED
                        BY <2>8
                <5>2. /\ searchTestScore(first, NicheSize, FALSE) = <<B1, D * 1>>
                      /\ searchTestScore(second, NicheSize, FALSE) = <<B2, D * 1>>
                    BY <2>6
                <5> HIDE DEF B1, B2, D
                <5> QED
                    BY <5>1, <5>2
            <4>2. DOMAIN first = S
                BY <1>1
            <4> HIDE DEF S, B1, B2, D
            <4> QED
                BY <4>1, <4>2 DEF CloserScoresHigher
        <3> DEFINE sp1 == [r \in S |-> shapedPoints(first[r].d)]
                   sp2 == [r \in S |-> shapedPoints(second[r].d)]
        <3>1. ASSUME NEW r \in S, second[r].d < first[r].d
              PROVE  shapedPoints(first[r].d) < shapedPoints(second[r].d)
            <4> DEFINE d == second[r].d
                       e == first[r].d
            <4>1. d \in Nat /\ e \in Nat /\ d \in Distances /\ e \in Distances /\ d < e
                BY <1>3, <3>1
            <4> HIDE DEF d, e
            <4>2. /\ 150 <= d => Halvings(d) < Halvings(e)
                  /\ 150 <= e => Halvings(e) <= 8
                <5>1. TIER_BOUNDS[3] = 150
                    BY DEF TIER_BOUNDS
                <5> QED
                    BY <4>1, <5>1, ResolutionAssumption
            <4> QED
                BY <4>1, <4>2, PointsFall DEF d, e
        <3>2. ASSUME NEW r \in S PROVE sp1[r] \in Int /\ sp2[r] \in Int
            <4> DEFINE d == second[r].d
                       e == first[r].d
            <4>1. d \in Nat /\ e \in Nat
                BY <1>3
            <4> HIDE DEF d, e
            <4>2. shapedPoints(d) \in Nat /\ shapedPoints(e) \in Nat
                BY <4>1, PointsType
            <4> QED
                BY <4>2 DEF d, e
        <3>3. ASSUME NEW r \in S PROVE sp1[r] <= sp2[r]
            <4>1. CASE second[r].d < first[r].d
                BY <3>1, <3>2, <4>1
            <4>2. CASE second[r].d = first[r].d
                BY <3>2, <4>2
            <4> QED
                BY <1>3, <4>1, <4>2
        <3>4. sp1[q] < sp2[q]
            BY <3>1
        <3>5. DOMAIN sp1 = S /\ DOMAIN sp2 = S
            OBVIOUS
        <3>6. B1 = SumFunction(sp1) /\ B2 = SumFunction(sp2)
            BY <1>1 DEF ShapedSum
        <3> HIDE DEF sp1, sp2, S, B1, B2
        <3> QED
            BY <1>2, <3>2, <3>3, <3>4, <3>5, <3>6, SumsCompare
    <2> HIDE DEF n, S, T, D, A1, A2, B1, B2
    <2>9. TiersComeFirst
        <3> SUFFICES ASSUME a1 < a2 PROVE B1 < B2
            <4> HIDE DEF a1, a2
            <4> QED
                BY <2>5, <2>6, <2>8 DEF TiersComeFirst
        <3>1. A1 + 1 <= A2
            BY <1>4, <1>5
        <3>2. 1000 * A2 < B2
            BY <1>4, <1>5, <3>1
        <3> QED
            BY <1>1, <1>4, <1>5, <3>1, <3>2
    <2>10. StuckYields
        <3> SUFFICES ASSUME a1 > 0, ~(a1 < a2), ~(a2 < a1) PROVE B1 < 4 * B2
            <4> HIDE DEF a1, a2
            <4>1. official(first)[1] = a1
                BY <2>5
            <4> QED
                BY <2>5, <2>6, <2>8, <4>1 DEF StuckYields
        <3>1. A1 = A2 /\ A1 >= 1
            BY <1>4, <1>5
        <3> QED
            BY <1>1, <1>4, <1>5, <3>1
    <2> QED
        BY <2>7, <2>9, <2>10 DEF ScoresInOrder
<1> QED
    BY <1>1, <1>6, <1>7

(* For every niche size and every measured distance and flight time, the   *)
(* search score orders layouts as the official score does, breaks its ties *)
(* by the distance, and puts a stuck layout below a completing one.        *)
THEOREM FunctionScores == CheckSpec => []ScoresInOrder
  BY RunsInvInit, RunsInvNext, ScoresOrdered, PTL DEF CheckSpec

-----------------------------------------------------------------------------
(***************************************************************************)
(* FunctionChecks: segments and boxes against what they stand for.         *)
(***************************************************************************)

(* A quarter turn to the right. *)
Right(v) == <<v[2], -v[1]>>

(* Boxes whose axis has the length of an axis. *)
UnitBox == {o \in Box : Dot(o.u, o.u) = 625}

(* The outward normal of the i-th edge, and half the sizes of the box in   *)
(* its direction and along the edge.                                       *)
Normal(o, i) == CASE i = 1 -> o.u [] i = 2 -> Right(o.u) [] i = 3 -> Times(-1, o.u) [] i = 4 -> Left(o.u)
Depth(o, i) == IF i % 2 = 1 THEN o.l ELSE o.w
Breadth(o, i) == IF i % 2 = 1 THEN o.w ELSE o.l

(* The i-th edge. *)
EdgeAt(o, i) ==
    [a |-> boxCorners(o)[i], b |-> boxCorners(o)[1 + (i % 4)], length |-> Scale * Breadth(o, i)]

(* A vector measured along a normal and along its edge. *)
LEMMA TurnedVector ==
    ASSUME NEW n \in Point, Dot(n, n) = 625, NEW x \in Point
    PROVE  /\ Dot(x, n) \in Int /\ Dot(x, Right(n)) \in Int /\ Right(n) \in Point
           /\ 625 * Dot(x, x) = Dot(x, n) * Dot(x, n) + Dot(x, Right(n)) * Dot(x, Right(n))
<1> DEFINE n1 == n[1]
           n2 == n[2]
           x1 == x[1]
           x2 == x[2]
<1>1. n1 \in Int /\ n2 \in Int /\ x1 \in Int /\ x2 \in Int /\ -n1 \in Int
    BY DEF Point
<1>2. /\ Dot(x, n) = x1 * n1 + x2 * n2 /\ Dot(x, x) = x1 * x1 + x2 * x2
      /\ Dot(n, n) = n1 * n1 + n2 * n2 /\ Dot(x, Right(n)) = x1 * n2 + x2 * (-n1)
      /\ Right(n) = <<n2, -n1>>
    BY DEF Dot, Right
<1> HIDE DEF n1, n2, x1, x2
<1>3. (n1 * n1 + n2 * n2) * (x1 * x1 + x2 * x2)
        = (x1 * n1 + x2 * n2) * (x1 * n1 + x2 * n2) + (x1 * n2 + x2 * (-n1)) * (x1 * n2 + x2 * (-n1))
    BY <1>1
<1>4. n1 * n1 + n2 * n2 = 625
    BY <1>2
<1>5. x1 * n1 + x2 * n2 \in Int /\ x1 * n2 + x2 * (-n1) \in Int
    BY <1>1
<1>6. <<n2, -n1>> \in Point
    BY <1>1 DEF Point
<1> QED
    BY <1>2, <1>3, <1>4, <1>5, <1>6

(* The normals of a box, and its edges around the centre. *)
LEMMA EdgeForm ==
    ASSUME NEW o \in UnitBox, NEW i \in 1..4
    PROVE  /\ Normal(o, i) \in Point /\ Dot(Normal(o, i), Normal(o, i)) = 625
           /\ Depth(o, i) \in Nat \ {0} /\ Breadth(o, i) \in Nat \ {0} /\ o.centre \in Point
           /\ EdgeAt(o, i) \in Edges(o)
           /\ EdgeAt(o, i).a \in Point /\ EdgeAt(o, i).b \in Point
           /\ \A z \in 1..2 : EdgeAt(o, i).a[z]
                 = o.centre[z] + Depth(o, i) * Normal(o, i)[z] - Breadth(o, i) * Right(Normal(o, i))[z]
           /\ \A z \in 1..2 : EdgeAt(o, i).b[z]
                 = o.centre[z] + Depth(o, i) * Normal(o, i)[z] + Breadth(o, i) * Right(Normal(o, i))[z]
<1> DEFINE l == o.l
           w == o.w
           u1 == o.u[1]
           u2 == o.u[2]
           c1 == o.centre[1]
           c2 == o.centre[2]
<1>1. /\ l \in Nat \ {0} /\ w \in Nat \ {0} /\ u1 \in Int /\ u2 \in Int /\ c1 \in Int /\ c2 \in Int
      /\ o.u \in Point /\ o.centre \in Point
    BY DEF UnitBox, Box, Point
<1>2. u1 * u1 + u2 * u2 = 625
    BY DEF UnitBox, Dot
<1>3. boxCorners(o) = <<<<c1 + l * u1 + w * (-u2), c2 + l * u2 + w * u1>>,
                        <<(c1 + l * u1) - w * (-u2), (c2 + l * u2) - w * u1>>,
                        <<c1 - l * u1 - w * (-u2), c2 - l * u2 - w * u1>>,
                        <<c1 - l * u1 + w * (-u2), c2 - l * u2 + w * u1>>>>
    <2> DEFINE A == Times(l, boxAxes(o)[1])
               C == Times(w, boxAxes(o)[2])
    <2>1. A[1] = l * u1 /\ A[2] = l * u2 /\ C[1] = w * (-u2) /\ C[2] = w * u1
        BY DEF boxAxes, Times
    <2>2. boxCorners(o) = <<Plus(Plus(o.centre, A), C), Minus(Plus(o.centre, A), C),
                            Minus(Minus(o.centre, A), C), Plus(Minus(o.centre, A), C)>>
        BY DEF boxCorners
    <2> HIDE DEF A, C
    <2>3. Plus(Plus(o.centre, A), C) = <<c1 + l * u1 + w * (-u2), c2 + l * u2 + w * u1>>
        BY <2>1 DEF Plus
    <2>4. Minus(Plus(o.centre, A), C) = <<(c1 + l * u1) - w * (-u2), (c2 + l * u2) - w * u1>>
        BY <2>1 DEF Plus, Minus
    <2>5. Minus(Minus(o.centre, A), C) = <<c1 - l * u1 - w * (-u2), c2 - l * u2 - w * u1>>
        BY <2>1 DEF Minus
    <2>6. Plus(Minus(o.centre, A), C) = <<c1 - l * u1 + w * (-u2), c2 - l * u2 + w * u1>>
        BY <2>1 DEF Plus, Minus
    <2> QED
        BY <2>2, <2>3, <2>4, <2>5, <2>6
<1>4. EdgeAt(o, i) \in Edges(o)
    BY DEF EdgeAt, Edges, Breadth
<1>5. o.u = <<u1, u2>>
    BY <1>1 DEF Point
<1>6. o.centre[1] = c1 /\ o.centre[2] = c2
    OBVIOUS
<1> DEFINE B == boxCorners(o)
<1>7. Depth(o, i) = (IF i % 2 = 1 THEN l ELSE w) /\ Breadth(o, i) = (IF i % 2 = 1 THEN w ELSE l)
    BY DEF Depth, Breadth
<1>8. EdgeAt(o, i).a = B[i] /\ EdgeAt(o, i).b = B[1 + (i % 4)]
    BY DEF EdgeAt
<1>9. /\ i = 1 => Normal(o, i) = <<u1, u2>>
      /\ i = 2 => Normal(o, i) = <<u2, -u1>>
      /\ i = 3 => Normal(o, i) = <<(-1) * u1, (-1) * u2>>
      /\ i = 4 => Normal(o, i) = <<-u2, u1>>
    <2>1. CASE i = 1
        BY <1>5, <2>1 DEF Normal
    <2>2. CASE i = 2
        BY <1>5, <2>2 DEF Normal, Right
    <2>3. CASE i = 3
        <3>1. Normal(o, i) = Times(-1, o.u)
            BY <2>3 DEF Normal
        <3>2. Times(-1, o.u) = <<(-1) * u1, (-1) * u2>>
            BY DEF Times
        <3> QED
            BY <2>3, <3>1, <3>2
    <2>4. CASE i = 4
        BY <1>5, <2>4 DEF Normal, Left
    <2> QED
        BY <2>1, <2>2, <2>3, <2>4
<1> HIDE DEF l, w, u1, u2, c1, c2, B
<1>10. /\ B[1] = <<c1 + l * u1 + w * (-u2), c2 + l * u2 + w * u1>>
       /\ B[2] = <<(c1 + l * u1) - w * (-u2), (c2 + l * u2) - w * u1>>
       /\ B[3] = <<c1 - l * u1 - w * (-u2), c2 - l * u2 - w * u1>>
       /\ B[4] = <<c1 - l * u1 + w * (-u2), c2 - l * u2 + w * u1>>
    BY <1>3 DEF B
<1> DEFINE Form(n, h, g, a, b) ==
              /\ n \in Point /\ Dot(n, n) = 625 /\ h \in Nat \ {0} /\ g \in Nat \ {0}
              /\ a \in Point /\ b \in Point
              /\ a[1] = c1 + h * n[1] - g * Right(n)[1] /\ a[2] = c2 + h * n[2] - g * Right(n)[2]
              /\ b[1] = c1 + h * n[1] + g * Right(n)[1] /\ b[2] = c2 + h * n[2] + g * Right(n)[2]
<1>11. ASSUME NEW n1 \in Int, NEW n2 \in Int, n1 * n1 + n2 * n2 = 625, NEW h \in Nat \ {0}, NEW g \in Nat \ {0},
              NEW a, NEW b, NEW a1 \in Int, NEW a2 \in Int, NEW b1 \in Int, NEW b2 \in Int, a = <<a1, a2>>, b = <<b1, b2>>,
              a1 = c1 + h * n1 - g * n2, a2 = c2 + h * n2 - g * (-n1),
              b1 = c1 + h * n1 + g * n2, b2 = c2 + h * n2 + g * (-n1)
       PROVE  Form(<<n1, n2>>, h, g, a, b)
    BY <1>11 DEF Point, Dot, Right
<1> HIDE DEF Form
<1>12. /\ Form(<<u1, u2>>, l, w, B[1], B[2])
       /\ Form(<<u2, -u1>>, w, l, B[2], B[3])
       /\ Form(<<(-1) * u1, (-1) * u2>>, l, w, B[3], B[4])
       /\ Form(<<-u2, u1>>, w, l, B[4], B[1])
    <2> DEFINE x1 == l * u1
               x2 == l * u2
               y1 == w * u1
               y2 == w * u2
    <2>1. x1 \in Int /\ x2 \in Int /\ y1 \in Int /\ y2 \in Int
        BY <1>1
    <2>2. /\ w * (-u2) = -y2 /\ w * (-u1) = -y1 /\ l * (-u2) = -x2 /\ l * (-u1) = -x1
        BY <1>1
    <2>3. /\ (-1) * u1 = -u1 /\ (-1) * u2 = -u2 /\ -(-u1) = u1 /\ -(-u2) = u2
          /\ -u1 \in Int /\ -u2 \in Int
        BY <1>1
    <2>4. (-u1) * (-u1) = u1 * u1 /\ (-u2) * (-u2) = u2 * u2 /\ u1 * u1 \in Int /\ u2 * u2 \in Int
        BY <1>1
    <2> HIDE DEF x1, x2, y1, y2
    <2>5. /\ B[1] = <<c1 + x1 - y2, c2 + x2 + y1>>
          /\ B[2] = <<c1 + x1 + y2, c2 + x2 - y1>>
          /\ B[3] = <<c1 - x1 + y2, c2 - x2 - y1>>
          /\ B[4] = <<c1 - x1 - y2, c2 - x2 + y1>>
        <3>1. w * (-u2) = -y2 /\ l * u1 = x1 /\ l * u2 = x2 /\ w * u1 = y1
            BY <2>2 DEF x1, x2, y1
        <3>2. /\ c1 + x1 + -y2 = c1 + x1 - y2 /\ (c1 + x1) - (-y2) = c1 + x1 + y2 /\ (c2 + x2) - y1 = c2 + x2 - y1
              /\ c1 - x1 - (-y2) = c1 - x1 + y2 /\ c1 - x1 + (-y2) = c1 - x1 - y2
            BY <1>1, <2>1
        <3> QED
            BY <1>10, <3>1, <3>2
    <2> DEFINE p1 == c1 + x1 - y2
               p2 == c2 + x2 + y1
               q1 == c1 + x1 + y2
               q2 == c2 + x2 - y1
               r1 == c1 - x1 + y2
               r2 == c2 - x2 - y1
               s1 == c1 - x1 - y2
               s2 == c2 - x2 + y1
    <2>6. /\ p1 \in Int /\ p2 \in Int /\ q1 \in Int /\ q2 \in Int
          /\ r1 \in Int /\ r2 \in Int /\ s1 \in Int /\ s2 \in Int
        BY <1>1, <2>1
    <2>7. B[1] = <<p1, p2>> /\ B[2] = <<q1, q2>> /\ B[3] = <<r1, r2>> /\ B[4] = <<s1, s2>>
        BY <2>5
    <2>8. Form(<<u1, u2>>, l, w, B[1], B[2])
        <3>1. /\ p1 = c1 + l * u1 - w * u2 /\ p2 = c2 + l * u2 - w * (-u1)
              /\ q1 = c1 + l * u1 + w * u2 /\ q2 = c2 + l * u2 + w * (-u1)
            BY <1>1, <2>1, <2>2 DEF x1, x2, y1, y2
        <3> HIDE DEF p1, p2, q1, q2, r1, r2, s1, s2
        <3> QED
            BY <1>1, <1>2, <1>11, <2>6, <2>7, <3>1
    <2>9. Form(<<u2, -u1>>, w, l, B[2], B[3])
        <3>1. /\ q1 = c1 + w * u2 - l * (-u1) /\ q2 = c2 + w * (-u1) - l * (-u2)
              /\ r1 = c1 + w * u2 + l * (-u1) /\ r2 = c2 + w * (-u1) + l * (-u2)
            BY <1>1, <2>1, <2>2 DEF x1, x2, y1, y2
        <3>2. u2 * u2 + (-u1) * (-u1) = 625
            BY <1>2, <2>4
        <3> HIDE DEF p1, p2, q1, q2, r1, r2, s1, s2
        <3> QED
            BY <1>1, <1>11, <2>3, <2>6, <2>7, <3>1, <3>2
    <2>10. Form(<<(-1) * u1, (-1) * u2>>, l, w, B[3], B[4])
        <3>1. /\ r1 = c1 + l * (-u1) - w * (-u2) /\ r2 = c2 + l * (-u2) - w * u1
              /\ s1 = c1 + l * (-u1) + w * (-u2) /\ s2 = c2 + l * (-u2) + w * u1
            BY <1>1, <2>1, <2>2 DEF x1, x2, y1, y2
        <3>2. (-u1) * (-u1) + (-u2) * (-u2) = 625
            BY <1>2, <2>4
        <3> HIDE DEF p1, p2, q1, q2, r1, r2, s1, s2
        <3>3. Form(<<-u1, -u2>>, l, w, B[3], B[4])
            BY <1>1, <1>11, <2>3, <2>6, <2>7, <3>1, <3>2
        <3> QED
            BY <2>3, <3>3
    <2>11. Form(<<-u2, u1>>, w, l, B[4], B[1])
        <3>1. /\ s1 = c1 + w * (-u2) - l * u1 /\ s2 = c2 + w * u1 - l * (-(-u2))
              /\ p1 = c1 + w * (-u2) + l * u1 /\ p2 = c2 + w * u1 + l * (-(-u2))
            BY <1>1, <2>1, <2>2 DEF x1, x2, y1, y2
        <3>2. (-u2) * (-u2) + u1 * u1 = 625
            BY <1>2, <2>4
        <3> HIDE DEF p1, p2, q1, q2, r1, r2, s1, s2
        <3> QED
            BY <1>1, <1>11, <2>3, <2>6, <2>7, <3>1, <3>2
    <2> QED
        BY <2>8, <2>9, <2>10, <2>11
<1>13. Form(Normal(o, i), Depth(o, i), Breadth(o, i), EdgeAt(o, i).a, EdgeAt(o, i).b)
    <2>1. i \in {1, 2, 3, 4}
        OBVIOUS
    <2>2. CASE i = 1
        BY <1>7, <1>8, <1>9, <1>12, <2>2
    <2>3. CASE i = 2
        BY <1>7, <1>8, <1>9, <1>12, <2>3
    <2>4. CASE i = 3
        BY <1>7, <1>8, <1>9, <1>12, <2>4
    <2>5. CASE i = 4
        BY <1>7, <1>8, <1>9, <1>12, <2>5
    <2> QED
        BY <2>1, <2>2, <2>3, <2>4, <2>5
<1> QED
    BY <1>1, <1>4, <1>6, <1>13 DEF Form

(* A point against the normal of an edge and against the edge. *)
OnNormal(o, i, p) == Dot(Minus(p, o.centre), Normal(o, i))
OnEdge(o, i, p) == Dot(Minus(p, o.centre), Right(Normal(o, i)))

(* A vector from an end of an edge, in numbers. *)
LEMMA EdgeVector ==
    ASSUME NEW n1 \in Int, NEW n2 \in Int, n1 * n1 + n2 * n2 = 625,
           NEW z1 \in Int, NEW z2 \in Int, NEW h \in Int, NEW g \in Int
    PROVE  /\ (z1 - (h * n1 - g * n2)) * n1 + (z2 - (h * n2 - g * (-n1))) * n2 = (z1 * n1 + z2 * n2) - 625 * h
           /\ (z1 - (h * n1 - g * n2)) * n2 + (z2 - (h * n2 - g * (-n1))) * (-n1) = (z1 * n2 + z2 * (-n1)) + 625 * g
<1>1. (z1 - (h * n1 - g * n2)) * n1 + (z2 - (h * n2 - g * (-n1))) * n2
        = (z1 * n1 + z2 * n2) - (n1 * n1 + n2 * n2) * h
    OBVIOUS
<1>2. (z1 - (h * n1 - g * n2)) * n2 + (z2 - (h * n2 - g * (-n1))) * (-n1)
        = (z1 * n2 + z2 * (-n1)) + (n1 * n1 + n2 * n2) * g
    OBVIOUS
<1> QED
    BY <1>1, <1>2

(* Where a point is, seen from the ends of an edge: t beyond the edge and  *)
(* s along it from the middle.                                             *)
LEMMA EdgeMeasures ==
    ASSUME NEW o \in UnitBox, NEW i \in 1..4, NEW p \in Point, NEW e, e = EdgeAt(o, i),
           NEW t, t = OnNormal(o, i, p) - 625 * Depth(o, i), NEW s, s = OnEdge(o, i, p),
           NEW g, g = Breadth(o, i)
    PROVE  /\ t \in Int /\ s \in Int /\ OnNormal(o, i, p) \in Int
           /\ e.a \in Point /\ e.b \in Point /\ e.length = 50 * g /\ g \in Nat \ {0}
           /\ cross(e.a, e.b, p) = 2 * g * t
           /\ Dot(Minus(p, e.a), Minus(e.b, e.a)) = 2 * g * (s + 625 * g)
           /\ 625 * Dot(Minus(p, e.a), Minus(p, e.a)) = t * t + (s + 625 * g) * (s + 625 * g)
           /\ 625 * Dot(Minus(p, e.b), Minus(p, e.b)) = t * t + (s - 625 * g) * (s - 625 * g)
<1> DEFINE n == Normal(o, i)
           n1 == n[1]
           n2 == n[2]
           z1 == p[1] - o.centre[1]
           z2 == p[2] - o.centre[2]
           h == Depth(o, i)
<1>1. /\ n \in Point /\ Dot(n, n) = 625 /\ h \in Nat \ {0} /\ g \in Nat \ {0} /\ o.centre \in Point
      /\ e.a \in Point /\ e.b \in Point
      /\ e.a[1] = o.centre[1] + h * n[1] - g * Right(n)[1] /\ e.a[2] = o.centre[2] + h * n[2] - g * Right(n)[2]
      /\ e.b[1] = o.centre[1] + h * n[1] + g * Right(n)[1] /\ e.b[2] = o.centre[2] + h * n[2] + g * Right(n)[2]
    BY EdgeForm
<1>2. e.length = 50 * g
    BY DEF EdgeAt, Scale
<1>3. OnNormal(o, i, p) = Dot(Minus(p, o.centre), n) /\ OnEdge(o, i, p) = Dot(Minus(p, o.centre), Right(n))
    BY DEF OnNormal, OnEdge
<1> HIDE DEF n, h
<1>4. n1 \in Int /\ n2 \in Int /\ z1 \in Int /\ z2 \in Int /\ n1 * n1 + n2 * n2 = 625 /\ -n1 \in Int
    BY <1>1 DEF Point, Dot
<1>5. Right(n) = <<n2, -n1>>
    BY DEF Right
<1>6. t = (z1 * n1 + z2 * n2) - 625 * h /\ s = z1 * n2 + z2 * (-n1)
    <2>1. Minus(p, o.centre) = <<z1, z2>>
        BY DEF Minus
    <2>2. Dot(Minus(p, o.centre), n) = z1 * n1 + z2 * n2
        BY <2>1 DEF Dot
    <2>3. Dot(Minus(p, o.centre), Right(n)) = z1 * n2 + z2 * (-n1)
        BY <1>5, <2>1 DEF Dot
    <2> QED
        BY <1>3, <2>2, <2>3 DEF h
<1>7. /\ p[1] - e.a[1] = z1 - (h * n1 - g * n2) /\ p[2] - e.a[2] = z2 - (h * n2 - g * (-n1))
      /\ p[1] - e.b[1] = z1 - (h * n1 - (-g) * n2) /\ p[2] - e.b[2] = z2 - (h * n2 - (-g) * (-n1))
      /\ e.b[1] - e.a[1] = 2 * g * n2 /\ e.b[2] - e.a[2] = 2 * g * (-n1)
    <2>1. /\ o.centre[1] \in Int /\ o.centre[2] \in Int /\ p[1] \in Int /\ p[2] \in Int
        BY <1>1 DEF Point
    <2> DEFINE c1 == o.centre[1]
               c2 == o.centre[2]
    <2>2. /\ e.a[1] = c1 + h * n1 - g * n2 /\ e.a[2] = c2 + h * n2 - g * (-n1)
          /\ e.b[1] = c1 + h * n1 + g * n2 /\ e.b[2] = c2 + h * n2 + g * (-n1)
        BY <1>1, <1>5
    <2>3. z1 = p[1] - c1 /\ z2 = p[2] - c2
        OBVIOUS
    <2>4. /\ (-g) * n2 = -(g * n2) /\ (-g) * (-n1) = -(g * (-n1))
          /\ h * n1 \in Int /\ h * n2 \in Int /\ g * n2 \in Int /\ g * (-n1) \in Int
          /\ 2 * g * n2 = 2 * (g * n2) /\ 2 * g * (-n1) = 2 * (g * (-n1))
        <3> DEFINE m1 == -n1
        <3>1. /\ h \in Int /\ g \in Int /\ n1 \in Int /\ n2 \in Int /\ m1 \in Int
            BY <1>1, <1>4
        <3> HIDE DEF n1, n2, m1
        <3>2. (-g) * n2 = -(g * n2) /\ (-g) * m1 = -(g * m1)
            BY <3>1
        <3>3. h * n1 \in Int /\ h * n2 \in Int /\ g * n2 \in Int /\ g * m1 \in Int
            BY <3>1
        <3>4. 2 * g * n2 = 2 * (g * n2) /\ 2 * g * m1 = 2 * (g * m1)
            BY <3>1
        <3> QED
            BY <3>2, <3>3, <3>4 DEF m1
    <2> HIDE DEF z1, z2, n1, n2, c1, c2
    <2> DEFINE hn1 == h * n1
               hn2 == h * n2
               gn1 == g * (-n1)
               gn2 == g * n2
    <2> HIDE DEF hn1, hn2, gn1, gn2
    <2>5. hn1 \in Int /\ hn2 \in Int /\ gn1 \in Int /\ gn2 \in Int /\ c1 \in Int /\ c2 \in Int
        BY <2>1, <2>4 DEF hn1, hn2, gn1, gn2, c1, c2
    <2>6. /\ e.a[1] = c1 + hn1 - gn2 /\ e.a[2] = c2 + hn2 - gn1
          /\ e.b[1] = c1 + hn1 + gn2 /\ e.b[2] = c2 + hn2 + gn1
        BY <2>2 DEF hn1, hn2, gn1, gn2
    <2>7. /\ p[1] - e.a[1] = z1 - (hn1 - gn2) /\ p[2] - e.a[2] = z2 - (hn2 - gn1)
          /\ p[1] - e.b[1] = z1 - (hn1 - (-gn2)) /\ p[2] - e.b[2] = z2 - (hn2 - (-gn1))
          /\ e.b[1] - e.a[1] = 2 * gn2 /\ e.b[2] - e.a[2] = 2 * gn1
        BY <2>1, <2>3, <2>5, <2>6
    <2> QED
        BY <2>4, <2>7 DEF hn1, hn2, gn1, gn2
<1> DEFINE a1 == p[1] - e.a[1]
           a2 == p[2] - e.a[2]
           b1 == p[1] - e.b[1]
           b2 == p[2] - e.b[2]
<1>10. ASSUME NEW m \in Int, NEW x1, NEW x2, x1 = z1 - (h * n1 - m * n2), x2 = z2 - (h * n2 - m * (-n1))
       PROVE  x1 * n1 + x2 * n2 = t /\ x1 * n2 + x2 * (-n1) = s + 625 * m
    <2> HIDE DEF n1, n2, z1, z2
    <2>1. h \in Int
        BY <1>1
    <2> QED
        BY <1>4, <1>6, <1>10, <2>1, EdgeVector
<1> HIDE DEF a1, a2, b1, b2
<1>8. a1 * n1 + a2 * n2 = t /\ a1 * n2 + a2 * (-n1) = s + 625 * g
    <2>1. a1 = z1 - (h * n1 - g * n2) /\ a2 = z2 - (h * n2 - g * (-n1)) /\ g \in Int
        BY <1>1, <1>7 DEF a1, a2
    <2> HIDE DEF n1, n2, z1, z2
    <2> QED
        BY <1>10, <2>1
<1>9. b1 * n1 + b2 * n2 = t /\ b1 * n2 + b2 * (-n1) = s - 625 * g
    <2> DEFINE m == -g
    <2>1. b1 = z1 - (h * n1 - m * n2) /\ b2 = z2 - (h * n2 - m * (-n1)) /\ m \in Int
        BY <1>1, <1>7 DEF b1, b2
    <2> HIDE DEF n1, n2, z1, z2, m
    <2>2. b1 * n1 + b2 * n2 = t /\ b1 * n2 + b2 * (-n1) = s + 625 * m
        BY <1>10, <2>1
    <2>3. s \in Int
        BY <1>4, <1>6, ProductSign
    <2>4. s + 625 * m = s - 625 * g
        BY <1>1, <2>3 DEF m
    <2> QED
        BY <2>2, <2>4
<1>11. a1 \in Int /\ a2 \in Int /\ b1 \in Int /\ b2 \in Int
    BY <1>1 DEF Point, a1, a2, b1, b2
<1>12. t \in Int /\ s \in Int /\ OnNormal(o, i, p) \in Int
    <2>1. Minus(p, o.centre) \in Point
        BY <1>1 DEF Minus, Point
    <2>2. OnNormal(o, i, p) \in Int /\ OnEdge(o, i, p) \in Int
        BY <1>1, <1>3, <2>1, TurnedVector
    <2> QED
        BY <1>1, <2>2 DEF h
<1>13. Minus(p, e.a) = <<a1, a2>> /\ Minus(p, e.b) = <<b1, b2>>
    BY DEF Minus, a1, a2, b1, b2
<1>14. /\ <<a1, a2>> \in Point /\ <<b1, b2>> \in Point
       /\ Dot(<<a1, a2>>, n) = a1 * n1 + a2 * n2 /\ Dot(<<b1, b2>>, n) = b1 * n1 + b2 * n2
       /\ Dot(<<a1, a2>>, Right(n)) = a1 * n2 + a2 * (-n1) /\ Dot(<<b1, b2>>, Right(n)) = b1 * n2 + b2 * (-n1)
    BY <1>5, <1>11 DEF Point, Dot
<1>15. 625 * Dot(Minus(p, e.a), Minus(p, e.a)) = t * t + (s + 625 * g) * (s + 625 * g)
    BY <1>1, <1>8, <1>13, <1>14, TurnedVector
<1>16. 625 * Dot(Minus(p, e.b), Minus(p, e.b)) = t * t + (s - 625 * g) * (s - 625 * g)
    BY <1>1, <1>9, <1>13, <1>14, TurnedVector
<1>17. Dot(Minus(p, e.a), Minus(e.b, e.a)) = 2 * g * (s + 625 * g)
    <2>1. Dot(Minus(p, e.a), Minus(e.b, e.a)) = a1 * (2 * g * n2) + a2 * (2 * g * (-n1))
        BY <1>7 DEF Dot, Minus, a1, a2
    <2>2. a1 * (2 * g * n2) + a2 * (2 * g * (-n1)) = 2 * g * (a1 * n2 + a2 * (-n1))
        <3> HIDE DEF n1, n2
        <3> QED
            BY <1>1, <1>4, <1>11
    <2> QED
        BY <1>8, <2>1, <2>2
<1>18. cross(e.a, e.b, p) = 2 * g * t
    <2>1. cross(e.a, e.b, p) = (2 * g * n2) * a2 - (2 * g * (-n1)) * a1
        BY <1>7 DEF cross, a1, a2
    <2>2. (2 * g * n2) * a2 - (2 * g * (-n1)) * a1 = 2 * g * (a1 * n1 + a2 * n2)
        <3> HIDE DEF n1, n2
        <3> QED
            BY <1>1, <1>4, <1>11
    <2> QED
        BY <1>8, <2>1, <2>2
<1> QED
    BY <1>1, <1>2, <1>12, <1>15, <1>16, <1>17, <1>18

(* How far x is outside of -h..h. *)
Excess(x, h) == IF x > h THEN x - h ELSE IF x < -h THEN -x - h ELSE 0

(* p is nearer than limit to the box, measured in the frame of the box.    *)
NearBox(o, p, limit) ==
    Excess(OnNormal(o, 1, p), 625 * o.l) * Excess(OnNormal(o, 1, p), 625 * o.l)
        + Excess(OnNormal(o, 4, p), 625 * o.w) * Excess(OnNormal(o, 4, p), 625 * o.w)
        < 625 * (limit * limit)

(* A point t from the line of an edge of 50 * g and s from its middle; along *)
(* says where its foot is, toA and toB how far the ends are.               *)
FromEdge(t, s, g, along, toA, toB) ==
    /\ t \in Int /\ s \in Int /\ g \in Nat \ {0} /\ toA \in Int /\ toB \in Int
    /\ along = 2 * g * (s + 625 * g)
    /\ 625 * toA = t * t + (s + 625 * g) * (s + 625 * g)
    /\ 625 * toB = t * t + (s - 625 * g) * (s - 625 * g)

(* What PointCloser finds for such a point. *)
FoundCloser(t, s, g, along, toA, toB, limit) ==
    LET Near == t * t + Excess(s, 625 * g) * Excess(s, 625 * g) < 625 * (limit * limit)
    IN  /\ along <= 0 => (toA < limit * limit <=> Near)
        /\ ~(along <= 0) /\ along >= (50 * g) * (50 * g) => (toB < limit * limit <=> Near)
        /\ ~(along <= 0) /\ ~(along >= (50 * g) * (50 * g)) => (Abs(2 * g * t) < limit * (50 * g) <=> Near)

(* The nearest point of an edge is an end of it or the foot of p. *)
LEMMA NearestOnEdge ==
    ASSUME NEW t, NEW s, NEW g, NEW along, NEW toA, NEW toB, NEW limit \in Nat,
           FromEdge(t, s, g, along, toA, toB)
    PROVE  FoundCloser(t, s, g, along, toA, toB, limit)
<1>0. /\ t \in Int /\ s \in Int /\ g \in Nat \ {0} /\ toA \in Int /\ toB \in Int
      /\ along = 2 * g * (s + 625 * g)
      /\ 625 * toA = t * t + (s + 625 * g) * (s + 625 * g)
      /\ 625 * toB = t * t + (s - 625 * g) * (s - 625 * g)
    BY DEF FromEdge
<1> DEFINE h == 625 * g
           g2 == 2 * g
           x == s + h
           LL == limit * limit
<1>1. h \in Nat \ {0} /\ g2 \in Nat \ {0} /\ x \in Int /\ LL \in Nat
    BY <1>0
<1>2. along = g2 * x
    BY <1>0
<1>3. (50 * g) * (50 * g) = g2 * (2 * h)
    BY <1>0
<1>4. t * t \in Int
    BY <1>0, ProductSign
<1>5. 625 * toA = t * t + (s + h) * (s + h) /\ 625 * toB = t * t + (s - h) * (s - h)
    BY <1>0
<1>6. Abs(2 * g * t) = g2 * Abs(t) /\ limit * (50 * g) = g2 * (25 * limit)
    <2>1. limit * (50 * g) = g2 * (25 * limit)
        BY <1>0
    <2>2. CASE t < 0
        <3>1. Abs(t) = -t
            BY <1>0, <2>2 DEF Abs
        <3>2. 2 * g * t < 0
            BY <1>0, <2>2, ProductSign
        <3>3. Abs(2 * g * t) = -(2 * g * t)
            BY <1>0, <3>2 DEF Abs
        <3> QED
            BY <1>0, <2>1, <3>1, <3>3
    <2>3. CASE t >= 0
        <3>1. Abs(t) = t
            BY <1>0, <2>3 DEF Abs
        <3>2. 2 * g * t >= 0
            BY <1>0, <2>3, ProductSign
        <3>3. Abs(2 * g * t) = 2 * g * t
            BY <1>0, <3>2 DEF Abs
        <3> QED
            BY <1>0, <2>1, <3>1, <3>3
    <2> QED
        BY <1>0, <2>2, <2>3
<1> HIDE DEF h, g2, x, LL
<1>7. CASE s <= -h
    <2>1. x <= 0
        BY <1>0, <1>1, <1>7 DEF x
    <2>2. along <= 0
        BY <1>0, <1>1, <1>2, <2>1, ProductSign
    <2>3. Excess(s, h) = -s - h
        BY <1>0, <1>1, <1>7 DEF Excess
    <2>4. (-s - h) * (-s - h) = (s + h) * (s + h) /\ (s + h) * (s + h) \in Int
        BY <1>0, <1>1
    <2>5. t * t + Excess(s, h) * Excess(s, h) = 625 * toA
        BY <1>5, <2>3, <2>4
    <2>6. toA < LL <=> 625 * toA < 625 * LL
        BY <1>0, <1>1
    <2> QED
        BY <2>2, <2>5, <2>6 DEF h, LL, FoundCloser
<1>8. CASE s >= h
    <2>1. x >= 2 * h /\ x > 0
        BY <1>0, <1>1, <1>8 DEF x
    <2>2. g2 * x >= g2 * (2 * h) /\ g2 * x > 0
        BY <1>0, <1>1, <2>1, ProductSign, Cancelled
    <2>3. Excess(s, h) = s - h
        BY <1>0, <1>1, <1>8 DEF Excess
    <2>4. t * t + Excess(s, h) * Excess(s, h) = 625 * toB
        BY <1>5, <2>3
    <2>5. toB < LL <=> 625 * toB < 625 * LL
        BY <1>0, <1>1
    <2>6. ~(along <= 0) /\ along >= (50 * g) * (50 * g)
        BY <1>0, <1>1, <1>2, <1>3, <2>2
    <2> QED
        BY <2>4, <2>5, <2>6 DEF h, LL, FoundCloser
<1>9. CASE -h < s /\ s < h
    <2>1. x > 0 /\ x < 2 * h
        BY <1>0, <1>1, <1>9 DEF x
    <2>2. g2 * x < g2 * (2 * h) /\ g2 * x > 0
        BY <1>0, <1>1, <2>1, ProductSign, Cancelled
    <2>3. Excess(s, h) = 0
        BY <1>0, <1>1, <1>9 DEF Excess
    <2>4. ~(along <= 0) /\ ~(along >= (50 * g) * (50 * g))
        BY <1>0, <1>1, <1>2, <1>3, <2>2
    <2>5. Abs(t) \in Nat /\ 25 * limit \in Nat
        BY <1>0, AbsFacts
    <2>6. g2 * Abs(t) < g2 * (25 * limit) <=> Abs(t) < 25 * limit
        BY <1>0, <1>1, <2>5, Cancelled
    <2>7. Abs(t) < 25 * limit <=> Abs(t) * Abs(t) < (25 * limit) * (25 * limit)
        BY <2>5, Squares
    <2>8. Abs(t) * Abs(t) = t * t /\ (25 * limit) * (25 * limit) = 625 * LL
        BY <1>0, AbsSquare DEF LL
    <2>9. t * t + 0 * 0 = t * t
        BY <1>4
    <2>10. Abs(2 * g * t) < limit * (50 * g) <=> t * t < 625 * LL
        BY <1>6, <2>6, <2>7, <2>8
    <2>11. t * t + Excess(s, h) * Excess(s, h) = t * t
        BY <2>3, <2>9
    <2> QED
        BY <2>4, <2>10, <2>11 DEF h, LL, FoundCloser
<1> QED
    BY <1>0, <1>1, <1>7, <1>8, <1>9

(* pointToSegmentDistance for an edge of a box, in the frame of the box. *)
LEMMA CloserInFrame ==
    ASSUME NEW o \in UnitBox, NEW i \in 1..4, NEW p \in Point, NEW limit \in Nat,
           NEW e, e = EdgeAt(o, i),
           NEW t, t = OnNormal(o, i, p) - 625 * Depth(o, i),
           NEW y, y = Excess(OnEdge(o, i, p), 625 * Breadth(o, i))
    PROVE  PointCloser(p, e.a, e.b, e.length, limit) <=> t * t + y * y < 625 * (limit * limit)
<1> DEFINE s == OnEdge(o, i, p)
           g == Breadth(o, i)
           along == Dot(Minus(p, e.a), Minus(e.b, e.a))
           toA == Dot(Minus(p, e.a), Minus(p, e.a))
           toB == Dot(Minus(p, e.b), Minus(p, e.b))
<1>1. /\ t \in Int /\ s \in Int
      /\ e.a \in Point /\ e.b \in Point /\ e.length = 50 * g /\ g \in Nat \ {0}
      /\ cross(e.a, e.b, p) = 2 * g * t
      /\ along = 2 * g * (s + 625 * g)
      /\ 625 * toA = t * t + (s + 625 * g) * (s + 625 * g)
      /\ 625 * toB = t * t + (s - 625 * g) * (s - 625 * g)
    BY EdgeMeasures
<1>2. toA \in Int /\ toB \in Int
    BY <1>1, PointOps
<1>3. y = Excess(s, 625 * g)
    OBVIOUS
<1>4. PointCloser(p, e.a, e.b, e.length, limit)
        <=> IF along <= 0 THEN toA < limit * limit
            ELSE IF along >= (50 * g) * (50 * g) THEN toB < limit * limit
            ELSE Abs(2 * g * t) < limit * (50 * g)
    BY <1>1 DEF PointCloser
<1> HIDE DEF s, g, along, toA, toB
<1>5. FoundCloser(t, s, g, along, toA, toB, limit)
    <2>1. FromEdge(t, s, g, along, toA, toB)
        BY <1>1, <1>2 DEF FromEdge
    <2> QED
        BY <2>1, NearestOnEdge
<1> QED
    BY <1>3, <1>4, <1>5 DEF FoundCloser

(* The four normals measure the same two distances. *)
LEMMA FrameOfBox ==
    ASSUME NEW o \in UnitBox, NEW p \in Point, NEW x, x = OnNormal(o, 1, p), NEW y, y = OnNormal(o, 4, p)
    PROVE  /\ x \in Int /\ y \in Int
           /\ OnNormal(o, 2, p) = -y /\ OnNormal(o, 3, p) = -x
           /\ OnEdge(o, 1, p) = -y /\ OnEdge(o, 2, p) = -x /\ OnEdge(o, 3, p) = y /\ OnEdge(o, 4, p) = x
           /\ x = Dot(Minus(p, o.centre), boxAxes(o)[1]) /\ y = Dot(Minus(p, o.centre), boxAxes(o)[2])
<1> DEFINE z == Minus(p, o.centre)
           z1 == z[1]
           z2 == z[2]
           u1 == o.u[1]
           u2 == o.u[2]
<1>1. u1 \in Int /\ u2 \in Int /\ o.u = <<u1, u2>>
    BY DEF UnitBox, Box, Point
<1>2. z1 \in Int /\ z2 \in Int
    BY DEF UnitBox, Box, Point, Minus
<1> HIDE DEF u1, u2, z
<1>3. x = z1 * u1 + z2 * u2
    BY <1>1 DEF OnNormal, Normal, Dot, z
<1>4. y = z1 * (-u2) + z2 * u1
    BY <1>1 DEF OnNormal, Normal, Left, Dot, z
<1>5. OnNormal(o, 2, p) = z1 * u2 + z2 * (-u1)
    BY <1>1 DEF OnNormal, Normal, Right, Dot, z
<1>6. OnNormal(o, 3, p) = z1 * (-u1) + z2 * (-u2)
    <2>1. Times(-1, o.u) = <<-u1, -u2>>
        BY <1>1 DEF Times
    <2> QED
        BY <2>1 DEF OnNormal, Normal, Dot, z
<1>7. OnEdge(o, 1, p) = z1 * u2 + z2 * (-u1)
    BY <1>1 DEF OnEdge, Normal, Right, Dot, z
<1>8. OnEdge(o, 2, p) = z1 * (-u1) + z2 * (-u2)
    BY <1>1 DEF OnEdge, Normal, Right, Dot, z
<1>9. OnEdge(o, 3, p) = z1 * (-u2) + z2 * (-(-u1))
    <2>1. Times(-1, o.u) = <<-u1, -u2>>
        BY <1>1 DEF Times
    <2> QED
        BY <2>1 DEF OnEdge, Normal, Right, Dot, z
<1>10. OnEdge(o, 4, p) = z1 * u1 + z2 * (-(-u2))
    BY <1>1 DEF OnEdge, Normal, Left, Right, Dot, z
<1>11. x = Dot(Minus(p, o.centre), boxAxes(o)[1]) /\ y = Dot(Minus(p, o.centre), boxAxes(o)[2])
    BY DEF OnNormal, Normal, boxAxes, Left
<1> HIDE DEF z1, z2
<1>12. x \in Int /\ y \in Int
    BY <1>1, <1>2, <1>3, <1>4
<1> QED
    BY <1>1, <1>2, <1>3, <1>4, <1>5, <1>6, <1>7, <1>8, <1>9, <1>10, <1>11, <1>12

(* What Excess returns. *)
LEMMA ExcessFacts ==
    \A x \in Int : \A h \in Nat :
        /\ Excess(x, h) \in Nat /\ Excess(-x, h) = Excess(x, h)
        /\ x >= h => Excess(x, h) = x - h
        /\ -x >= h => Excess(x, h) = -x - h
  BY DEF Excess

(* It is no more than the distance from either end. *)
LEMMA ExcessSquares ==
    ASSUME NEW x \in Int, NEW h \in Nat, NEW m, m = Excess(x, h)
    PROVE  m * m <= (x - h) * (x - h) /\ m * m <= (-x - h) * (-x - h)
<1>1. m \in Nat
    BY ExcessFacts
<1>2. ASSUME NEW d \in Int, m <= Abs(d), Abs(d) \in Nat
      PROVE  m * m <= d * d
    <2> DEFINE k == Abs(d)
    <2>1. k * k = d * d
        BY AbsSquare
    <2>2. k \in Nat /\ ~(k < m)
        BY <1>1, <1>2
    <2> HIDE DEF k
    <2>3. ~(k * k < m * m)
        BY <1>1, <2>2, Squares
    <2> QED
        BY <1>1, <2>1, <2>2, <2>3, ProductSign
<1>3. m <= Abs(x - h) /\ m <= Abs(-x - h) /\ Abs(x - h) \in Nat /\ Abs(-x - h) \in Nat
    BY DEF Excess, Abs
<1>4. x - h \in Int /\ -x - h \in Int
    OBVIOUS
<1> QED
    BY <1>2, <1>3, <1>4

(* Strictly inside the box. *)
Inside(o, p) == \A i \in 1..4 : OnNormal(o, i, p) < 625 * Depth(o, i)

(* The edges that meet in a box, in one frame. *)
LEMMA EdgeTerms ==
    ASSUME NEW o \in UnitBox, NEW p \in Point,
           NEW x, x = OnNormal(o, 1, p), NEW y, y = OnNormal(o, 4, p)
    PROVE  /\ x \in Int /\ y \in Int /\ o.l \in Nat \ {0} /\ o.w \in Nat \ {0}
           /\ OnNormal(o, 2, p) = -y /\ OnNormal(o, 3, p) = -x
           /\ Depth(o, 1) = o.l /\ Depth(o, 2) = o.w /\ Depth(o, 3) = o.l /\ Depth(o, 4) = o.w
           /\ Breadth(o, 1) = o.w /\ Breadth(o, 2) = o.l /\ Breadth(o, 3) = o.w /\ Breadth(o, 4) = o.l
           /\ Excess(OnEdge(o, 1, p), 625 * o.w) = Excess(y, 625 * o.w)
           /\ Excess(OnEdge(o, 2, p), 625 * o.l) = Excess(x, 625 * o.l)
           /\ Excess(OnEdge(o, 3, p), 625 * o.w) = Excess(y, 625 * o.w)
           /\ Excess(OnEdge(o, 4, p), 625 * o.l) = Excess(x, 625 * o.l)
<1>1. /\ x \in Int /\ y \in Int
      /\ OnNormal(o, 2, p) = -y /\ OnNormal(o, 3, p) = -x
      /\ OnEdge(o, 1, p) = -y /\ OnEdge(o, 2, p) = -x /\ OnEdge(o, 3, p) = y /\ OnEdge(o, 4, p) = x
    BY FrameOfBox
<1>2. o.l \in Nat \ {0} /\ o.w \in Nat \ {0}
    BY DEF UnitBox, Box
<1>3. /\ Depth(o, 1) = o.l /\ Depth(o, 2) = o.w /\ Depth(o, 3) = o.l /\ Depth(o, 4) = o.w
      /\ Breadth(o, 1) = o.w /\ Breadth(o, 2) = o.l /\ Breadth(o, 3) = o.w /\ Breadth(o, 4) = o.l
    BY DEF Depth, Breadth
<1>4. 625 * o.l \in Nat /\ 625 * o.w \in Nat
    BY <1>2
<1>5. Excess(-y, 625 * o.w) = Excess(y, 625 * o.w) /\ Excess(-x, 625 * o.l) = Excess(x, 625 * o.l)
    <2> DEFINE h == 625 * o.l
               g == 625 * o.w
    <2>1. h \in Nat /\ g \in Nat
        BY <1>4
    <2> HIDE DEF h, g
    <2>2. Excess(-y, g) = Excess(y, g)
        BY <1>1, <2>1, ExcessFacts
    <2>3. Excess(-x, h) = Excess(x, h)
        BY <1>1, <2>1, ExcessFacts
    <2> QED
        BY <2>2, <2>3 DEF h, g
<1> QED
    BY <1>1, <1>2, <1>3, <1>5

(* pointToSegmentDistance to each edge of a box, from one pair of numbers. *)
LEMMA FourEdges ==
    ASSUME NEW o \in UnitBox, NEW p \in Point, NEW limit \in Nat,
           NEW x, x = OnNormal(o, 1, p), NEW y, y = OnNormal(o, 4, p),
           NEW h, h = 625 * o.l, NEW g, g = 625 * o.w
    PROVE  LET X == Excess(x, h) * Excess(x, h)
               Y == Excess(y, g) * Excess(y, g)
               Closer(i) == PointCloser(p, EdgeAt(o, i).a, EdgeAt(o, i).b, EdgeAt(o, i).length, limit)
           IN  /\ Closer(1) <=> (x - h) * (x - h) + Y < 625 * (limit * limit)
               /\ Closer(2) <=> (-y - g) * (-y - g) + X < 625 * (limit * limit)
               /\ Closer(3) <=> (-x - h) * (-x - h) + Y < 625 * (limit * limit)
               /\ Closer(4) <=> (y - g) * (y - g) + X < 625 * (limit * limit)
<1> DEFINE X == Excess(x, h)
           Y == Excess(y, g)
           Closer(i) == PointCloser(p, EdgeAt(o, i).a, EdgeAt(o, i).b, EdgeAt(o, i).length, limit)
           t(i) == OnNormal(o, i, p) - 625 * Depth(o, i)
           r(i) == Excess(OnEdge(o, i, p), 625 * Breadth(o, i))
<1>1. \A i \in 1..4 : Closer(i) <=> t(i) * t(i) + r(i) * r(i) < 625 * (limit * limit)
    BY CloserInFrame
<1>2. t(1) = x - h /\ t(2) = -y - g /\ t(3) = -x - h /\ t(4) = y - g
    BY EdgeTerms
<1>3. r(1) = Y /\ r(2) = X /\ r(3) = Y /\ r(4) = X
    BY EdgeTerms
<1> HIDE DEF Closer, t, r, X, Y
<1>4. /\ Closer(1) <=> (x - h) * (x - h) + Y * Y < 625 * (limit * limit)
      /\ Closer(2) <=> (-y - g) * (-y - g) + X * X < 625 * (limit * limit)
      /\ Closer(3) <=> (-x - h) * (-x - h) + Y * Y < 625 * (limit * limit)
      /\ Closer(4) <=> (y - g) * (y - g) + X * X < 625 * (limit * limit)
    <2>1. 1 \in 1..4 /\ 2 \in 1..4 /\ 3 \in 1..4 /\ 4 \in 1..4
        OBVIOUS
    <2> QED
        BY <1>1, <1>2, <1>3, <2>1
<1> QED
    BY <1>4 DEF Closer, X, Y

(* A point near an edge is near the box. *)
LEMMA NearEdgeNearBox ==
    ASSUME NEW o \in UnitBox, NEW i \in 1..4, NEW p \in Point, NEW limit \in Nat,
           PointCloser(p, EdgeAt(o, i).a, EdgeAt(o, i).b, EdgeAt(o, i).length, limit)
    PROVE  NearBox(o, p, limit)
<1> DEFINE x == OnNormal(o, 1, p)
           y == OnNormal(o, 4, p)
           h == 625 * o.l
           g == 625 * o.w
           X == Excess(x, h)
           Y == Excess(y, g)
           C(j) == PointCloser(p, EdgeAt(o, j).a, EdgeAt(o, j).b, EdgeAt(o, j).length, limit)
           LL == 625 * (limit * limit)
<1>1. x \in Int /\ y \in Int /\ h \in Nat /\ g \in Nat /\ LL \in Int
    <2>1. x \in Int /\ y \in Int /\ o.l \in Nat \ {0} /\ o.w \in Nat \ {0}
        BY EdgeTerms
    <2> QED
        BY <2>1
<1>2. /\ C(1) <=> (x - h) * (x - h) + Y * Y < LL
      /\ C(2) <=> (-y - g) * (-y - g) + X * X < LL
      /\ C(3) <=> (-x - h) * (-x - h) + Y * Y < LL
      /\ C(4) <=> (y - g) * (y - g) + X * X < LL
    BY FourEdges
<1>3. C(1) \/ C(2) \/ C(3) \/ C(4)
    <2>1. i \in {1, 2, 3, 4} /\ C(i)
        OBVIOUS
    <2> HIDE DEF C
    <2> QED
        BY <2>1
<1>4. /\ X * X <= (x - h) * (x - h) /\ X * X <= (-x - h) * (-x - h)
      /\ Y * Y <= (y - g) * (y - g) /\ Y * Y <= (-y - g) * (-y - g)
      /\ X \in Nat /\ Y \in Nat
    <2> HIDE DEF x, y, h, g
    <2>1. X \in Nat /\ Y \in Nat
        BY <1>1, ExcessFacts
    <2>2. X * X <= (x - h) * (x - h) /\ X * X <= (-x - h) * (-x - h)
        <3> HIDE DEF X
        <3> QED
            BY <1>1, ExcessSquares DEF X
    <2>3. Y * Y <= (y - g) * (y - g) /\ Y * Y <= (-y - g) * (-y - g)
        BY <1>1, ExcessSquares
    <2> QED
        BY <2>1, <2>2, <2>3
<1> SUFFICES X * X + Y * Y < LL
    BY DEF NearBox
<1> HIDE DEF x, y, h, g, X, Y, C, LL
<1> DEFINE XX == X * X
           YY == Y * Y
           a == (x - h) * (x - h)
           b == (-y - g) * (-y - g)
           c == (-x - h) * (-x - h)
           d == (y - g) * (y - g)
<1>5. XX \in Int /\ YY \in Int /\ a \in Int /\ b \in Int /\ c \in Int /\ d \in Int
    BY <1>1, <1>4
<1>6. XX <= a /\ XX <= c /\ YY <= d /\ YY <= b
    BY <1>4
<1>7. (C(1) <=> a + YY < LL) /\ (C(2) <=> b + XX < LL) /\ (C(3) <=> c + YY < LL) /\ (C(4) <=> d + XX < LL)
    BY <1>2
<1> HIDE DEF XX, YY, a, b, c, d
<1>8. XX + YY < LL
    BY <1>1, <1>3, <1>5, <1>6, <1>7
<1> QED
    BY <1>8 DEF XX, YY

(* A point near the box is inside it or near one of its edges. *)
LEMMA NearBoxNearEdge ==
    ASSUME NEW o \in UnitBox, NEW p \in Point, NEW limit \in Nat, NearBox(o, p, limit), ~Inside(o, p)
    PROVE  \E i \in 1..4 : PointCloser(p, EdgeAt(o, i).a, EdgeAt(o, i).b, EdgeAt(o, i).length, limit)
<1> DEFINE x == OnNormal(o, 1, p)
           y == OnNormal(o, 4, p)
           h == 625 * o.l
           g == 625 * o.w
           X == Excess(x, h)
           Y == Excess(y, g)
           C(j) == PointCloser(p, EdgeAt(o, j).a, EdgeAt(o, j).b, EdgeAt(o, j).length, limit)
           LL == 625 * (limit * limit)
<1>1. x \in Int /\ y \in Int /\ h \in Nat /\ g \in Nat /\ LL \in Int
    <2>1. x \in Int /\ y \in Int /\ o.l \in Nat \ {0} /\ o.w \in Nat \ {0}
        BY EdgeTerms
    <2> QED
        BY <2>1
<1>2. /\ C(1) <=> (x - h) * (x - h) + Y * Y < LL
      /\ C(2) <=> (-y - g) * (-y - g) + X * X < LL
      /\ C(3) <=> (-x - h) * (-x - h) + Y * Y < LL
      /\ C(4) <=> (y - g) * (y - g) + X * X < LL
    BY FourEdges
<1>3. X * X + Y * Y < LL
    BY DEF NearBox
<1>4. x >= h \/ -x >= h \/ y >= g \/ -y >= g
    <2>1. PICK i \in 1..4 : ~(OnNormal(o, i, p) < 625 * Depth(o, i))
        BY DEF Inside
    <2>2. /\ OnNormal(o, 1, p) = x /\ OnNormal(o, 2, p) = -y /\ OnNormal(o, 3, p) = -x /\ OnNormal(o, 4, p) = y
          /\ 625 * Depth(o, 1) = h /\ 625 * Depth(o, 2) = g /\ 625 * Depth(o, 3) = h /\ 625 * Depth(o, 4) = g
        BY EdgeTerms
    <2>3. i \in {1, 2, 3, 4}
        OBVIOUS
    <2> HIDE DEF x, y, h, g
    <2> QED
        BY <1>1, <2>1, <2>2, <2>3
<1>5. /\ x >= h => X = x - h
      /\ -x >= h => X = -x - h
      /\ y >= g => Y = y - g
      /\ -y >= g => Y = -y - g
      /\ X \in Nat /\ Y \in Nat
    <2> HIDE DEF x, y, h, g
    <2>1. X \in Nat /\ (x >= h => X = x - h) /\ (-x >= h => X = -x - h)
        BY <1>1 DEF Excess
    <2>2. Y \in Nat /\ (y >= g => Y = y - g) /\ (-y >= g => Y = -y - g)
        BY <1>1 DEF Excess
    <2> QED
        BY <2>1, <2>2
<1> SUFFICES C(1) \/ C(2) \/ C(3) \/ C(4)
    <2>1. 1 \in 1..4 /\ 2 \in 1..4 /\ 3 \in 1..4 /\ 4 \in 1..4
        OBVIOUS
    <2> QED
        BY <2>1
<1> HIDE DEF x, y, h, g, X, Y, C, LL
<1>6. X * X \in Int /\ Y * Y \in Int /\ Y * Y + X * X = X * X + Y * Y
    BY <1>5
<1>7. CASE x >= h
    BY <1>2, <1>3, <1>5, <1>7
<1>8. CASE -x >= h
    BY <1>2, <1>3, <1>5, <1>8
<1>9. CASE y >= g
    BY <1>2, <1>3, <1>5, <1>6, <1>9
<1>10. CASE -y >= g
    BY <1>2, <1>3, <1>5, <1>6, <1>10
<1> QED
    BY <1>4, <1>7, <1>8, <1>9, <1>10

(* The corners of a box along a direction. *)
LEMMA CornersAlong ==
    ASSUME NEW o \in UnitBox, NEW n \in Point,
           NEW A, A = o.l * Dot(n, o.u), NEW B, B = o.w * Dot(n, Left(o.u))
    PROVE  /\ A \in Int /\ B \in Int
           /\ \A i \in 1..4 : boxCorners(o)[i] \in Point
           /\ Dot(n, Minus(boxCorners(o)[1], o.centre)) = A + B
           /\ Dot(n, Minus(boxCorners(o)[2], o.centre)) = A - B
           /\ Dot(n, Minus(boxCorners(o)[3], o.centre)) = -A - B
           /\ Dot(n, Minus(boxCorners(o)[4], o.centre)) = -A + B
<1> DEFINE U == Times(o.l, o.u)
           V == Times(o.w, Left(o.u))
           c == o.centre
<1>1. o.l \in Nat \ {0} /\ o.w \in Nat \ {0} /\ o.u \in Point /\ c \in Point /\ Left(o.u) \in Point
    BY DEF UnitBox, Box, Left, Point
<1>2. U \in Point /\ V \in Point
    <2>1. \A k \in Int : \A v \in Point : Times(k, v) \in Point
        BY PointOps
    <2>2. o.l \in Int /\ o.w \in Int
        BY <1>1
    <2> QED
        BY <1>1, <2>1, <2>2
<1>3. /\ boxCorners(o)[1] = Plus(Plus(c, U), V) /\ boxCorners(o)[2] = Minus(Plus(c, U), V)
      /\ boxCorners(o)[3] = Minus(Minus(c, U), V) /\ boxCorners(o)[4] = Plus(Minus(c, U), V)
    BY DEF boxCorners, boxAxes, Left
<1>4. A = Dot(n, U) /\ B = Dot(n, V)
    <2>1. ASSUME NEW k \in Int, NEW v \in Point
          PROVE  Dot(n, Times(k, v)) = k * Dot(n, v)
        BY DEF Dot, Times, Point
    <2>2. Dot(n, Times(o.l, o.u)) = o.l * Dot(n, o.u)
        BY <1>1, <2>1
    <2>3. Dot(n, Times(o.w, Left(o.u))) = o.w * Dot(n, Left(o.u))
        BY <1>1, <2>1
    <2> QED
        BY <2>2, <2>3
<1> HIDE DEF U, V, c
<1>5. ASSUME NEW u \in Point, NEW v \in Point
      PROVE  /\ Dot(n, Minus(Plus(Plus(c, u), v), c)) = Dot(n, u) + Dot(n, v)
             /\ Dot(n, Minus(Minus(Plus(c, u), v), c)) = Dot(n, u) - Dot(n, v)
             /\ Dot(n, Minus(Minus(Minus(c, u), v), c)) = -Dot(n, u) - Dot(n, v)
             /\ Dot(n, Minus(Plus(Minus(c, u), v), c)) = -Dot(n, u) + Dot(n, v)
    <2>1. Dot(n, Minus(Plus(Plus(c, u), v), c)) = Dot(n, u) + Dot(n, v)
        BY <1>1 DEF Dot, Minus, Plus, Point
    <2>2. Dot(n, Minus(Minus(Plus(c, u), v), c)) = Dot(n, u) - Dot(n, v)
        BY <1>1 DEF Dot, Minus, Plus, Point
    <2>3. Dot(n, Minus(Minus(Minus(c, u), v), c)) = -Dot(n, u) - Dot(n, v)
        BY <1>1 DEF Dot, Minus, Plus, Point
    <2>4. Dot(n, Minus(Plus(Minus(c, u), v), c)) = -Dot(n, u) + Dot(n, v)
        BY <1>1 DEF Dot, Minus, Plus, Point
    <2> QED
        BY <2>1, <2>2, <2>3, <2>4
<1>6. \A i \in 1..4 : boxCorners(o)[i] \in Point
    BY BoxEdges DEF UnitBox
<1>7. A \in Int /\ B \in Int
    BY <1>2, <1>4, PointOps
<1> QED
    BY <1>2, <1>3, <1>4, <1>5, <1>6, <1>7 DEF c

(* The size of a box along a direction reaches its extreme corners. *)
LEMMA Support ==
    ASSUME NEW o \in UnitBox, NEW n \in Point, NEW r, r = projectionRadius(o, n)
    PROVE  /\ r \in Nat
           /\ \A j \in 1..4 : Dot(n, Minus(boxCorners(o)[j], o.centre)) \in Int
           /\ \A j \in 1..4 : Dot(n, Minus(boxCorners(o)[j], o.centre)) >= -r
           /\ \E j \in 1..4 : Dot(n, Minus(boxCorners(o)[j], o.centre)) = -r
<1> DEFINE A == o.l * Dot(n, o.u)
           B == o.w * Dot(n, Left(o.u))
           D(j) == Dot(n, Minus(boxCorners(o)[j], o.centre))
<1>1. A \in Int /\ B \in Int /\ D(1) = A + B /\ D(2) = A - B /\ D(3) = -A - B /\ D(4) = -A + B
    BY CornersAlong
<1>2. o.l \in Nat \ {0} /\ o.w \in Nat \ {0} /\ o.u \in Point /\ Left(o.u) \in Point
    BY DEF UnitBox, Box, Left, Point
<1>3. r = Abs(A) + Abs(B)
    <2>1. ASSUME NEW k \in Nat \ {0}, NEW z \in Int
          PROVE  k * Abs(z) = Abs(k * z)
        <3>1. CASE z < 0
            <4>1. k * z < 0 /\ k * (-z) = -(k * z)
                BY <3>1, ProductSign
            <4> QED
                BY <3>1, <4>1 DEF Abs
        <3>2. CASE z >= 0
            <4>1. k * z >= 0
                BY <3>2, ProductSign
            <4> QED
                BY <3>2, <4>1 DEF Abs
        <3> QED
            BY <3>1, <3>2
    <2>2. /\ Dot(o.u, n) = Dot(n, o.u) /\ Dot(Left(o.u), n) = Dot(n, Left(o.u))
          /\ Dot(n, o.u) \in Int /\ Dot(n, Left(o.u)) \in Int
        BY <1>2 DEF Dot, Point
    <2>3. r = o.l * Abs(Dot(o.u, n)) + o.w * Abs(Dot(Left(o.u), n))
        BY DEF projectionRadius, boxAxes, Left
    <2>4. o.l * Abs(Dot(n, o.u)) = Abs(A) /\ o.w * Abs(Dot(n, Left(o.u))) = Abs(B)
        BY <1>2, <2>1, <2>2
    <2> QED
        BY <2>2, <2>3, <2>4
<1> HIDE DEF A, B, D
<1>4. r \in Nat
    BY <1>1, <1>3, AbsFacts
<1>5. \A j \in 1..4 : D(j) \in {A + B, A - B, -A - B, -A + B}
    <2>1. \A j \in 1..4 : j \in {1, 2, 3, 4}
        OBVIOUS
    <2> QED
        BY <1>1, <2>1
<1>6. /\ A + B \in Int /\ A - B \in Int /\ -A - B \in Int /\ -A + B \in Int
      /\ A + B >= -r /\ A - B >= -r /\ -A - B >= -r /\ -A + B >= -r
    BY <1>1, <1>3, <1>4 DEF Abs
<1>7. A + B = -r \/ A - B = -r \/ -A - B = -r \/ -A + B = -r
    BY <1>1, <1>3, <1>4 DEF Abs
<1>8. \E j \in 1..4 : D(j) = -r
    <2>1. 1 \in 1..4 /\ 2 \in 1..4 /\ 3 \in 1..4 /\ 4 \in 1..4
        OBVIOUS
    <2> QED
        BY <1>1, <1>7, <2>1
<1>9. \A j \in 1..4 : D(j) \in Int /\ D(j) >= -r
    BY <1>5, <1>6
<1> QED
    BY <1>4, <1>8, <1>9 DEF D

(* All of b lies on the far side of the i-th edge of a. *)
Beyond(a, b, i) == \A j \in 1..4 : OnNormal(a, i, boxCorners(b)[j]) >= 625 * Depth(a, i)

(* That is so if the centres are far enough from one another. *)
LEMMA BeyondByRadius ==
    ASSUME NEW a \in UnitBox, NEW b \in UnitBox, NEW i \in 1..4
    PROVE  /\ projectionRadius(b, Normal(a, i)) \in Nat
           /\ Dot(Minus(b.centre, a.centre), Normal(a, i)) \in Int
           /\ Beyond(a, b, i) <=> Dot(Minus(b.centre, a.centre), Normal(a, i))
                                   >= 625 * Depth(a, i) + projectionRadius(b, Normal(a, i))
<1> DEFINE n == Normal(a, i)
           r == projectionRadius(b, n)
           c == Dot(Minus(b.centre, a.centre), n)
           h == 625 * Depth(a, i)
           D(j) == Dot(n, Minus(boxCorners(b)[j], b.centre))
           N(j) == OnNormal(a, i, boxCorners(b)[j])
<1>1. n \in Point /\ h \in Nat /\ a.centre \in Point /\ b.centre \in Point
    BY EdgeForm DEF UnitBox, Box
<1>2. /\ r \in Nat
      /\ \A j \in 1..4 : D(j) \in Int /\ D(j) >= -r
      /\ \E j \in 1..4 : D(j) = -r
    BY <1>1, Support
<1>3. \A j \in 1..4 : boxCorners(b)[j] \in Point
    BY BoxEdges DEF UnitBox
<1>4. c \in Int
    BY <1>1, PointOps
<1>5. ASSUME NEW p \in Point
      PROVE  Dot(Minus(p, a.centre), n) = c + Dot(n, Minus(p, b.centre))
    BY <1>1 DEF Dot, Minus, Point
<1>6. \A j \in 1..4 : N(j) = c + D(j)
    BY <1>3, <1>5 DEF OnNormal
<1>7. Beyond(a, b, i) <=> \A j \in 1..4 : N(j) >= h
    BY DEF Beyond
<1> HIDE DEF n, r, c, h, D, N
<1>8. (\A j \in 1..4 : N(j) >= h) <=> c >= h + r
    <2>1. ASSUME \A j \in 1..4 : N(j) >= h
          PROVE  c >= h + r
        <3>1. PICK j \in 1..4 : D(j) = -r
            BY <1>2
        <3>2. c + D(j) >= h
            BY <1>6, <2>1
        <3> QED
            BY <1>1, <1>2, <1>4, <3>1, <3>2
    <2>2. ASSUME c >= h + r, NEW j \in 1..4
          PROVE  N(j) >= h
        <3>1. D(j) \in Int /\ D(j) >= -r /\ N(j) = c + D(j)
            BY <1>2, <1>6
        <3> QED
            BY <1>1, <1>2, <1>4, <2>2, <3>1
    <2> QED
        BY <2>1, <2>2
<1> QED
    BY <1>2, <1>4, <1>7, <1>8 DEF n, r, c, h

(* A box is beyond an edge of another if and only if their shadows on one  *)
(* of its axes are apart.                                                  *)
LEMMA BeyondOnAxes ==
    ASSUME NEW a \in UnitBox, NEW b \in UnitBox, NEW d, d = Minus(b.centre, a.centre)
    PROVE  /\ \A k \in 1..2 : boxAxes(a)[k] \in Point
           /\ (\E i \in 1..4 : Beyond(a, b, i))
                <=> \E k \in 1..2 : ~(Abs(Dot(d, boxAxes(a)[k]))
                       < projectionRadius(a, boxAxes(a)[k]) + projectionRadius(b, boxAxes(a)[k]))
<1> DEFINE u == a.u
           v == Left(a.u)
           x == Dot(d, u)
           y == Dot(d, v)
           f == projectionRadius(b, u)
           g == projectionRadius(b, v)
           h == 625 * a.l
           k == 625 * a.w
<1>1. u \in Point /\ v \in Point /\ a.l \in Nat \ {0} /\ a.w \in Nat \ {0} /\ Dot(u, u) = 625
    BY DEF UnitBox, Box, Left, Point
<1>2. Normal(a, 1) = u /\ Normal(a, 4) = v /\ Normal(a, 3) = Times(-1, u) /\ Normal(a, 2) = Right(u)
    BY DEF Normal
<1>3. Depth(a, 1) = a.l /\ Depth(a, 2) = a.w /\ Depth(a, 3) = a.l /\ Depth(a, 4) = a.w
    BY DEF Depth
<1>4. d \in Point
    BY DEF UnitBox, Box, Minus, Point
<1>5. ASSUME NEW n \in Point, NEW m \in Point, m[1] = -n[1], m[2] = -n[2]
      PROVE  /\ Dot(d, m) = -Dot(d, n)
             /\ projectionRadius(b, m) = projectionRadius(b, n)
    <2>1. ASSUME NEW z \in Point
          PROVE  Dot(z, m) = -Dot(z, n) /\ Dot(z, n) \in Int
        BY <1>5 DEF Dot, Point
    <2>2. boxAxes(b)[1] \in Point /\ boxAxes(b)[2] \in Point
        BY DEF UnitBox, Box, boxAxes, Point
    <2>3. /\ Abs(Dot(boxAxes(b)[1], m)) = Abs(Dot(boxAxes(b)[1], n))
          /\ Abs(Dot(boxAxes(b)[2], m)) = Abs(Dot(boxAxes(b)[2], n))
        BY <2>1, <2>2, AbsFacts
    <2> QED
        BY <1>4, <2>1, <2>3 DEF projectionRadius
<1>6. /\ Dot(d, Times(-1, u)) = -x /\ projectionRadius(b, Times(-1, u)) = f
      /\ Dot(d, Right(u)) = -y /\ projectionRadius(b, Right(u)) = g
    <2>1. Times(-1, u) \in Point /\ Times(-1, u)[1] = -u[1] /\ Times(-1, u)[2] = -u[2]
        BY <1>1 DEF Times, Point
    <2>2. Right(u) \in Point /\ Right(u)[1] = -v[1] /\ Right(u)[2] = -v[2]
        BY <1>1 DEF Right, Left, Point
    <2> HIDE DEF u, v
    <2>3. Dot(d, Times(-1, u)) = -Dot(d, u) /\ projectionRadius(b, Times(-1, u)) = projectionRadius(b, u)
        BY <1>1, <1>5, <2>1
    <2>4. Dot(d, Right(u)) = -Dot(d, v) /\ projectionRadius(b, Right(u)) = projectionRadius(b, v)
        BY <1>1, <1>5, <2>2
    <2> QED
        BY <2>3, <2>4
<1>7. /\ x \in Int /\ y \in Int /\ f \in Nat /\ g \in Nat
      /\ Beyond(a, b, 1) <=> x >= h + f
      /\ Beyond(a, b, 2) <=> -y >= k + g
      /\ Beyond(a, b, 3) <=> -x >= h + f
      /\ Beyond(a, b, 4) <=> y >= k + g
    <2>1. \A i \in 1..4 : /\ projectionRadius(b, Normal(a, i)) \in Nat
                          /\ Dot(d, Normal(a, i)) \in Int
                          /\ Beyond(a, b, i) <=>
                                Dot(d, Normal(a, i)) >= 625 * Depth(a, i) + projectionRadius(b, Normal(a, i))
        BY BeyondByRadius
    <2>2. 1 \in 1..4 /\ 2 \in 1..4 /\ 3 \in 1..4 /\ 4 \in 1..4
        OBVIOUS
    <2> HIDE DEF u, v
    <2> QED
        BY <1>2, <1>3, <1>6, <2>1, <2>2
<1>8. projectionRadius(a, u) = h /\ projectionRadius(a, v) = k
    <2>1. boxAxes(a)[1] = u /\ boxAxes(a)[2] = v
        BY DEF boxAxes, Left
    <2>2. Dot(u, v) = 0 /\ Dot(v, u) = 0 /\ Dot(v, v) = 625
        BY <1>1 DEF Dot, Left, Point
    <2>3. Abs(0) = 0 /\ Abs(625) = 625
        BY DEF Abs
    <2> HIDE DEF u, v
    <2>4. projectionRadius(a, u) = a.l * Abs(Dot(u, u)) + a.w * Abs(Dot(v, u))
        BY <2>1 DEF projectionRadius
    <2>5. projectionRadius(a, v) = a.l * Abs(Dot(u, v)) + a.w * Abs(Dot(v, v))
        BY <2>1 DEF projectionRadius
    <2>6. projectionRadius(a, u) = a.l * 625 + a.w * 0 /\ projectionRadius(a, v) = a.l * 0 + a.w * 625
        BY <1>1, <2>2, <2>3, <2>4, <2>5
    <2> QED
        BY <1>1, <2>6
<1>9. boxAxes(a)[1] = u /\ boxAxes(a)[2] = v
    BY DEF boxAxes, Left
<1>10. h \in Nat /\ k \in Nat
    BY <1>1
<1> HIDE DEF u, v, x, y, f, g, h, k
<1>11. (\E i \in 1..4 : Beyond(a, b, i)) <=> ~(Abs(x) < h + f) \/ ~(Abs(y) < k + g)
    <2>1. (\E i \in 1..4 : Beyond(a, b, i)) <=> Beyond(a, b, 1) \/ Beyond(a, b, 2) \/ Beyond(a, b, 3) \/ Beyond(a, b, 4)
        <3>1. \A i \in 1..4 : i \in {1, 2, 3, 4}
            OBVIOUS
        <3>2. 1 \in 1..4 /\ 2 \in 1..4 /\ 3 \in 1..4 /\ 4 \in 1..4
            OBVIOUS
        <3> QED
            BY <3>1, <3>2
    <2>2. (x >= h + f \/ -x >= h + f) <=> ~(Abs(x) < h + f)
        BY <1>7, <1>10 DEF Abs
    <2>3. (y >= k + g \/ -y >= k + g) <=> ~(Abs(y) < k + g)
        BY <1>7, <1>10 DEF Abs
    <2> QED
        BY <1>7, <2>1, <2>2, <2>3
<1>12. /\ Abs(Dot(d, u)) = Abs(x) /\ Abs(Dot(d, v)) = Abs(y)
       /\ projectionRadius(a, u) + projectionRadius(b, u) = h + f
       /\ projectionRadius(a, v) + projectionRadius(b, v) = k + g
    BY <1>8 DEF x, y, f, g
<1>13. (\E z \in 1..2 : ~(Abs(Dot(d, boxAxes(a)[z]))
                             < projectionRadius(a, boxAxes(a)[z]) + projectionRadius(b, boxAxes(a)[z])))
         <=> ~(Abs(x) < h + f) \/ ~(Abs(y) < k + g)
    <2> DEFINE Apart(n) == ~(Abs(Dot(d, n)) < projectionRadius(a, n) + projectionRadius(b, n))
    <2>1. (Apart(u) <=> ~(Abs(x) < h + f)) /\ (Apart(v) <=> ~(Abs(y) < k + g))
        BY <1>12
    <2> HIDE DEF Apart
    <2>2. \A z \in 1..2 : z \in {1, 2}
        OBVIOUS
    <2>3. (\E z \in 1..2 : Apart(boxAxes(a)[z])) <=> Apart(u) \/ Apart(v)
        <3>1. 1 \in 1..2 /\ 2 \in 1..2
            OBVIOUS
        <3> QED
            BY <1>9, <2>2, <3>1
    <2> QED
        BY <2>1, <2>3 DEF Apart
<1>14. \A z \in 1..2 : boxAxes(a)[z] \in Point
    <2>1. \A z \in 1..2 : z = 1 \/ z = 2
        OBVIOUS
    <2> QED
        BY <1>1, <1>9, <2>1
<1> QED
    BY <1>11, <1>13, <1>14

(* Boxes overlap if and only if neither is beyond an edge of the other. *)
LEMMA OverlapsUnlessBeyond ==
    ASSUME NEW a \in UnitBox, NEW b \in UnitBox
    PROVE  overlaps(a, b) <=> ~(\E i \in 1..4 : Beyond(a, b, i)) /\ ~(\E i \in 1..4 : Beyond(b, a, i))
<1> DEFINE d == Minus(b.centre, a.centre)
           e == Minus(a.centre, b.centre)
           Meet1(n) == Abs(Dot(d, n)) < projectionRadius(a, n) + projectionRadius(b, n)
           Meet2(n) == Abs(Dot(e, n)) < projectionRadius(b, n) + projectionRadius(a, n)
<1>1. overlaps(a, b) <=> \A k \in 1..2 : Meet1(boxAxes(a)[k]) /\ Meet1(boxAxes(b)[k])
    BY DEF overlaps
<1>2. (\E i \in 1..4 : Beyond(a, b, i)) <=> \E k \in 1..2 : ~Meet1(boxAxes(a)[k])
    BY BeyondOnAxes
<1>3. (\E i \in 1..4 : Beyond(b, a, i)) <=> \E k \in 1..2 : ~Meet2(boxAxes(b)[k])
    BY BeyondOnAxes
<1>4. \A k \in 1..2 : boxAxes(b)[k] \in Point
    BY BeyondOnAxes
<1>5. ASSUME NEW n \in Point PROVE Meet1(n) <=> Meet2(n)
    <2>1. Dot(e, n) = -Dot(d, n) /\ Dot(d, n) \in Int
        BY DEF UnitBox, Box, Dot, Minus, Point
    <2>2. Abs(Dot(e, n)) = Abs(Dot(d, n))
        BY <2>1, AbsFacts
    <2>3. projectionRadius(a, n) \in Nat /\ projectionRadius(b, n) \in Nat
        BY Support
    <2> QED
        BY <2>2, <2>3
<1> HIDE DEF Meet1, Meet2
<1> QED
    BY <1>1, <1>2, <1>3, <1>4, <1>5

(* Parted in the frame of the box. *)
LEMMA PartedIsBeyond ==
    ASSUME NEW a \in UnitBox, NEW b \in UnitBox
    PROVE  Parted(a, b) <=> \E i \in 1..4 : Beyond(a, b, i)
<1>1. Edges(a) = {EdgeAt(a, i) : i \in 1..4}
    BY DEF Edges, EdgeAt, Breadth
<1>2. \A j \in 1..4 : boxCorners(b)[j] \in Point
    BY BoxEdges DEF UnitBox
<1>3. ASSUME NEW i \in 1..4, NEW e, e = EdgeAt(a, i)
      PROVE  (\A j \in 1..4 : Sign(cross(e.a, e.b, boxCorners(b)[j])) # Sign(cross(e.a, e.b, a.centre)))
               <=> Beyond(a, b, i)
    <2> DEFINE g == Breadth(a, i)
               h == Depth(a, i)
               t(p) == OnNormal(a, i, p) - 625 * h
    <2>1. \A p \in Point : /\ t(p) \in Int /\ OnNormal(a, i, p) \in Int /\ g \in Nat \ {0}
                           /\ cross(e.a, e.b, p) = 2 * g * t(p)
        BY <1>3, EdgeMeasures
    <2>2. a.centre \in Point /\ h \in Nat \ {0} /\ Normal(a, i) \in Point
        BY EdgeForm
    <2>3. OnNormal(a, i, a.centre) = 0
        BY <2>2 DEF OnNormal, Dot, Minus, Point
    <2>4. t(a.centre) = -(625 * h) /\ t(a.centre) < 0
        BY <2>2, <2>3
    <2>5. \A p \in Point : Sign(cross(e.a, e.b, p)) = Sign(t(p))
        <3> TAKE p \in Point
        <3> DEFINE m == 2 * g
                   s == t(p)
        <3>1. m \in Nat \ {0} /\ s \in Int /\ cross(e.a, e.b, p) = m * s
            BY <2>1
        <3> HIDE DEF m, s
        <3>2. Sign(m * s) = Sign(s)
            BY <3>1, ProductSign DEF Sign
        <3> QED
            BY <3>1, <3>2 DEF s
    <2>6. \A p \in Point : Sign(t(p)) # -1 <=> OnNormal(a, i, p) >= 625 * h
        <3> TAKE p \in Point
        <3>1. t(p) \in Int /\ OnNormal(a, i, p) \in Int /\ 625 * h \in Int
            BY <2>1, <2>2
        <3> QED
            BY <3>1, SignFacts
    <2>7. Sign(t(a.centre)) = -1
        BY <2>1, <2>2, <2>4, SignFacts
    <2> HIDE DEF t
    <2> QED
        BY <1>2, <2>2, <2>5, <2>6, <2>7 DEF Beyond
<1> QED
    BY <1>1, <1>3 DEF Parted

(* overlaps finds the boxes that no edge of either parts. *)
LEMMA PartsAreOverlaps ==
    ASSUME NEW a \in UnitBox, NEW b \in UnitBox
    PROVE  overlaps(a, b) <=> ~Parted(a, b) /\ ~Parted(b, a)
  BY OverlapsUnlessBeyond, PartedIsBeyond

(* A point strictly inside a box is less far along a direction than the    *)
(* box reaches.                                                            *)
LEMMA InsideReach ==
    ASSUME NEW x \in Int, NEW y \in Int, NEW A \in Int, NEW B \in Int, A # 0 \/ B # 0,
           NEW l \in Nat \ {0}, NEW w \in Nat \ {0},
           x < 625 * l, -x < 625 * l, y < 625 * w, -y < 625 * w
    PROVE  x * A + y * B > -(625 * (l * Abs(A) + w * Abs(B)))
<1>1. ASSUME NEW z \in Int, NEW C \in Int, NEW k \in Nat \ {0}, z < 625 * k, -z < 625 * k
      PROVE  /\ z * C >= -(625 * (k * Abs(C))) /\ (C # 0 => z * C > -(625 * (k * Abs(C))))
             /\ z * C \in Int /\ k * Abs(C) \in Int
    <2>1. CASE C > 0
        <3>1. Abs(C) = C
            BY <2>1 DEF Abs
        <3>2. (z + 625 * k) * C > 0
            BY <1>1, <2>1, ProductSign
        <3>3. (z + 625 * k) * C = z * C + 625 * (k * C) /\ z * C \in Int /\ k * C \in Int
            BY <1>1
        <3> QED
            BY <3>1, <3>2, <3>3
    <2>2. CASE C < 0
        <3>1. Abs(C) = -C
            BY <2>2 DEF Abs
        <3>2. (z - 625 * k) * C > 0
            BY <1>1, <2>2, ProductSign
        <3>3. (z - 625 * k) * C = z * C + 625 * (k * (-C)) /\ z * C \in Int /\ k * (-C) \in Int
            BY <1>1
        <3> QED
            BY <3>1, <3>2, <3>3
    <2>3. CASE C = 0
        <3>1. Abs(C) = 0 /\ z * C = 0 /\ k * Abs(C) = 0
            BY <1>1, <2>3 DEF Abs
        <3> QED
            BY <2>3, <3>1
    <2> QED
        BY <2>1, <2>2, <2>3
<1> DEFINE P == x * A
           Q == y * B
           R == l * Abs(A)
           S == w * Abs(B)
<1>2. P >= -(625 * R) /\ (A # 0 => P > -(625 * R)) /\ P \in Int /\ R \in Int
    BY <1>1
<1>3. Q >= -(625 * S) /\ (B # 0 => Q > -(625 * S)) /\ Q \in Int /\ S \in Int
    BY <1>1
<1> HIDE DEF P, Q, R, S
<1>4. P + Q > -(625 * (R + S))
    BY <1>2, <1>3
<1> QED
    BY <1>4 DEF P, Q, R, S

(* A corner seen along the normals of its own box. *)
LEMMA OwnCorners ==
    ASSUME NEW a \in UnitBox, NEW j \in 1..4, NEW i \in 1..4
    PROVE  OnNormal(a, i, boxCorners(a)[j]) <= 625 * Depth(a, i)
<1> DEFINE p == boxCorners(a)[j]
           e == EdgeAt(a, j)
           t == OnNormal(a, j, p) - 625 * Depth(a, j)
           s == OnEdge(a, j, p)
           g == Breadth(a, j)
           x == OnNormal(a, 1, p)
           y == OnNormal(a, 4, p)
<1>1. p \in Point /\ e.a = p
    BY BoxEdges DEF UnitBox, EdgeAt
<1>2. /\ t \in Int /\ s \in Int /\ OnNormal(a, j, p) \in Int /\ g \in Nat \ {0}
      /\ 625 * Dot(Minus(p, e.a), Minus(p, e.a)) = t * t + (s + 625 * g) * (s + 625 * g)
    BY <1>1, EdgeMeasures
<1>3. Dot(Minus(p, e.a), Minus(p, e.a)) = 0
    BY <1>1 DEF Dot, Minus, Point
<1>4. t = 0 /\ s = -(625 * g)
    <2> DEFINE r == s + 625 * g
    <2>1. r \in Int /\ t * t + r * r = 0
        BY <1>2, <1>3
    <2> HIDE DEF r, t, s, g
    <2>2. t * t >= 0 /\ r * r >= 0 /\ (t # 0 => t * t > 0) /\ (r # 0 => r * r > 0) /\ t * t \in Int /\ r * r \in Int
        BY <1>2, <2>1, ProductSign
    <2>3. t = 0 /\ r = 0
        BY <2>1, <2>2
    <2> QED
        BY <1>2, <2>3 DEF r
<1>5. /\ x \in Int /\ y \in Int
      /\ OnNormal(a, 2, p) = -y /\ OnNormal(a, 3, p) = -x
      /\ OnEdge(a, 1, p) = -y /\ OnEdge(a, 2, p) = -x /\ OnEdge(a, 3, p) = y /\ OnEdge(a, 4, p) = x
    BY <1>1, FrameOfBox
<1>6. /\ Depth(a, 1) = a.l /\ Depth(a, 2) = a.w /\ Depth(a, 3) = a.l /\ Depth(a, 4) = a.w
      /\ Breadth(a, 1) = a.w /\ Breadth(a, 2) = a.l /\ Breadth(a, 3) = a.w /\ Breadth(a, 4) = a.l
      /\ a.l \in Nat \ {0} /\ a.w \in Nat \ {0}
    BY DEF Depth, Breadth, UnitBox, Box
<1>7. OnNormal(a, j, p) = 625 * Depth(a, j) /\ OnEdge(a, j, p) = -(625 * Breadth(a, j))
    <2>1. Depth(a, j) \in Nat \ {0}
        BY EdgeForm
    <2>2. OnNormal(a, j, p) \in Int
        BY <1>2
    <2>3. OnNormal(a, j, p) - 625 * Depth(a, j) = 0 /\ OnEdge(a, j, p) = -(625 * Breadth(a, j))
        BY <1>4
    <2> DEFINE N == OnNormal(a, j, p)
               h == Depth(a, j)
    <2> HIDE DEF p, N, h
    <2>4. N \in Int /\ h \in Int /\ N - 625 * h = 0
        BY <2>1, <2>2, <2>3 DEF N, h
    <2>5. N = 625 * h
        BY <2>4
    <2> QED
        BY <2>3, <2>5 DEF N, h
<1>8. OnNormal(a, 1, p) = x /\ OnNormal(a, 4, p) = y
    OBVIOUS
<1> HIDE DEF p, e, t, s, g, x, y
<1>9. x \in {625 * a.l, -(625 * a.l)} /\ y \in {625 * a.w, -(625 * a.w)}
    <2>1. CASE j = 1
        BY <1>5, <1>6, <1>7, <1>8, <2>1
    <2>2. CASE j = 2
        BY <1>5, <1>6, <1>7, <1>8, <2>2
    <2>3. CASE j = 3
        BY <1>5, <1>6, <1>7, <1>8, <2>3
    <2>4. CASE j = 4
        BY <1>5, <1>6, <1>7, <1>8, <2>4
    <2> QED
        BY <2>1, <2>2, <2>3, <2>4
<1>10. \A z \in {1, 2, 3, 4} : OnNormal(a, z, p) <= 625 * Depth(a, z)
    BY <1>5, <1>6, <1>8, <1>9
<1>11. i \in {1, 2, 3, 4}
    OBVIOUS
<1> QED
    BY <1>10, <1>11 DEF p

(* Boxes one of which has a corner strictly inside the other overlap. *)
LEMMA InsideOverlaps ==
    ASSUME NEW a \in UnitBox, NEW b \in UnitBox, NEW j \in 1..4, Inside(b, boxCorners(a)[j])
    PROVE  overlaps(a, b) /\ overlaps(b, a)
<1> DEFINE p == boxCorners(a)[j]
<1>1. p \in Point
    BY BoxEdges DEF UnitBox
<1>2. ASSUME NEW i \in 1..4, Beyond(b, a, i) PROVE FALSE
    <2>1. OnNormal(b, i, p) >= 625 * Depth(b, i) /\ OnNormal(b, i, p) < 625 * Depth(b, i)
        BY <1>2 DEF Beyond, Inside
    <2>2. OnNormal(b, i, p) \in Int /\ Depth(b, i) \in Nat \ {0}
        BY <1>1, EdgeMeasures, EdgeForm
    <2> QED
        BY <2>1, <2>2
<1>3. ASSUME NEW i \in 1..4, Beyond(a, b, i) PROVE FALSE
    <2> DEFINE n == Normal(a, i)
               q == Minus(p, b.centre)
               c == Dot(Minus(b.centre, a.centre), n)
               r == projectionRadius(b, n)
               x == OnNormal(b, 1, p)
               y == OnNormal(b, 4, p)
               A == Dot(n, b.u)
               B == Dot(n, Left(b.u))
    <2>1. n \in Point /\ Dot(n, n) = 625 /\ Depth(a, i) \in Nat \ {0} /\ a.centre \in Point /\ b.centre \in Point
        BY EdgeForm DEF UnitBox, Box
    <2>2. r \in Nat /\ c \in Int /\ c >= 625 * Depth(a, i) + r
        BY <1>3, BeyondByRadius
    <2>3. OnNormal(a, i, p) <= 625 * Depth(a, i) /\ OnNormal(a, i, p) \in Int
        BY <1>1, OwnCorners, EdgeMeasures
    <2>4. OnNormal(a, i, p) = c + Dot(q, n) /\ Dot(q, n) \in Int
        BY <1>1, <2>1 DEF OnNormal, Dot, Minus, Point
    <2>5. /\ x \in Int /\ y \in Int /\ b.l \in Nat \ {0} /\ b.w \in Nat \ {0}
          /\ x < 625 * b.l /\ -x < 625 * b.l /\ y < 625 * b.w /\ -y < 625 * b.w
        <3>1. /\ x \in Int /\ y \in Int /\ b.l \in Nat \ {0} /\ b.w \in Nat \ {0}
              /\ OnNormal(b, 2, p) = -y /\ OnNormal(b, 3, p) = -x
              /\ Depth(b, 1) = b.l /\ Depth(b, 2) = b.w /\ Depth(b, 3) = b.l /\ Depth(b, 4) = b.w
            BY <1>1, EdgeTerms
        <3>2. /\ OnNormal(b, 1, p) < 625 * Depth(b, 1) /\ OnNormal(b, 2, p) < 625 * Depth(b, 2)
              /\ OnNormal(b, 3, p) < 625 * Depth(b, 3) /\ OnNormal(b, 4, p) < 625 * Depth(b, 4)
            BY DEF Inside
        <3> QED
            BY <3>1, <3>2
    <2>6. 625 * Dot(q, n) = x * A + y * B /\ A \in Int /\ B \in Int /\ A * A + B * B = 625 * 625
        <3> DEFINE u1 == b.u[1]
                   u2 == b.u[2]
                   q1 == q[1]
                   q2 == q[2]
                   n1 == n[1]
                   n2 == n[2]
        <3>1. u1 \in Int /\ u2 \in Int /\ b.u = <<u1, u2>> /\ u1 * u1 + u2 * u2 = 625
            BY DEF UnitBox, Box, Point, Dot
        <3>2. q1 \in Int /\ q2 \in Int /\ n1 \in Int /\ n2 \in Int /\ n1 * n1 + n2 * n2 = 625
            BY <1>1, <2>1 DEF Point, Minus, Dot
        <3>3. x = q1 * u1 + q2 * u2 /\ y = q1 * (-u2) + q2 * u1
            <4>1. x = Dot(q, boxAxes(b)[1]) /\ y = Dot(q, boxAxes(b)[2])
                BY <1>1, FrameOfBox
            <4> HIDE DEF q, x, y
            <4> QED
                BY <4>1 DEF Dot, boxAxes
        <3>4. A = n1 * u1 + n2 * u2 /\ B = n1 * (-u2) + n2 * u1 /\ Dot(q, n) = q1 * n1 + q2 * n2
            BY <3>1 DEF Dot, Left
        <3> HIDE DEF u1, u2, q1, q2, n1, n2, x, y, A, B, q, n
        <3>5. (u1 * u1 + u2 * u2) * (q1 * n1 + q2 * n2)
                = (q1 * u1 + q2 * u2) * (n1 * u1 + n2 * u2) + (q1 * (-u2) + q2 * u1) * (n1 * (-u2) + n2 * u1)
            BY <3>1, <3>2
        <3>6. (u1 * u1 + u2 * u2) * (n1 * n1 + n2 * n2)
                = (n1 * u1 + n2 * u2) * (n1 * u1 + n2 * u2) + (n1 * (-u2) + n2 * u1) * (n1 * (-u2) + n2 * u1)
            BY <3>1, <3>2
        <3>7. A \in Int /\ B \in Int
            BY <3>1, <3>2, <3>4
        <3> QED
            BY <3>1, <3>2, <3>3, <3>4, <3>5, <3>6, <3>7
    <2>7. r = b.l * Abs(A) + b.w * Abs(B)
        <3>1. Dot(b.u, n) = A /\ Dot(Left(b.u), n) = B
            BY <2>1 DEF UnitBox, Box, Dot, Left, Point
        <3> QED
            BY <3>1 DEF projectionRadius, boxAxes, Left
    <2> HIDE DEF n, q, c, r, x, y, A, B
    <2>8. A # 0 \/ B # 0
        BY <2>6
    <2>9. x * A + y * B > -(625 * (b.l * Abs(A) + b.w * Abs(B)))
        BY <2>5, <2>6, <2>8, InsideReach
    <2>10. 625 * Dot(q, n) > -(625 * r)
        BY <2>6, <2>7, <2>9
    <2> QED
        BY <2>1, <2>2, <2>3, <2>4, <2>10
<1> QED
    BY <1>2, <1>3, OverlapsUnlessBeyond

(* Segments on two sides of a line do not cross, though they may touch. *)
LEMMA PartedDontCross ==
    ASSUME NEW p1 \in Point, NEW p2 \in Point, NEW q1 \in Point, NEW q2 \in Point, NEW n \in Point, Dot(n, n) > 0,
           NEW m \in Int, Dot(n, p1) <= m, Dot(n, p2) <= m, m <= Dot(n, q1), m <= Dot(n, q2)
    PROVE  ~(/\ Sign(cross(q1, q2, p1)) * Sign(cross(q1, q2, p2)) < 0
             /\ Sign(cross(p1, p2, q1)) * Sign(cross(p1, p2, q2)) < 0)
<1> SUFFICES ASSUME Sign(cross(q1, q2, p1)) * Sign(cross(q1, q2, p2)) < 0,
                    Sign(cross(p1, p2, q1)) * Sign(cross(p1, p2, q2)) < 0
             PROVE  FALSE
    OBVIOUS
<1> DEFINE a == cross(p1, p2, q1)
           b == cross(p1, p2, q2)
           c == cross(q1, q2, p1)
           d == cross(q1, q2, p2)
           x1 == Dot(n, p1)
           x2 == Dot(n, p2)
           y1 == Dot(n, q1)
           y2 == Dot(n, q2)
<1>1. /\ a \in Int /\ b \in Int /\ c \in Int /\ d \in Int
      /\ x1 \in Int /\ x2 \in Int /\ y1 \in Int /\ y2 \in Int
    <2>1. a \in Int /\ b \in Int /\ c \in Int /\ d \in Int
        BY CrossAt
    <2>2. x1 \in Int /\ x2 \in Int /\ y1 \in Int /\ y2 \in Int
        BY PointOps
    <2> QED
        BY <2>1, <2>2
<1>2. c - d = b - a
    BY DEF cross, Point
<1>3. \A i \in 1..2 : b * q1[i] - a * q2[i] = c * p2[i] - d * p1[i]
    BY DEF cross, Point
<1>4. ((a < 0 /\ b > 0) \/ (a > 0 /\ b < 0)) /\ ((c < 0 /\ d > 0) \/ (c > 0 /\ d < 0))
    BY <1>1, SignProduct
<1>5. b * y1 - a * y2 = c * x2 - d * x1
    <2> HIDE DEF a, b, c, d
    <2>1. /\ b * y1 - a * y2 = n[1] * (b * q1[1] - a * q2[1]) + n[2] * (b * q1[2] - a * q2[2])
          /\ c * x2 - d * x1 = n[1] * (c * p2[1] - d * p1[1]) + n[2] * (c * p2[2] - d * p1[2])
        BY <1>1 DEF Dot, Point
    <2> QED
        BY <1>3, <2>1
<1>6. x1 = m /\ x2 = m /\ y1 = m /\ y2 = m
    <2> HIDE DEF a, b, c, d, x1, x2, y1, y2
    <2>1. x1 <= m /\ x2 <= m /\ m <= y1 /\ m <= y2
        BY DEF x1, x2, y1, y2
    <2> DEFINE e1 == m - x1
               e2 == m - x2
               f1 == y1 - m
               f2 == y2 - m
    <2>2. e1 \in Nat /\ e2 \in Nat /\ f1 \in Nat /\ f2 \in Nat
        BY <1>1, <2>1
    <2>3. b * f1 - a * f2 = d * e1 - c * e2
        <3>1. /\ b * f1 - a * f2 = (b * y1 - a * y2) - (b - a) * m
              /\ d * e1 - c * e2 = (c * x2 - d * x1) - (c - d) * m
            BY <1>1
        <3> QED
            BY <1>2, <1>5, <3>1
    <2>4. (a < 0 /\ b > 0 /\ c > 0 /\ d < 0) \/ (a > 0 /\ b < 0 /\ c < 0 /\ d > 0)
        BY <1>1, <1>2, <1>4
    <2> HIDE DEF e1, e2, f1, f2
    <2>5. ASSUME NEW k1 \in Int, NEW k2 \in Int, NEW k3 \in Int, NEW k4 \in Int, k1 > 0, k2 > 0, k3 > 0, k4 > 0,
                 k1 * f1 + k2 * f2 = -(k3 * e1 + k4 * e2)
          PROVE  e1 = 0 /\ e2 = 0 /\ f1 = 0 /\ f2 = 0
        <3> DEFINE A1 == k1 * f1
                   A2 == k2 * f2
                   B1 == k3 * e1
                   B2 == k4 * e2
        <3>1. /\ k1 * f1 >= 0 /\ k2 * f2 >= 0 /\ k3 * e1 >= 0 /\ k4 * e2 >= 0
              /\ (f1 # 0 => k1 * f1 > 0) /\ (f2 # 0 => k2 * f2 > 0) /\ (e1 # 0 => k3 * e1 > 0) /\ (e2 # 0 => k4 * e2 > 0)
              /\ k1 * f1 \in Int /\ k2 * f2 \in Int /\ k3 * e1 \in Int /\ k4 * e2 \in Int
            BY <2>2, <2>5, ProductSign
        <3>2. A1 >= 0 /\ A2 >= 0 /\ B1 >= 0 /\ B2 >= 0 /\ A1 \in Int /\ A2 \in Int /\ B1 \in Int /\ B2 \in Int
            BY <3>1
        <3>3. A1 + A2 = -(B1 + B2)
            BY <2>5
        <3> HIDE DEF A1, A2, B1, B2
        <3>4. A1 = 0 /\ A2 = 0 /\ B1 = 0 /\ B2 = 0
            BY <3>2, <3>3
        <3> QED
            BY <3>1, <3>4 DEF A1, A2, B1, B2
    <2>6. CASE a < 0 /\ b > 0 /\ c > 0 /\ d < 0
        <3>1. -a \in Int /\ -d \in Int /\ -a > 0 /\ -d > 0
            BY <1>1, <2>6
        <3>2. b * f1 + (-a) * f2 = -((-d) * e1 + c * e2)
            BY <1>1, <2>2, <2>3
        <3>3. e1 = 0 /\ e2 = 0 /\ f1 = 0 /\ f2 = 0
            BY <1>1, <2>5, <2>6, <3>1, <3>2
        <3> QED
            BY <1>1, <3>3 DEF e1, e2, f1, f2
    <2>7. CASE a > 0 /\ b < 0 /\ c < 0 /\ d > 0
        <3>1. -b \in Int /\ -c \in Int /\ -b > 0 /\ -c > 0
            BY <1>1, <2>7
        <3>2. (-b) * f1 + a * f2 = -(d * e1 + (-c) * e2)
            BY <1>1, <2>2, <2>3
        <3>3. e1 = 0 /\ e2 = 0 /\ f1 = 0 /\ f2 = 0
            BY <1>1, <2>5, <2>7, <3>1, <3>2
        <3> QED
            BY <1>1, <3>3 DEF e1, e2, f1, f2
    <2> QED
        BY <2>4, <2>6, <2>7
<1>7. a = 0
    <2> DEFINE r1 == p2[1] - p1[1]
               r2 == p2[2] - p1[2]
               s1 == q1[1] - p1[1]
               s2 == q1[2] - p1[2]
               n1 == n[1]
               n2 == n[2]
    <2>1. r1 \in Int /\ r2 \in Int /\ s1 \in Int /\ s2 \in Int /\ n1 \in Int /\ n2 \in Int
        BY DEF Point
    <2>2. n1 * r1 + n2 * r2 = 0 /\ n1 * s1 + n2 * s2 = 0 /\ n1 * n1 + n2 * n2 > 0
        <3>1. n1 * r1 + n2 * r2 = x2 - x1 /\ n1 * s1 + n2 * s2 = y1 - x1
            BY DEF Dot, Point
        <3>2. n1 * n1 + n2 * n2 > 0
            BY DEF Dot
        <3> HIDE DEF x1, x2, y1, n1, n2, r1, r2, s1, s2
        <3> QED
            BY <1>1, <1>6, <3>1, <3>2
    <2>3. a = r1 * s2 - r2 * s1
        BY DEF cross
    <2> HIDE DEF r1, r2, s1, s2, n1, n2, a
    <2> DEFINE z == r1 * s2 - r2 * s1
               N == n1 * n1 + n2 * n2
    <2>4. N * z = (n1 * r1 + n2 * r2) * (n1 * s2 - n2 * s1) - (n1 * s1 + n2 * s2) * (n1 * r2 - n2 * r1)
        BY <2>1
    <2>5. N * z = 0
        BY <2>1, <2>2, <2>4
    <2>6. N \in Int /\ N > 0 /\ z \in Int
        BY <2>1, <2>2
    <2> HIDE DEF N, z
    <2>7. z = 0
        BY <2>5, <2>6, ProductSign
    <2> QED
        BY <2>3, <2>7 DEF z
<1> QED
    BY <1>1, <1>4, <1>7

(* Vectors whose coordinates are multiples of five. *)
OnFives(p) == \E x, y \in Int : p = <<5 * x, 5 * y>>

(* Boxes of the grid. *)
GridBox == {o \in UnitBox : OnFives(o.centre) /\ OnFives(o.u)}

(* Sums, multiples and products of such vectors. *)
LEMMA FivesOps ==
    ASSUME NEW p, NEW q, OnFives(p), OnFives(q), NEW k \in Int
    PROVE  /\ p \in Point
           /\ OnFives(Plus(p, q)) /\ OnFives(Minus(p, q)) /\ OnFives(Times(k, p)) /\ OnFives(Left(p))
           /\ \E m \in Int : Dot(p, q) = 25 * m
<1>1. PICK x1 \in Int, x2 \in Int : p = <<5 * x1, 5 * x2>>
    BY DEF OnFives
<1>2. PICK y1 \in Int, y2 \in Int : q = <<5 * y1, 5 * y2>>
    BY DEF OnFives
<1>3. p \in Point
    BY <1>1 DEF Point
<1>4. OnFives(Plus(p, q))
    <2>1. Plus(p, q) = <<5 * (x1 + y1), 5 * (x2 + y2)>>
        BY <1>1, <1>2 DEF Plus
    <2>2. x1 + y1 \in Int /\ x2 + y2 \in Int
        OBVIOUS
    <2> QED
        BY <2>1, <2>2 DEF OnFives
<1>5. OnFives(Minus(p, q))
    <2>1. Minus(p, q) = <<5 * (x1 - y1), 5 * (x2 - y2)>>
        BY <1>1, <1>2 DEF Minus
    <2>2. x1 - y1 \in Int /\ x2 - y2 \in Int
        OBVIOUS
    <2> QED
        BY <2>1, <2>2 DEF OnFives
<1>6. OnFives(Times(k, p))
    <2>1. Times(k, p) = <<5 * (k * x1), 5 * (k * x2)>>
        BY <1>1 DEF Times
    <2>2. k * x1 \in Int /\ k * x2 \in Int
        OBVIOUS
    <2> QED
        BY <2>1, <2>2 DEF OnFives
<1>7. OnFives(Left(p))
    <2>1. Left(p) = <<5 * (-x2), 5 * x1>>
        BY <1>1 DEF Left
    <2>2. -x2 \in Int
        OBVIOUS
    <2> QED
        BY <2>1, <2>2 DEF OnFives
<1>8. \E m \in Int : Dot(p, q) = 25 * m
    <2>1. Dot(p, q) = 25 * (x1 * y1 + x2 * y2)
        BY <1>1, <1>2 DEF Dot
    <2>2. x1 * y1 + x2 * y2 \in Int
        OBVIOUS
    <2> QED
        BY <2>1, <2>2
<1> QED
    BY <1>3, <1>4, <1>5, <1>6, <1>7, <1>8

(* The corners of a box of the grid are on the grid. *)
LEMMA CornersOnFives ==
    ASSUME NEW o \in GridBox, NEW i \in 1..4
    PROVE  OnFives(boxCorners(o)[i])
<1> DEFINE U == Times(o.l, o.u)
           V == Times(o.w, Left(o.u))
           c == o.centre
<1>1. o.l \in Int /\ o.w \in Int /\ OnFives(o.u) /\ OnFives(c)
    BY DEF GridBox, UnitBox, Box
<1>2. OnFives(U) /\ OnFives(V)
    <2>1. OnFives(Left(o.u))
        BY <1>1, FivesOps
    <2>2. \A k \in Int : \A p : OnFives(p) => OnFives(Times(k, p))
        BY FivesOps
    <2> QED
        BY <1>1, <2>1, <2>2
<1>3. /\ boxCorners(o)[1] = Plus(Plus(c, U), V) /\ boxCorners(o)[2] = Minus(Plus(c, U), V)
      /\ boxCorners(o)[3] = Minus(Minus(c, U), V) /\ boxCorners(o)[4] = Plus(Minus(c, U), V)
    BY DEF boxCorners, boxAxes, Left
<1> HIDE DEF U, V, c
<1>4. \A p, q : OnFives(p) /\ OnFives(q) => OnFives(Plus(p, q)) /\ OnFives(Minus(p, q))
    BY FivesOps
<1>5. OnFives(Plus(c, U)) /\ OnFives(Minus(c, U))
    BY <1>1, <1>2, <1>4
<1>6. OnFives(boxCorners(o)[1]) /\ OnFives(boxCorners(o)[2]) /\ OnFives(boxCorners(o)[3]) /\ OnFives(boxCorners(o)[4])
    BY <1>2, <1>3, <1>4, <1>5
<1>7. i \in {1, 2, 3, 4}
    OBVIOUS
<1> QED
    BY <1>6, <1>7

(* On the grid a quotient by the length of an axis is exact. *)
LEMMA ExactQuotient ==
    ASSUME NEW m \in Int, NEW x, x = 25 * m, NEW h \in Nat,
           NEW off, off = Abs(x) \div 25 - 25 * h
    PROVE  (IF off > 0 THEN off ELSE 0) \in Nat /\ 25 * (IF off > 0 THEN off ELSE 0) = Excess(x, 625 * h)
<1>1. Abs(x) = 25 * Abs(m) /\ Abs(m) \in Nat
    BY DEF Abs
<1>2. (25 * Abs(m)) \div 25 = Abs(m)
    BY <1>1
<1>3. off = Abs(m) - 25 * h
    BY <1>1, <1>2
<1> QED
    BY <1>3 DEF Abs, Excess

(* How far a corner is outside of a box of the grid, in the frame of the   *)
(* box.                                                                    *)
LEMMA OutsideIs ==
    ASSUME NEW a \in GridBox, NEW o \in GridBox, NEW i \in 1..4, NEW p, p = boxCorners(a)[i]
    PROVE  /\ Outside(p, o, 1) \in Nat /\ 25 * Outside(p, o, 1) = Excess(OnNormal(o, 1, p), 625 * o.l)
           /\ Outside(p, o, 2) \in Nat /\ 25 * Outside(p, o, 2) = Excess(OnNormal(o, 4, p), 625 * o.w)
<1> DEFINE x == OnNormal(o, 1, p)
           y == OnNormal(o, 4, p)
<1>1. o \in UnitBox /\ OnFives(o.centre) /\ OnFives(o.u) /\ o.l \in Nat /\ o.w \in Nat
    BY DEF GridBox, UnitBox, Box
<1>2. OnFives(p)
    BY CornersOnFives
<1>3. p \in Point
    <2>1. OnFives(p) => p \in Point
        BY DEF OnFives, Point
    <2> QED
        BY <1>2, <2>1
<1>4. x = Dot(Minus(p, o.centre), boxAxes(o)[1]) /\ y = Dot(Minus(p, o.centre), boxAxes(o)[2])
    BY <1>1, <1>3, FrameOfBox
<1>5. OnFives(Minus(p, o.centre)) /\ OnFives(Left(o.u)) /\ boxAxes(o)[1] = o.u /\ boxAxes(o)[2] = Left(o.u)
    <2>1. \A q, r : OnFives(q) /\ OnFives(r) => OnFives(Minus(q, r)) /\ OnFives(Left(q))
        BY FivesOps
    <2>2. OnFives(Minus(p, o.centre)) /\ OnFives(Left(o.u))
        BY <1>1, <1>2, <2>1
    <2> QED
        BY <2>2 DEF boxAxes, Left
<1>6. PICK m \in Int : x = 25 * m
    BY <1>1, <1>4, <1>5, FivesOps
<1>7. PICK k \in Int : y = 25 * k
    BY <1>4, <1>5, FivesOps
<1> DEFINE f == Abs(x) \div 25 - 25 * o.l
           g == Abs(y) \div 25 - 25 * o.w
<1>8. Outside(p, o, 1) = (IF f > 0 THEN f ELSE 0)
    BY <1>4 DEF Outside, Unit
<1>9. Outside(p, o, 2) = (IF g > 0 THEN g ELSE 0)
    BY <1>4 DEF Outside, Unit
<1> HIDE DEF x, y
<1>10. (IF f > 0 THEN f ELSE 0) \in Nat /\ 25 * (IF f > 0 THEN f ELSE 0) = Excess(x, 625 * o.l)
    BY <1>1, <1>6, ExactQuotient
<1>11. (IF g > 0 THEN g ELSE 0) \in Nat /\ 25 * (IF g > 0 THEN g ELSE 0) = Excess(y, 625 * o.w)
    BY <1>1, <1>7, ExactQuotient
<1> QED
    BY <1>8, <1>9, <1>10, <1>11 DEF x, y

(* CornerNear in the frame of the other box. *)
LEMMA CornerNearIs ==
    ASSUME NEW a \in GridBox, NEW b \in GridBox, NEW limit \in Nat
    PROVE  CornerNear(a, b, limit) <=> \E i \in 1..4 : NearBox(b, boxCorners(a)[i], Scale * limit)
<1>1. ASSUME NEW i \in 1..4, NEW p, p = boxCorners(a)[i]
      PROVE  Outside(p, b, 1) * Outside(p, b, 1) + Outside(p, b, 2) * Outside(p, b, 2) < Scale * limit * Scale * limit
               <=> NearBox(b, p, Scale * limit)
    <2> DEFINE f == Outside(p, b, 1)
               g == Outside(p, b, 2)
               X == Excess(OnNormal(b, 1, p), 625 * b.l)
               Y == Excess(OnNormal(b, 4, p), 625 * b.w)
               L == Scale * limit
               F == f * f + g * g
    <2>1. f \in Nat /\ g \in Nat /\ 25 * f = X /\ 25 * g = Y
        BY <1>1, OutsideIs
    <2>2. L \in Nat /\ Scale * limit * Scale * limit = L * L
        BY DEF Scale
    <2>3. NearBox(b, p, L) <=> X * X + Y * Y < 625 * (L * L)
        BY DEF NearBox
    <2> HIDE DEF f, g, X, Y, L
    <2>4. X * X + Y * Y = 625 * F /\ F \in Int
        <3>1. (25 * f) * (25 * f) + (25 * g) * (25 * g) = 625 * (f * f + g * g)
            BY <2>1
        <3>2. F \in Int
            BY <2>1
        <3> QED
            BY <2>1, <3>1, <3>2
    <2> HIDE DEF F
    <2> DEFINE M == L * L
    <2>5. M \in Int
        BY <2>2
    <2> HIDE DEF M
    <2>6. 625 * F < 625 * M <=> F < M
        BY <2>4, <2>5
    <2> QED
        BY <2>2, <2>3, <2>4, <2>6 DEF M, F, f, g, L
<1> QED
    BY <1>1 DEF CornerNear

(* A point on a segment is nearer to it than any limit. *)
LEMMA OnSegmentCloser ==
    ASSUME NEW p \in Point, NEW a \in Point, NEW b \in Point, NEW len, IsLength(len, a, b), len > 0,
           NEW limit \in Nat \ {0}, OnSegment(p, a, b)
    PROVE  PointCloser(p, a, b, len, limit)
<1> DEFINE w1 == p[1] - a[1]
           w2 == p[2] - a[2]
           r1 == b[1] - a[1]
           r2 == b[2] - a[2]
           along == w1 * r1 + w2 * r2
           R == r1 * r1 + r2 * r2
           LL == limit * limit
<1>1. w1 \in Int /\ w2 \in Int /\ r1 \in Int /\ r2 \in Int
    BY DEF Point
<1>2. /\ Dot(Minus(p, a), Minus(b, a)) = along
      /\ Dot(Minus(p, a), Minus(p, a)) = w1 * w1 + w2 * w2
      /\ Dot(Minus(p, b), Minus(p, b)) = (w1 - r1) * (w1 - r1) + (w2 - r2) * (w2 - r2)
      /\ Dot(Minus(p, b), Minus(a, b)) = R - along
      /\ cross(a, b, p) = r1 * w2 - r2 * w1
    BY DEF Dot, Minus, cross, Point
<1>3. len \in Nat /\ len * len = R /\ R > 0
    <2>1. len \in Nat /\ len * len = R
        BY DEF IsLength, Dot, Minus
    <2>2. len * len > 0
        BY <2>1, ProductSign
    <2> QED
        BY <2>1, <2>2
<1>4. a # b
    BY <1>3 DEF Point
<1>5. r1 * w2 - r2 * w1 = 0 /\ along >= 0 /\ R - along >= 0 /\ cross(a, b, p) = 0
    BY <1>2, <1>4 DEF OnSegment
<1>6. LL > 0 /\ limit * len > 0
    BY <1>3, ProductSign
<1> HIDE DEF w1, w2, r1, r2
<1>7. along \in Int /\ R \in Int
    BY <1>1
<1>8. R * (w1 * w1 + w2 * w2) = along * along
    <2>1. R * (w1 * w1 + w2 * w2) = along * along + (r1 * w2 - r2 * w1) * (r1 * w2 - r2 * w1)
        BY <1>1
    <2>2. along * along \in Int
        BY <1>7
    <2> QED
        BY <1>5, <2>1, <2>2
<1>9. R * ((w1 - r1) * (w1 - r1) + (w2 - r2) * (w2 - r2)) = (R - along) * (R - along)
    <2>1. R * ((w1 - r1) * (w1 - r1) + (w2 - r2) * (w2 - r2))
            = (R - along) * (R - along) + (r1 * w2 - r2 * w1) * (r1 * w2 - r2 * w1)
        BY <1>1
    <2>2. (R - along) * (R - along) \in Int
        BY <1>7
    <2> QED
        BY <1>5, <2>1, <2>2
<1> DEFINE A == w1 * w1 + w2 * w2
           B == (w1 - r1) * (w1 - r1) + (w2 - r2) * (w2 - r2)
<1>10. A \in Int /\ B \in Int
    BY <1>1
<1> HIDE DEF along, R, A, B
<1>11. along <= 0 => A = 0
    <2> HAVE along <= 0
    <2>1. along = 0
        BY <1>5, <1>7
    <2>2. R * A = 0
        BY <1>8, <2>1 DEF A
    <2> QED
        BY <1>3, <1>7, <1>10, <2>2, ProductSign
<1>12. along >= len * len => B = 0
    <2> HAVE along >= len * len
    <2>1. R - along = 0
        BY <1>3, <1>5, <1>7
    <2>2. R * B = 0
        BY <1>9, <2>1 DEF B
    <2> QED
        BY <1>3, <1>7, <1>10, <2>2, ProductSign
<1>13. Abs(0) = 0
    BY DEF Abs
<1>14. /\ Dot(Minus(p, a), Minus(b, a)) = along
       /\ Dot(Minus(p, a), Minus(p, a)) = A
       /\ Dot(Minus(p, b), Minus(p, b)) = B
    BY <1>2 DEF A, B
<1> QED
    BY <1>5, <1>6, <1>11, <1>12, <1>13, <1>14 DEF PointCloser

(* If edges of boxes that do not overlap meet, an end of one lies on the   *)
(* other.                                                                  *)
LEMMA BeyondDontCross ==
    ASSUME NEW a \in UnitBox, NEW b \in UnitBox, NEW i \in 1..4, Beyond(a, b, i),
           NEW e \in Edges(a), NEW f \in Edges(b)
    PROVE  ~(/\ Sign(cross(f.a, f.b, e.a)) * Sign(cross(f.a, f.b, e.b)) < 0
             /\ Sign(cross(e.a, e.b, f.a)) * Sign(cross(e.a, e.b, f.b)) < 0)
<1> DEFINE n == Normal(a, i)
           m == 625 * Depth(a, i) + Dot(n, a.centre)
<1>1. n \in Point /\ Dot(n, n) = 625 /\ Depth(a, i) \in Nat \ {0} /\ a.centre \in Point
    BY EdgeForm
<1>2. Dot(n, a.centre) \in Int /\ m \in Int
    BY <1>1, PointOps
<1>3. PICK i1 \in 1..4, i2 \in 1..4 : e.a = boxCorners(a)[i1] /\ e.b = boxCorners(a)[i2]
    BY BoxEdges DEF UnitBox
<1>4. PICK j1 \in 1..4, j2 \in 1..4 : f.a = boxCorners(b)[j1] /\ f.b = boxCorners(b)[j2]
    BY BoxEdges DEF UnitBox
<1>5. e.a \in Point /\ e.b \in Point /\ f.a \in Point /\ f.b \in Point
    BY <1>3, <1>4, BoxEdges DEF UnitBox
<1>6. ASSUME NEW p \in Point
      PROVE  Dot(n, p) \in Int /\ OnNormal(a, i, p) = Dot(n, p) - Dot(n, a.centre)
    BY <1>1 DEF OnNormal, Dot, Minus, Point
<1>7. /\ OnNormal(a, i, e.a) <= 625 * Depth(a, i) /\ OnNormal(a, i, e.b) <= 625 * Depth(a, i)
      /\ OnNormal(a, i, f.a) >= 625 * Depth(a, i) /\ OnNormal(a, i, f.b) >= 625 * Depth(a, i)
    BY <1>3, <1>4, OwnCorners DEF Beyond
<1> HIDE DEF n
<1>8. Dot(n, e.a) <= m /\ Dot(n, e.b) <= m /\ m <= Dot(n, f.a) /\ m <= Dot(n, f.b)
    <2>1. ASSUME NEW p \in Point
          PROVE  /\ OnNormal(a, i, p) <= 625 * Depth(a, i) => Dot(n, p) <= m
                 /\ OnNormal(a, i, p) >= 625 * Depth(a, i) => m <= Dot(n, p)
        BY <1>1, <1>2, <1>6
    <2> QED
        BY <1>5, <1>7, <2>1
<1> HIDE DEF m
<1>9. Dot(n, n) > 0
    BY <1>1
<1> QED
    BY <1>1, <1>2, <1>5, <1>8, <1>9, PartedDontCross

(* footprintGap finds the same gap as the corners. *)
LEMMA GapIsMeasured ==
    ASSUME NEW a \in GridBox, NEW b \in GridBox, NEW limit \in Nat \ {0}
    PROVE  GapBelow(a, b, limit) <=> overlaps(a, b) \/ CornerNear(a, b, limit) \/ CornerNear(b, a, limit)
<1> DEFINE L == Scale * limit
<1>1. L \in Nat \ {0} /\ L \in Nat /\ limit \in Nat
    BY DEF Scale
<1>2. a \in UnitBox /\ b \in UnitBox /\ a \in Box /\ b \in Box /\ Dot(a.u, a.u) = 625 /\ Dot(b.u, b.u) = 625
    BY DEF GridBox, UnitBox
<1>3. /\ CornerNear(a, b, limit) <=> \E i \in 1..4 : NearBox(b, boxCorners(a)[i], L)
      /\ CornerNear(b, a, limit) <=> \E i \in 1..4 : NearBox(a, boxCorners(b)[i], L)
    BY <1>1, CornerNearIs
<1>4. Edges(a) = {EdgeAt(a, i) : i \in 1..4} /\ Edges(b) = {EdgeAt(b, i) : i \in 1..4}
    BY DEF Edges, EdgeAt, Breadth
<1>5. GapBelow(a, b, limit) <=> overlaps(a, b) \/ \E e \in Edges(a), f \in Edges(b) : EdgesCloser(e, f, L)
    BY DEF GapBelow
<1> HIDE DEF L
<1>6. ASSUME NEW o \in UnitBox, NEW e \in Edges(o)
      PROVE  /\ e.a \in Point /\ e.b \in Point /\ IsLength(e.length, e.a, e.b) /\ e.length > 0
             /\ \E i \in 1..4 : e.a = boxCorners(o)[i]
             /\ \E i \in 1..4 : e.b = boxCorners(o)[i]
    <2>1. o \in Box /\ Dot(o.u, o.u) = 625 /\ o.l \in Nat \ {0} /\ o.w \in Nat \ {0}
        BY DEF UnitBox, Box
    <2>2. /\ IsLength(e.length, e.a, e.b)
          /\ \E i \in 1..4 : e.a = boxCorners(o)[i]
          /\ \E i \in 1..4 : e.b = boxCorners(o)[i]
        BY <2>1, BoxEdges
    <2>3. e.a \in Point /\ e.b \in Point
        BY <2>1, <2>2, BoxEdges
    <2>4. e.length > 0
        <3>1. \E i \in 1..4 : e.length = Scale * (IF i % 2 = 1 THEN o.w ELSE o.l)
            BY DEF Edges
        <3> QED
            BY <2>1, <3>1 DEF Scale
    <2> QED
        BY <2>2, <2>3, <2>4
<1>7. ASSUME NEW o \in UnitBox, NEW q \in UnitBox, NEW i \in 1..4, NEW e \in Edges(o),
             PointCloser(boxCorners(q)[i], e.a, e.b, e.length, L), Edges(o) = {EdgeAt(o, k) : k \in 1..4}
      PROVE  NearBox(o, boxCorners(q)[i], L)
    <2>1. PICK k \in 1..4 : e = EdgeAt(o, k)
        BY <1>7
    <2>2. boxCorners(q)[i] \in Point
        BY BoxEdges DEF UnitBox
    <2> QED
        BY <1>1, <1>7, <2>1, <2>2, NearEdgeNearBox
<1>8. ASSUME NEW e \in Edges(a), NEW f \in Edges(b)
      PROVE  /\ PointCloser(e.a, f.a, f.b, f.length, L) \/ PointCloser(e.b, f.a, f.b, f.length, L) => CornerNear(a, b, limit)
             /\ PointCloser(f.a, e.a, e.b, e.length, L) \/ PointCloser(f.b, e.a, e.b, e.length, L) => CornerNear(b, a, limit)
    <2>1. PICK i1 \in 1..4, i2 \in 1..4 : e.a = boxCorners(a)[i1] /\ e.b = boxCorners(a)[i2]
        BY <1>2, <1>6
    <2>2. PICK j1 \in 1..4, j2 \in 1..4 : f.a = boxCorners(b)[j1] /\ f.b = boxCorners(b)[j2]
        BY <1>2, <1>6
    <2>3. /\ PointCloser(e.a, f.a, f.b, f.length, L) => NearBox(b, boxCorners(a)[i1], L)
          /\ PointCloser(e.b, f.a, f.b, f.length, L) => NearBox(b, boxCorners(a)[i2], L)
        BY <1>2, <1>4, <1>7, <2>1
    <2>4. /\ PointCloser(f.a, e.a, e.b, e.length, L) => NearBox(a, boxCorners(b)[j1], L)
          /\ PointCloser(f.b, e.a, e.b, e.length, L) => NearBox(a, boxCorners(b)[j2], L)
        BY <1>2, <1>4, <1>7, <2>2
    <2> QED
        BY <1>3, <2>3, <2>4
<1>9. ASSUME GapBelow(a, b, limit), ~overlaps(a, b)
      PROVE  CornerNear(a, b, limit) \/ CornerNear(b, a, limit)
    <2>1. PICK e \in Edges(a), f \in Edges(b) : EdgesCloser(e, f, L)
        BY <1>5, <1>9
    <2>2. CASE segmentsIntersect(e.a, e.b, f.a, f.b)
        <3>1. ~(/\ Sign(cross(f.a, f.b, e.a)) * Sign(cross(f.a, f.b, e.b)) < 0
                /\ Sign(cross(e.a, e.b, f.a)) * Sign(cross(e.a, e.b, f.b)) < 0)
            <4>1. CASE \E i \in 1..4 : Beyond(a, b, i)
                BY <1>2, <4>1, BeyondDontCross
            <4>2. CASE \E i \in 1..4 : Beyond(b, a, i)
                BY <1>2, <4>2, BeyondDontCross
            <4> QED
                BY <1>2, <1>9, <4>1, <4>2, OverlapsUnlessBeyond
        <3>2. \/ OnSegment(e.a, f.a, f.b) \/ OnSegment(e.b, f.a, f.b)
              \/ OnSegment(f.a, e.a, e.b) \/ OnSegment(f.b, e.a, e.b)
            BY <2>2, <3>1 DEF segmentsIntersect
        <3>3. /\ e.a \in Point /\ e.b \in Point /\ IsLength(e.length, e.a, e.b) /\ e.length > 0
              /\ f.a \in Point /\ f.b \in Point /\ IsLength(f.length, f.a, f.b) /\ f.length > 0
            BY <1>2, <1>6
        <3>4. \/ PointCloser(e.a, f.a, f.b, f.length, L) \/ PointCloser(e.b, f.a, f.b, f.length, L)
              \/ PointCloser(f.a, e.a, e.b, e.length, L) \/ PointCloser(f.b, e.a, e.b, e.length, L)
            <4>1. CASE OnSegment(e.a, f.a, f.b)
                BY <1>1, <3>3, <4>1, OnSegmentCloser
            <4>2. CASE OnSegment(e.b, f.a, f.b)
                BY <1>1, <3>3, <4>2, OnSegmentCloser
            <4>3. CASE OnSegment(f.a, e.a, e.b)
                BY <1>1, <3>3, <4>3, OnSegmentCloser
            <4>4. CASE OnSegment(f.b, e.a, e.b)
                BY <1>1, <3>3, <4>4, OnSegmentCloser
            <4> QED
                BY <3>2, <4>1, <4>2, <4>3, <4>4
        <3> QED
            BY <1>8, <3>4
    <2>3. CASE ~segmentsIntersect(e.a, e.b, f.a, f.b)
        <3>1. \/ PointCloser(e.a, f.a, f.b, f.length, L) \/ PointCloser(e.b, f.a, f.b, f.length, L)
              \/ PointCloser(f.a, e.a, e.b, e.length, L) \/ PointCloser(f.b, e.a, e.b, e.length, L)
            BY <2>1, <2>3 DEF EdgesCloser
        <3> QED
            BY <1>8, <3>1
    <2> QED
        BY <2>2, <2>3
<1>10. ASSUME CornerNear(a, b, limit)
       PROVE  GapBelow(a, b, limit)
    <2>1. PICK i \in 1..4 : NearBox(b, boxCorners(a)[i], L)
        BY <1>3, <1>10
    <2>2. boxCorners(a)[i] \in Point
        BY <1>2, BoxEdges
    <2>3. CASE Inside(b, boxCorners(a)[i])
        BY <1>2, <1>5, <2>3, InsideOverlaps
    <2>4. CASE ~Inside(b, boxCorners(a)[i])
        <3>1. PICK k \in 1..4 : PointCloser(boxCorners(a)[i], EdgeAt(b, k).a, EdgeAt(b, k).b, EdgeAt(b, k).length, L)
            BY <1>1, <1>2, <2>1, <2>2, <2>4, NearBoxNearEdge
        <3>2. EdgeAt(b, k) \in Edges(b) /\ EdgeAt(a, i) \in Edges(a)
            BY <1>4
        <3>3. EdgeAt(a, i).a = boxCorners(a)[i]
            BY DEF EdgeAt
        <3>4. EdgesCloser(EdgeAt(a, i), EdgeAt(b, k), L)
            BY <3>1, <3>3 DEF EdgesCloser
        <3> QED
            BY <1>5, <3>2, <3>4
    <2> QED
        BY <2>3, <2>4
<1>11. ASSUME CornerNear(b, a, limit)
       PROVE  GapBelow(a, b, limit)
    <2>1. PICK i \in 1..4 : NearBox(a, boxCorners(b)[i], L)
        BY <1>3, <1>11
    <2>2. boxCorners(b)[i] \in Point
        BY <1>2, BoxEdges
    <2>3. CASE Inside(a, boxCorners(b)[i])
        BY <1>2, <1>5, <2>3, InsideOverlaps
    <2>4. CASE ~Inside(a, boxCorners(b)[i])
        <3>1. PICK k \in 1..4 : PointCloser(boxCorners(b)[i], EdgeAt(a, k).a, EdgeAt(a, k).b, EdgeAt(a, k).length, L)
            BY <1>1, <1>2, <2>1, <2>2, <2>4, NearBoxNearEdge
        <3>2. EdgeAt(a, k) \in Edges(a) /\ EdgeAt(b, i) \in Edges(b)
            BY <1>4
        <3>3. EdgeAt(b, i).a = boxCorners(b)[i]
            BY DEF EdgeAt
        <3>4. EdgesCloser(EdgeAt(a, k), EdgeAt(b, i), L)
            BY <3>1, <3>3 DEF EdgesCloser
        <3> QED
            BY <1>5, <3>2, <3>4
    <2> QED
        BY <2>3, <2>4
<1> QED
    BY <1>5, <1>9, <1>10, <1>11

(* The inductive invariant of the geometry: what is put down lies on the   *)
(* grid, boxes on the part of it on which quotients are exact.             *)
PlacedInv == ends \in Seq(Point) /\ boxes \in Seq(GridBox)

(* The boxes that can be put down are boxes of the grid. *)
LEMMA PlacedBox ==
    ASSUME NEW x \in Int, NEW y \in Int, NEW l \in Long, NEW w \in Thin, NEW u \in Axes
    PROVE  [centre |-> <<Scale * x, Scale * y>>, l |-> l, w |-> w, u |-> u] \in GridBox
<1> DEFINE c == <<Scale * x, Scale * y>>
           o == [centre |-> c, l |-> l, w |-> w, u |-> u]
<1>1. c \in Point /\ OnFives(c)
    <2>1. c = <<5 * (10 * x), 5 * (10 * y)>> /\ 10 * x \in Int /\ 10 * y \in Int
        BY DEF Scale
    <2>2. c \in Point
        BY DEF Point, Scale
    <2> QED
        BY <2>1, <2>2 DEF OnFives
<1>2. u \in Point /\ OnFives(u) /\ Dot(u, u) = 625
    <2>1. PICK m \in Int, n \in Int : u = <<5 * m, 5 * n>> /\ m * m + n * n = 25
        <3>1. CASE u = <<25, 0>>
            <4>1. u = <<5 * 5, 5 * 0>> /\ 5 * 5 + 0 * 0 = 25
                BY <3>1
            <4> QED
                BY <4>1
        <3>2. CASE u = <<20, 15>>
            <4>1. u = <<5 * 4, 5 * 3>> /\ 4 * 4 + 3 * 3 = 25
                BY <3>2
            <4> QED
                BY <4>1
        <3>3. CASE u = <<15, 20>>
            <4>1. u = <<5 * 3, 5 * 4>> /\ 3 * 3 + 4 * 4 = 25
                BY <3>3
            <4> QED
                BY <4>1
        <3>4. CASE u = <<0, 25>>
            <4>1. u = <<5 * 0, 5 * 5>> /\ 0 * 0 + 5 * 5 = 25
                BY <3>4
            <4> QED
                BY <4>1
        <3> QED
            BY <3>1, <3>2, <3>3, <3>4 DEF Axes
    <2>2. Dot(u, u) = 25 * (m * m + n * n)
        BY <2>1 DEF Dot
    <2>3. u \in Point /\ OnFives(u)
        BY <2>1 DEF Point, OnFives
    <2> QED
        BY <2>1, <2>2, <2>3
<1>3. l \in Nat \ {0} /\ w \in Nat \ {0}
    BY SizesAssumption
<1> HIDE DEF c
<1>4. o \in Box
    BY <1>1, <1>2, <1>3 DEF Box
<1> QED
    BY <1>1, <1>2, <1>4 DEF GridBox, UnitBox, c

(* PlacedInv holds at the start. *)
LEMMA PlacedInvInit == CheckInit => PlacedInv
  BY DEF CheckInit, PlacedInv

(* Putting down an end or a box keeps PlacedInv. *)
LEMMA PlacedInvNext == PlacedInv /\ [CheckNext]_checkVars => PlacedInv'
<1> SUFFICES ASSUME PlacedInv, [CheckNext]_checkVars PROVE PlacedInv'
    OBVIOUS
<1>1. CASE PlaceEnd
    <2>1. PICK p \in (1..Size) \X (1..Size) : ends' = Append(ends, p)
        BY <1>1 DEF PlaceEnd
    <2>2. p \in Point
        BY GridAssumption DEF Point
    <2>3. boxes' = boxes
        BY <1>1 DEF PlaceEnd
    <2> QED
        BY <2>1, <2>2, <2>3 DEF PlacedInv
<1>2. CASE PlaceBox
    <2>1. PICK x, y \in (IF boxes = <<>> THEN {0} ELSE -Reach..Reach), l \in Long, w \in Thin, u \in Axes :
             boxes' = Append(boxes, [centre |-> <<Scale * x, Scale * y>>, l |-> l, w |-> w, u |-> u])
        BY <1>2 DEF PlaceBox
    <2>2. x \in Int /\ y \in Int
        BY GridAssumption
    <2>3. [centre |-> <<Scale * x, Scale * y>>, l |-> l, w |-> w, u |-> u] \in GridBox
        BY <2>2, PlacedBox
    <2>4. ends' = ends
        BY <1>2 DEF PlaceBox
    <2> QED
        BY <2>1, <2>3, <2>4 DEF PlacedInv
<1>3. CASE UNCHANGED <<ends, boxes>>
    BY <1>3 DEF PlacedInv
<1> QED
    BY <1>1, <1>2, <1>3 DEF CheckNext, Fly, checkVars

(* PlacedInv implies the property of the run. *)
LEMMA PlacedAgrees == PlacedInv => GeometryAgrees
<1> SUFFICES ASSUME PlacedInv PROVE GeometryAgrees
    OBVIOUS
<1>1. ASSUME NEW S, NEW s \in Seq(S), NEW i \in 1..Len(s) PROVE s[i] \in S
    OBVIOUS
<1>2. SegmentsMeet
    <2> SUFFICES ASSUME Len(ends) = 4
                 PROVE  segmentsIntersect(ends[1], ends[2], ends[3], ends[4])
                           <=> Meet(ends[1], ends[2], ends[3], ends[4])
        BY DEF SegmentsMeet
    <2>1. ends[1] \in Point /\ ends[2] \in Point /\ ends[3] \in Point /\ ends[4] \in Point
        <3>1. 1 \in 1..4 /\ 2 \in 1..4 /\ 3 \in 1..4 /\ 4 \in 1..4
            OBVIOUS
        <3>2. \A i \in 1..4 : ends[i] \in Point
            BY <1>1 DEF PlacedInv
        <3> QED
            BY <3>1, <3>2
    <2> QED
        BY <2>1, IntersectsIffMeet
<1>3. ASSUME Len(boxes) = 2
      PROVE  boxes[1] \in GridBox /\ boxes[2] \in GridBox /\ boxes[1] \in UnitBox /\ boxes[2] \in UnitBox
    <2>1. boxes[1] \in GridBox /\ boxes[2] \in GridBox
        <3>1. 1 \in 1..2 /\ 2 \in 1..2
            OBVIOUS
        <3>2. \A i \in 1..2 : boxes[i] \in GridBox
            BY <1>3, <1>1 DEF PlacedInv
        <3> QED
            BY <3>1, <3>2
    <2> QED
        BY <2>1 DEF GridBox
<1>4. OverlapsUnlessParted
    BY <1>3, PartsAreOverlaps DEF OverlapsUnlessParted
<1>5. GapsMeasured
    <2>1. \A limit \in Gap : limit \in Nat \ {0}
        BY SizesAssumption
    <2> QED
        BY <1>3, <2>1, GapIsMeasured DEF GapsMeasured
<1> QED
    BY <1>2, <1>4, <1>5 DEF GeometryAgrees

(* For every size of grid, of boxes and of gaps, geometry.py is right:     *)
(* segments intersect if and only if they meet, boxes overlap if and only  *)
(* if no edge parts them, and the gap between them is the distance of a    *)
(* corner of one from the other.                                           *)
THEOREM GeometryIsRight == CheckSpec => []GeometryAgrees
  BY PlacedInvInit, PlacedInvNext, PlacedAgrees, PTL DEF CheckSpec
=============================================================================
