------------------------------- MODULE Layouts -------------------------------
(***************************************************************************)
(* From a mission plan to a legal layout: parseWaypoints reads the plan's  *)
(* items, GeneticGenerator.__init__ finds the segments, freshIndividual    *)
(* draws genes until motifs.decode and layoutProblem accept them, first    *)
(* with, then without the rule that no wall cuts another segment.          *)
(***************************************************************************)
EXTENDS Geometry, Sequences

CONSTANTS
    Waypoint,    \* the positions plan items may have, in metres from home
    MaxItems,    \* bound: the longest plan
    Bounds,      \* the placement area
    SeedDraws,   \* cfg.seedDraws
    Along, Length, Overhang, GateWidth,   \* kind -> the values of a gene
    Angle        \* kind -> crossing angles as <<5 cos, 5 sin>>

ASSUME DrawsAssumption == SeedDraws \in Nat \ {0}
ASSUME ItemsAssumption == MaxItems \in Nat
ASSUME WaypointAssumption == Waypoint \subseteq Int \X Int
ASSUME BoundsAssumption == Bounds \in Int \X Int \X Int \X Int

(* The genes of GENE_RANGES that lie on the grid: t in fifths, lengths,    *)
(* overhangs and gate widths in whole metres, and the two crossing angles  *)
(* of a 3-4-5 triangle, 36.9 and 53.1 degrees (a gate's range has only the *)
(* second).  Where the kinds differ only in how far they reach, this is    *)
(* the wider of the two ranges.                                            *)
ASSUME RangesAssumption ==
    /\ \A k \in {"wall", "gate"} :
          /\ Along[k] \subseteq 1..4
          /\ Length[k] \subseteq 17..20
          /\ Overhang[k] \subseteq 3..10
          /\ Angle[k] \subseteq {<<4, 3>>, <<3, 4>>}
    /\ GateWidth["gate"] \subseteq 7..10

WALL_THICKNESS == 2
MIN_SEGMENT_LENGTH == 25
GATE_AHEAD == 3

(* The blocker's angle as <<5 cos, 5 sin>>: 36.9 degrees on this grid. *)
GATE_BLOCKER == <<4, 3>>

(* Blocker offsets are in tenths of a metre. *)
GATE_OFFSET_MAX == 300
GATE_SOLVE_STEPS == 9

Kind == {"wall", "gate"}
Home == <<0, 0>>

VARIABLES
    kind,       \* the motif of the slot to fill
    items,      \* how many items of the plan have been read
    waypoints,  \* the waypoints found, home first
    phase,      \* "plan", "error", "seed" or "done"
    strict,     \* the pass of freshIndividual
    draws,      \* the draws left in it
    ind         \* the individual returned, with the genes of the last draw

vars == <<kind, items, waypoints, phase, strict, draws, ind>>

-----------------------------------------------------------------------------
(* mission.py *)

(* The vectors of length 5 stand for the directions of segments. *)
Directions == {v \in (-5..5) \X (-5..5) : Dot(v, v) = 25}

(* Can the direction from p to q be expressed?  A bound on the missions. *)
Exact(p, q) == p = q \/ \E v \in Directions : Dot(v, Minus(q, p)) > 0 /\ cross(Home, v, Minus(q, p)) = 0

(* Mutant: the segments are numbered after the empty ones are dropped. *)
allSegmentsRenumbered(ws) ==
    LET moves == SelectSeq([i \in 1..(Len(ws) - 1) |-> [a |-> ws[i], b |-> ws[i + 1]]],
                           LAMBDA s : s.a # s.b)
    IN  {[index |-> i, a |-> moves[i].a, b |-> moves[i].b] : i \in DOMAIN moves}

(* Every segment has the number of its first waypoint. *)
allSegments(ws) ==
    {s \in {[index |-> i, a |-> ws[i], b |-> ws[i + 1]] : i \in 1..(Len(ws) - 1)} : s.a # s.b}

direction(s) ==
    CHOOSE v \in Directions : Dot(v, Minus(s.b, s.a)) > 0 /\ cross(Home, v, Minus(s.b, s.a)) = 0

length(s) == Dot(direction(s), Minus(s.b, s.a)) \div 5

sideNormal(s) == <<direction(s)[2], -direction(s)[1]>>

(* t is in fifths; the result is in grid units. *)
pointAt(s, t) == Plus(Times(Scale, s.a), Times(t * (Scale \div 5), Minus(s.b, s.a)))

longSegments(ws) == {s \in allSegments(ws) : length(s) >= MIN_SEGMENT_LENGTH}

seedSegments(ws) ==
    IF longSegments(ws) # {} THEN {s.index : s \in longSegments(ws)}
    ELSE {s.index : s \in allSegments(ws)}

-----------------------------------------------------------------------------
(* motifs.py *)

(* Mutant: the yaw is brought below 90 degrees, the sizes stay. *)
makeWallUnswapped(start, axis, len) ==
    LET up == IF axis[2] > 0 \/ (axis[2] = 0 /\ axis[1] > 0) THEN axis ELSE Times(-1, axis)
        u  == IF up[1] < 0 THEN <<up[2], -up[1]>> ELSE up
    IN  [centre |-> Plus(start, Times(len, axis)), l |-> len, w |-> WALL_THICKNESS, u |-> u]

(* The yaw is kept in [0, 90]: beyond that the box is turned back by 90    *)
(* degrees and its sizes are swapped.                                      *)
makeWall(start, axis, len) ==
    LET up == IF axis[2] > 0 \/ (axis[2] = 0 /\ axis[1] > 0) THEN axis ELSE Times(-1, axis)
        centre == Plus(start, Times(len, axis))
    IN  IF up[1] < 0
        THEN [centre |-> centre, l |-> WALL_THICKNESS, w |-> len, u |-> <<up[2], -up[1]>>]
        ELSE [centre |-> centre, l |-> len, w |-> WALL_THICKNESS, u |-> up]

tiltedAxis(s, side, angle) ==
    Plus(Times(angle[1], direction(s)), Times(side * angle[2], sideNormal(s)))

decodeWall(genes, s) ==
    LET axis == tiltedAxis(s, genes.side, genes.angle)
        back == genes.length - genes.overhang
    IN  makeWall(Minus(pointAt(s, genes.t), Times(2 * back, axis)), axis, genes.length)

(* The blocker whose inner end sits offset off the wall's tip. *)
blockerAt(genes, s, offset) ==
    LET axis == tiltedAxis(s, genes.side, genes.angle)
        tip  == Plus(pointAt(s, genes.t), Times(2 * genes.overhang, axis))
        ahead == Times(GATE_AHEAD * (Scale \div 5), direction(s))
        start == Plus(Plus(tip, ahead), Times(offset * genes.side, sideNormal(s)))
    IN  makeWall(start, Times(-1, tiltedAxis(s, -genes.side, GATE_BLOCKER)), genes.length)

(* The bisection for the offset, down to a tenth of a metre. *)
GateOffset(genes, s) ==
    LET wall == decodeWall(genes, s)
        bracket[i \in 0..GATE_SOLVE_STEPS] ==
            IF i = 0 THEN <<0, GATE_OFFSET_MAX>>
            ELSE LET last == bracket[i - 1]
                     mid  == (last[1] + last[2]) \div 2
                 IN  IF GapBelow(wall, blockerAt(genes, s, mid), genes.gateWidth)
                     THEN <<mid, last[2]>> ELSE <<last[1], mid>>
    IN  bracket[GATE_SOLVE_STEPS][2]

decodeGate(genes, s) == <<decodeWall(genes, s), blockerAt(genes, s, GateOffset(genes, s))>>

segmentByIndex(segments, index) == CHOOSE s \in segments : s.index = index

decode(genes, segments) ==
    LET s == segmentByIndex(segments, genes.segment)
    IN  IF genes.kind = "gate" THEN decodeGate(genes, s) ELSE <<decodeWall(genes, s)>>

crossesOtherSegment(obstacles, segments, own) ==
    \E k \in DOMAIN obstacles, s \in segments :
        /\ s.index # own
        /\ segmentsIntersect(wallAxis(obstacles[k])[1], wallAxis(obstacles[k])[2],
                             Times(Scale, s.a), Times(Scale, s.b))

layoutProblem(obstacles, segments, own, isStrict) ==
    \/ ~fitsInBounds(Bounds, obstacles)
    \/ hasOverlap(obstacles)
    \/ isStrict /\ crossesOtherSegment(obstacles, segments, own)

-----------------------------------------------------------------------------
(* randomGenes *)
Genes(k, choices) ==
    [kind : {k}, segment : choices, side : {-1, 1}, t : Along[k], angle : Angle[k],
     length : Length[k], overhang : Overhang[k],
     gateWidth : IF k = "gate" THEN GateWidth[k] ELSE {0}]

NoIndividual == [genes |-> <<>>, obstacles |-> <<>>, illegal |-> FALSE]

Init ==
    /\ kind \in Kind
    /\ items = 0
    /\ waypoints = <<Home>>
    /\ phase = "plan"
    /\ strict = TRUE
    /\ draws = SeedDraws
    /\ ind = NoIndividual

(* An item with a position is a waypoint. *)
ReadPosition ==
    /\ phase = "plan" /\ items < MaxItems
    /\ items' = items + 1
    /\ \E p \in Waypoint :
          /\ Exact(waypoints[Len(waypoints)], p)
          /\ waypoints' = Append(waypoints, p)
    /\ UNCHANGED <<kind, phase, strict, draws, ind>>

(* Any other item (another command, too few parameters, null) is skipped. *)
SkipItem ==
    /\ phase = "plan" /\ items < MaxItems
    /\ items' = items + 1
    /\ UNCHANGED <<kind, waypoints, phase, strict, draws, ind>>

(* The end of the plan; without a position it is refused, and without a    *)
(* segment there is nothing to draw from and rng.choice raises.            *)
EndOfPlan ==
    /\ phase = "plan"
    /\ phase' = IF Len(waypoints) < 2 \/ seedSegments(waypoints) = {} THEN "error" ELSE "seed"
    /\ UNCHANGED <<kind, items, waypoints, strict, draws, ind>>

(* One draw of freshIndividual: a legal layout is returned; otherwise the  *)
(* next draw, the second pass, or the last layout marked illegal.          *)
Draw ==
    /\ phase = "seed"
    /\ \E genes \in Genes(kind, seedSegments(waypoints)) :
          LET segments  == allSegments(waypoints)
              obstacles == decode(genes, segments)
              problem   == layoutProblem(obstacles, segments, genes.segment, strict)
          IN  \/ /\ ~problem
                 /\ ind' = [genes |-> genes, obstacles |-> obstacles, illegal |-> FALSE]
                 /\ phase' = "done"
                 /\ UNCHANGED <<strict, draws>>
              \/ /\ problem /\ draws > 1
                 /\ draws' = draws - 1
                 /\ UNCHANGED <<phase, strict, ind>>
              \/ /\ problem /\ draws = 1 /\ strict
                 /\ strict' = FALSE /\ draws' = SeedDraws
                 /\ UNCHANGED <<phase, ind>>
              \/ /\ problem /\ draws = 1 /\ ~strict
                 /\ ind' = [genes |-> genes, obstacles |-> obstacles, illegal |-> TRUE]
                 /\ phase' = "done"
                 /\ UNCHANGED <<strict, draws>>
    /\ UNCHANGED <<kind, items, waypoints>>

Next == ReadPosition \/ SkipItem \/ EndOfPlan \/ Draw

Spec == Init /\ [][Next]_vars

-----------------------------------------------------------------------------
(***************************************************************************)
(* Properties.                                                             *)
(***************************************************************************)
Seeded == phase = "done"
Legal == Seeded /\ ~ind.illegal
Own == segmentByIndex(allSegments(waypoints), ind.genes.segment)

(* Types; what is returned has one wall or two. *)
TypeOK ==
    /\ kind \in Kind
    /\ items \in 0..MaxItems
    /\ waypoints \in Seq(Waypoint \union {Home})
    /\ Len(waypoints) <= items + 1
    /\ phase \in {"plan", "error", "seed", "done"}
    /\ strict \in BOOLEAN
    /\ draws \in 1..SeedDraws
    /\ Seeded => Len(ind.obstacles) = (IF kind = "gate" THEN 2 ELSE 1)

(* A seed lies on a leg the drone flies, between two consecutive waypoints *)
(* of the plan, and on a leg of 25 m or more if the mission has one, also  *)
(* when empty legs have been dropped from the list.                        *)
SeedsOnFlownLegs ==
    Seeded =>
        LET i == ind.genes.segment
            Leg(j) == [index |-> j, a |-> waypoints[j], b |-> waypoints[j + 1]]
            flown == {j \in 1..(Len(waypoints) - 1) : waypoints[j] # waypoints[j + 1]}
        IN  /\ i \in flown
            /\ Own = Leg(i)
            /\ \/ length(Leg(i)) >= MIN_SEGMENT_LENGTH
               \/ \A j \in flown : length(Leg(j)) < MIN_SEGMENT_LENGTH

(* A mission with two different consecutive waypoints gets seeds, also if  *)
(* it is made of short hops only.                                          *)
FlyingMissionsAreSeeded ==
    phase = "error" => \A j \in 1..(Len(waypoints) - 1) : waypoints[j] = waypoints[j + 1]

(* Seeds are drawn whenever something is flown, and where it is flown. *)
SeededWhereItFlies == SeedsOnFlownLegs /\ FlyingMissionsAreSeeded

(* The wall cuts its own leg at t and reaches overhang metres past it, on  *)
(* the gene's side, whatever the yaw its box had to be stored with.        *)
WallCutsItsLeg ==
    Seeded =>
        LET axis == wallAxis(ind.obstacles[1])
            at   == pointAt(Own, ind.genes.t)
            OffLeg(p) == ind.genes.side * Sign(Dot(Minus(p, at), sideNormal(Own)))
            Reach(p)  == Dot(Minus(p, at), Minus(p, at))
        IN  /\ OnSegment(at, axis[1], axis[2])
            /\ \E i \in 1..2 :
                  /\ OffLeg(axis[i]) = 1 /\ OffLeg(axis[3 - i]) = -1
                  /\ Reach(axis[i]) = (Scale * ind.genes.overhang) * (Scale * ind.genes.overhang)

(* The opening of a gate is the gateWidth gene, to the bisection's         *)
(* resolution: the gap reaches it, and would not with the blocker a step   *)
(* closer.                                                                 *)
GateAsWideAsItsGene ==
    Seeded /\ kind = "gate" =>
        LET wall    == ind.obstacles[1]
            blocker == ind.obstacles[2]
            closer  == [blocker EXCEPT !.centre = Minus(@, Times(ind.genes.side, sideNormal(Own)))]
        IN  /\ ~GapBelow(wall, blocker, ind.genes.gateWidth)
            /\ GapBelow(wall, closer, ind.genes.gateWidth)

(* The layout is the one the genes describe. *)
DecodedAsTheGenesSay == WallCutsItsLeg /\ GateAsWideAsItsGene

Corner(o) == {boxCorners(o)[i] : i \in 1..4}

(* A legal layout is inside the placement area with every corner. *)
LegalInsideArea ==
    Legal =>
        \A k \in DOMAIN ind.obstacles : \A c \in Corner(ind.obstacles[k]) :
            /\ Scale * Bounds[1] <= c[1] /\ c[1] <= Scale * Bounds[2]
            /\ Scale * Bounds[3] <= c[2] /\ c[2] <= Scale * Bounds[4]

CutsAnotherLeg ==
    \E k \in DOMAIN ind.obstacles, s \in allSegments(waypoints) :
        /\ s.index # ind.genes.segment
        /\ Meet(wallAxis(ind.obstacles[k])[1], wallAxis(ind.obstacles[k])[2],
                Times(Scale, s.a), Times(Scale, s.b))

(* A layout of the first pass cuts, touches or lies along no leg but its   *)
(* own, not even a leg that is flown again later.                          *)
StrictCutsOwnLegOnly == Legal /\ strict => ~CutsAnotherLeg

(* What layoutProblem accepts is legal, by the corners of the boxes and by *)
(* the points its walls share with the legs.                               *)
AcceptedIsLegal == LegalInsideArea /\ StrictCutsOwnLegOnly

(* README.md: "Every layout is checked for legality (inside the area, no   *)
(* overlap, not cutting another segment) before it is simulated".  The     *)
(* second pass of freshIndividual drops the last of these.                 *)
LegalCutsOwnLegOnly == Legal => ~CutsAnotherLeg
=============================================================================
