--------------------------- MODULE FunctionChecks ---------------------------
(***************************************************************************)
(* The pure functions of the generator against what they stand for: the    *)
(* operators of Geometry against definitions that compute the same by      *)
(* other means, on every pair of segments and of boxes of a small grid;    *)
(* the search score of Scoring against the official score and the          *)
(* distances, for two layouts of one niche that are measured side by side  *)
(* with the same flight times.  The inputs are put down one after another. *)
(***************************************************************************)
EXTENDS Geometry, Scoring

CONSTANTS
    Size,        \* ends of segments lie on a grid of Size by Size points
    Reach,       \* the second box is at most Reach metres off, in x and in y
    Long, Thin,  \* lengths and widths of boxes
    Gap,         \* the gaps asked for, in metres
    Distances,   \* minimum distances of a run, in centimetres
    FlightTimes, \* flight times of a run
    NicheSize,   \* number of obstacles of the layouts
    MaxRuns      \* bound: OFFICIAL_EVALUATION_RUNS

ASSUME GridAssumption == Size \in Nat /\ Reach \in Nat

(* Boxes with no side and gaps of no width do not occur: the sizes are     *)
(* those of obstacles, and the gap asked for is the width of a gate.       *)
ASSUME SizesAssumption == Long \cup Thin \cup Gap \subseteq Nat \ {0}

ASSUME DistancesAssumption == Distances \subseteq Nat
ASSUME TimesAssumption == FlightTimes \subseteq Nat \ {0}
ASSUME NicheAssumption == NicheSize \in Nat \ {0}

(* With a quarter of a point for each, more runs could outweigh a point. *)
ASSUME RunsAssumption == MaxRuns \in 0..4

(* Beyond the last bound thousandths tell distances apart that differ by a *)
(* halving, and the first eight halvings.                                  *)
ASSUME ResolutionAssumption ==
    \A d, e \in Distances :
        /\ d >= TIER_BOUNDS[3] => Halvings(d) <= 8
        /\ d >= TIER_BOUNDS[3] /\ d < e => Halvings(d) < Halvings(e)

VARIABLES
    ends,    \* the ends of the segments put down
    boxes,   \* the boxes put down
    first,   \* the runs of one layout
    second   \* the runs of the other

checkVars == <<ends, boxes, first, second>>

Axes == {<<25, 0>>, <<20, 15>>, <<15, 20>>, <<0, 25>>}

CheckInit == ends = <<>> /\ boxes = <<>> /\ first = <<>> /\ second = <<>>

PlaceEnd ==
    /\ boxes = <<>> /\ first = <<>> /\ Len(ends) < 4
    /\ \E p \in (1..Size) \X (1..Size) : ends' = Append(ends, p)
    /\ UNCHANGED <<boxes, first, second>>

PlaceBox ==
    /\ ends = <<>> /\ first = <<>> /\ Len(boxes) < 2
    /\ \E x, y \in (IF boxes = <<>> THEN {0} ELSE -Reach..Reach), l \in Long, w \in Thin, u \in Axes :
          boxes' = Append(boxes, [centre |-> <<Scale * x, Scale * y>>, l |-> l, w |-> w, u |-> u])
    /\ UNCHANGED <<ends, first, second>>

(* Both layouts are flown once more; rerun appends the measurements. *)
Fly ==
    /\ ends = <<>> /\ boxes = <<>> /\ Len(first) < MaxRuns
    /\ \E d, e \in Distances, t \in FlightTimes :
          /\ first' = Append(first, [d |-> d, t |-> t])
          /\ second' = Append(second, [d |-> e, t |-> t])
    /\ UNCHANGED <<ends, boxes>>

CheckNext == PlaceEnd \/ PlaceBox \/ Fly

CheckSpec == CheckInit /\ [][CheckNext]_checkVars

-----------------------------------------------------------------------------
(* segmentsIntersect is right about segments that cross, touch, overlap,   *)
(* lie on one line apart from each other, or are single points.            *)
SegmentsMeet ==
    Len(ends) = 4 =>
        (segmentsIntersect(ends[1], ends[2], ends[3], ends[4])
            <=> Meet(ends[1], ends[2], ends[3], ends[4]))

(* The line through an edge of a with all of b on the far side. *)
Parted(a, b) ==
    \E e \in Edges(a) : \A i \in 1..4 :
        Sign(cross(e.a, e.b, boxCorners(b)[i])) # Sign(cross(e.a, e.b, a.centre))

(* overlaps finds, from the shadows on four axes, exactly the boxes that   *)
(* no edge of either box parts; boxes that touch do not overlap.           *)
OverlapsUnlessParted ==
    Len(boxes) = 2 =>
        (overlaps(boxes[1], boxes[2]) <=> ~Parted(boxes[1], boxes[2]) /\ ~Parted(boxes[2], boxes[1]))

(* How far p is outside o along its i-th axis. *)
Outside(p, o, i) ==
    LET off == Abs(Dot(Minus(p, o.centre), boxAxes(o)[i])) \div Unit - Unit * (IF i = 1 THEN o.l ELSE o.w)
    IN  IF off > 0 THEN off ELSE 0

CornerNear(a, b, limit) ==
    \E i \in 1..4 :
        LET p == boxCorners(a)[i]
        IN  Outside(p, b, 1) * Outside(p, b, 1) + Outside(p, b, 2) * Outside(p, b, 2)
                < Scale * limit * Scale * limit

(* The gap between two boxes, from the distances of their edges, is the    *)
(* distance of a corner of one from the other, measured in that box's own  *)
(* frame; boxes that overlap or touch have none.                           *)
GapsMeasured ==
    Len(boxes) = 2 =>
        \A limit \in Gap :
            GapBelow(boxes[1], boxes[2], limit)
                <=> \/ overlaps(boxes[1], boxes[2])
                    \/ CornerNear(boxes[1], boxes[2], limit)
                    \/ CornerNear(boxes[2], boxes[1], limit)

(* geometry.py is exact, at touching and degenerate inputs too. *)
GeometryAgrees == SegmentsMeet /\ OverlapsUnlessParted /\ GapsMeasured

-----------------------------------------------------------------------------
official(runs) == officialTestScore(runs, NicheSize)

(* A better official score is a better search score: the shaping breaks    *)
(* ties and never outweighs a point, also summed up over several runs.     *)
TiersComeFirst ==
    Below(official(first), official(second))
        => Below(searchTestScore(first, NicheSize, FALSE), searchTestScore(second, NicheSize, FALSE))

(* The fitness is no staircase: coming closer in one run and no farther in *)
(* any other raises the search score, within a tier and across bounds.     *)
CloserScoresHigher ==
    /\ \A r \in DOMAIN first : second[r].d <= first[r].d
    /\ \E r \in DOMAIN first : second[r].d < first[r].d
    => Below(searchTestScore(first, NicheSize, FALSE), searchTestScore(second, NicheSize, FALSE))

(* A stuck layout does not out-breed a completing one of equal official    *)
(* score, if the two score at all, however close it came.                  *)
StuckYields ==
    /\ official(first)[1] > 0
    /\ ~Below(official(first), official(second)) /\ ~Below(official(second), official(first))
    => Below(searchTestScore(first, NicheSize, TRUE), searchTestScore(second, NicheSize, FALSE))

(* What the search breeds from is ordered as the official score, made      *)
(* strictly monotone and with stuck layouts last.                          *)
ScoresInOrder == TiersComeFirst /\ CloserScoresHigher /\ StuckYields
=============================================================================
