------------------------------ MODULE Scoring ------------------------------
(***************************************************************************)
(* The two scores of a layout (generator.py): the official score of its    *)
(* runs, from the competition's tiers, and the search score, from the same *)
(* tiers plus a bounded nudge, scaled down for a stuck layout.             *)
(*                                                                         *)
(* A run is a record with its minimum distance d in centimetres and its    *)
(* flight time t > 0.  Scores are only ever compared with each other and   *)
(* with zero, so they are kept as exact fractions <<num, den>>, den > 0,   *)
(* up to the constant factor 10 points * 60 s that all of them share.      *)
(***************************************************************************)
EXTENDS Integers, Sequences, FiniteSets, Functions

TIER_BOUNDS == <<25, 100, 150>>
TIER_POINTS == <<5, 2, 1, 0>>

(* The tier of a distance: 1 is the closest one, 4 lies beyond all bounds. *)
Tier(d) == 1 + Cardinality({i \in DOMAIN TIER_BOUNDS : d >= TIER_BOUNDS[i]})

tierPoints(d) == TIER_POINTS[Tier(d)]

(* Beyond the last bound the shaping is halved every ln 2 = 0.69 m. *)
Halvings(d) == (d - TIER_BOUNDS[3]) \div 69

(* How near d is to the next better tier, in thousandths: linear inside a  *)
(* tier, halved again and again beyond the last bound.                     *)
shapingTerm(d) ==
    LET tier == Tier(d)
        low  == IF tier = 1 THEN 0 ELSE TIER_BOUNDS[tier - 1]
    IN  IF tier = 4
        THEN 1000 \div 2^Halvings(d)
        ELSE (1000 * (TIER_BOUNDS[tier] - d)) \div (TIER_BOUNDS[tier] - low)

(* Mutant: shapeGain = 1/2. *)
shapedPointsHalf(d) == 1000 * tierPoints(d) + shapingTerm(d) \div 2

(* tierPoints(d) + shapeGain * m(d) in thousandths, shapeGain = 1/4. *)
shapedPoints(d) == 1000 * tierPoints(d) + shapingTerm(d) \div 4

SumOfTimes(runs) == SumFunction([r \in DOMAIN runs |-> runs[r].t])

(* Means over the same runs: the number of runs cancels out. *)
scoreFromPoints(points, niche, runs) ==
    IF runs = <<>> THEN <<0, 1>> ELSE <<points, niche * niche * SumOfTimes(runs)>>

officialTestScore(runs, niche) ==
    scoreFromPoints(1000 * SumFunction([r \in DOMAIN runs |-> tierPoints(runs[r].d)]), niche, runs)

(* incompleteFactor = 1/4 *)
searchTestScore(runs, niche, stuck) ==
    LET score == scoreFromPoints(SumFunction([r \in DOMAIN runs |-> shapedPoints(runs[r].d)]), niche, runs)
    IN  <<score[1], score[2] * (IF stuck THEN 4 ELSE 1)>>

(* The mean distance and the mean flight time, infinite without a run. *)
Infinity == <<1, 0>>
MeanDistance(runs) ==
    IF runs = <<>> THEN Infinity ELSE <<SumFunction([r \in DOMAIN runs |-> runs[r].d]), Len(runs)>>
MeanDuration(runs) ==
    IF runs = <<>> THEN Infinity ELSE <<SumOfTimes(runs), Len(runs)>>

(* Order of fractions; <<1, 0>> is above all others. *)
Below(p, q) == p[1] * q[2] < q[1] * p[2]

(* Lexicographic order of sort keys, tuples of fractions of one length. *)
KeyBelow(p, q) ==
    \E n \in DOMAIN p :
        /\ Below(p[n], q[n])
        /\ \A m \in 1..(n - 1) : ~Below(p[m], q[m]) /\ ~Below(q[m], p[m])
=============================================================================
