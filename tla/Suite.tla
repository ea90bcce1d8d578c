-------------------------------- MODULE Suite --------------------------------
(***************************************************************************)
(* Selection of the tests to submit: selectSuite, called with the          *)
(* threshold of calibrateThreshold (suite.py).  One behaviour is one       *)
(* call; a step of the scan looks at one candidate of greedyFill.          *)
(*                                                                         *)
(* A flight is a straight line at a distance from the mission, as in the   *)
(* tests of suite.py: the mean distance between two resampled flights is   *)
(* then the difference of two numbers, and their average one number.       *)
(* Numbers that the code divides are fractions <<numerator, denominator>>. *)
(***************************************************************************)
EXTENDS Positions, Integers, Functions

CONSTANTS
    Candidate,          \* individuals that may be in `evaluated`: records of
                        \*   valid, stuck, score, distance, layout, trajectories
    MaxEvaluated,       \* bound: the length of `evaluated`
    Gate,               \* the layouts with two obstacles
    Frame,              \* layout -> the (segment, side) it attacks
    Config,             \* topK, maxPerFrame, keepBestGate, relaxSimilarity
    DEFAULT_THRESHOLD_M,
    MIN_THRESHOLD_M     \* both in the unit of the trajectories

ASSUME ConfigAssumption ==
    \A c \in Config : c.topK \in Nat \ {0} /\ c.maxPerFrame \in Nat
ASSUME BoundAssumption == MaxEvaluated \in Nat
ASSUME ThresholdAssumption ==
    DEFAULT_THRESHOLD_M \in Nat /\ MIN_THRESHOLD_M \in Nat \ {0}

Total(s) == FoldFunction(+, 0, s)

(* Scores and lengths are numbers, and the sum of lengths is one. *)
ASSUME CandidateAssumption ==
    \A c \in Candidate :
        /\ c.score \in Int /\ c.distance \in Int
        /\ c.trajectories \in Seq(Int) /\ Total(c.trajectories) \in Int

VARIABLES
    evaluated,  \* the argument
    cfg,        \* the configuration
    pc,         \* "rank", "fill" (inside greedyFill), "done"
    ranked,     \* the list walked, as positions of evaluated
    next,       \* the place in ranked that greedyFill looks at
    selected,   \* the tests taken in this pass; finally the suite
    threshold   \* the similarity threshold of this pass

vars == <<evaluated, cfg, pc, ranked, next, selected, threshold>>

-----------------------------------------------------------------------------
(* Flights and the similarity threshold. *)

(* The average of an individual's flights; <<0, 0>> when there is none. *)
meanTrajectory(n) == <<Total(evaluated[n].trajectories), Len(evaluated[n].trajectories)>>

Gap(a, b) == IF a >= b THEN a - b ELSE b - a

(* The distance between two averages, infinite when one is missing. *)
trajectoryDistance(a, b) ==
    IF a[2] = 0 \/ b[2] = 0 THEN <<1, 0>> ELSE <<Gap(a[1] * b[2], b[1] * a[2]), a[2] * b[2]>>

Distance(m, n) == trajectoryDistance(meanTrajectory(m), meanTrajectory(n))

AtLeast(p, q) == p[1] * q[2] >= q[1] * p[2]

(* All pairs of runs of one layout. *)
RunPairs ==
    UNION {{<<n, i, j>> : i, j \in DOMAIN evaluated[n].trajectories} : n \in DOMAIN evaluated}
Reruns == {p \in RunPairs : p[2] < p[3]}
Spread(p) == Gap(evaluated[p[1]].trajectories[p[2]], evaluated[p[1]].trajectories[p[3]])

(* The k-th smallest spread, and the median of them all. *)
SpreadOfRank(k) ==
    CHOOSE v \in {Spread(p) : p \in Reruns} :
        /\ Cardinality({p \in Reruns : Spread(p) <= v}) >= k
        /\ Cardinality({p \in Reruns : Spread(p) < v}) < k

calibrateThreshold ==
    LET count == Cardinality(Reruns)
    IN  IF count = 0
        THEN <<DEFAULT_THRESHOLD_M, 1>>
        ELSE <<SpreadOfRank((count + 1) \div 2) + SpreadOfRank(count \div 2 + 1), 2>>

-----------------------------------------------------------------------------
(* The list that is walked. *)

(* sorted(..., key=officialRank), which is stable. *)
RanksBefore(m, n) ==
    LET x == evaluated[m]
        y == evaluated[n]
    IN  \/ x.score > y.score
        \/ x.score = y.score /\ x.distance < y.distance
        \/ x.score = y.score /\ x.distance = y.distance /\ m < n

BestFirst(S) ==
    [r \in 1..Cardinality(S) |-> CHOOSE n \in S : Cardinality({m \in S : RanksBefore(m, n)}) = r - 1]

Scoring == {n \in DOMAIN evaluated :
               evaluated[n].valid /\ ~evaluated[n].stuck /\ evaluated[n].score > 0}

(* Of several individuals with one layout only the best is walked. *)
BestOfLayouts ==
    {n \in Scoring : ~ \E m \in Scoring :
        evaluated[m].layout = evaluated[n].layout /\ RanksBefore(m, n)}

Gates(s) == {i \in DOMAIN s : evaluated[s[i]].layout \in Gate}

(* gates[0]: the first gate of the list. *)
FirstGate(s) == CHOOSE g \in Gates(s) : \A i \in Gates(s) : g <= i

(* Mutant: the gate is removed and appended. *)
GateLast(s) ==
    LET g == FirstGate(s)
    IN  [i \in DOMAIN s |-> IF i = Len(s) THEN s[g] ELSE IF i >= g THEN s[i + 1] ELSE s[i]]

(* keepBestGate: the best gate is moved to the front, and those that were  *)
(* before it move back by one.                                             *)
GateFirst(s) ==
    LET g == FirstGate(s)
    IN  [i \in DOMAIN s |-> IF i = 1 THEN s[g] ELSE IF i <= g THEN s[i - 1] ELSE s[i]]

Ranked ==
    LET s == BestFirst(BestOfLayouts)
    IN  IF cfg.keepBestGate /\ Gates(s) # {} THEN GateFirst(s) ELSE s

FrameOf(n) == Frame[evaluated[n].layout]

(* Mutant: the quota is forgotten. *)
FillableWithoutQuota == MinOf(cfg.topK, Len(ranked))

(* fillableCount: the places of ranked that are among the first            *)
(* maxPerFrame of their frame, and no more than topK.                      *)
fillableCount ==
    IF cfg.maxPerFrame = 0
    THEN MinOf(cfg.topK, Len(ranked))
    ELSE LET InQuota(i) == Cardinality({j \in 1..i : FrameOf(ranked[j]) = FrameOf(ranked[i])}) <= cfg.maxPerFrame
         IN  MinOf(cfg.topK, Cardinality({i \in DOMAIN ranked : InQuota(i)}))

-----------------------------------------------------------------------------
Init ==
    /\ evaluated \in UNION {[1..n -> Candidate] : n \in 0..MaxEvaluated}
    /\ cfg \in Config
    /\ pc = "rank"
    /\ ranked = <<>>
    /\ next = 1
    /\ selected = <<>>
    /\ threshold = calibrateThreshold

(* The part before the loop. *)
Rank ==
    /\ pc = "rank"
    /\ ranked' = Ranked
    /\ pc' = "fill"
    /\ UNCHANGED <<evaluated, cfg, next, selected, threshold>>

(* greedyFill has a candidate to look at. *)
Scanning == pc = "fill" /\ next <= Len(ranked) /\ Len(selected) < cfg.topK

FrameFull(n) ==
    /\ cfg.maxPerFrame > 0
    /\ Cardinality({i \in DOMAIN selected : FrameOf(selected[i]) = FrameOf(n)}) >= cfg.maxPerFrame

(* Mutant: a flight is compared with the last one taken only. *)
LooksLikeLast(n) ==
    selected # <<>> /\ ~AtLeast(Distance(n, selected[Len(selected)]), threshold)

(* Mutant: a flight is compared with every better one, taken or not. *)
LooksLikeBetter(n) == \E i \in 1..(next - 1) : ~AtLeast(Distance(n, ranked[i]), threshold)

LooksAlike(n) == \E i \in DOMAIN selected : ~AtLeast(Distance(n, selected[i]), threshold)

(* One iteration of greedyFill's loop: the candidate is taken or passed over. *)
Take ==
    /\ Scanning
    /\ ~FrameFull(ranked[next]) /\ ~LooksAlike(ranked[next])
    /\ selected' = Append(selected, ranked[next])
    /\ next' = next + 1
    /\ UNCHANGED <<evaluated, cfg, pc, ranked, threshold>>

PassOver ==
    /\ Scanning
    /\ FrameFull(ranked[next]) \/ LooksAlike(ranked[next])
    /\ next' = next + 1
    /\ UNCHANGED <<evaluated, cfg, pc, ranked, selected, threshold>>

(* The loop around greedyFill stops. *)
GoodEnough ==
    \/ Len(selected) >= fillableCount
    \/ AtLeast(<<MIN_THRESHOLD_M, 1>>, threshold)
    \/ ~cfg.relaxSimilarity

Return ==
    /\ pc = "fill" /\ ~Scanning /\ GoodEnough
    /\ selected' = BestFirst(Range(selected))
    /\ pc' = "done"
    /\ UNCHANGED <<evaluated, cfg, ranked, next, threshold>>

Halved(t) == <<t[1], 2 * t[2]>>

Relax ==
    /\ pc = "fill" /\ ~Scanning /\ ~GoodEnough
    /\ threshold' = Halved(threshold)
    /\ next' = 1
    /\ selected' = <<>>
    /\ UNCHANGED <<evaluated, cfg, pc, ranked>>

Next == Rank \/ Take \/ PassOver \/ Return \/ Relax

(* A sequential function runs to its end. *)
Spec == Init /\ [][Next]_vars /\ WF_vars(Next)

-----------------------------------------------------------------------------
(***************************************************************************)
(* Properties.                                                             *)
(***************************************************************************)

(* Types; the suite is never longer than topK. *)
TypeOK ==
    /\ evaluated \in Seq(Candidate) /\ Len(evaluated) <= MaxEvaluated
    /\ cfg \in Config
    /\ pc \in {"rank", "fill", "done"}
    /\ ranked \in Seq(DOMAIN evaluated)
    /\ next \in 1..(Len(ranked) + 1)
    /\ selected \in Seq(DOMAIN evaluated) /\ Len(selected) <= cfg.topK
    /\ threshold \in Nat \X Nat

Submitted == Range(selected)

(* A choice of tests that topK and the frame quota admit. *)
Admissible(S) ==
    /\ Cardinality(S) <= cfg.topK
    /\ \A m, n \in S : m # n => evaluated[m].layout # evaluated[n].layout
    /\ cfg.maxPerFrame > 0 =>
          \A n \in S : Cardinality({m \in S : FrameOf(m) = FrameOf(n)}) <= cfg.maxPerFrame

(* The suite is admissible, and any two of its flights are at least the   *)
(* returned threshold apart (greedyFill compares a flight with all those   *)
(* taken before it), under every order and after every relaxation.         *)
FlightsDistinct ==
    pc = "done" =>
        /\ Admissible(Submitted)
        /\ \A m, n \in Submitted : m # n => AtLeast(Distance(m, n), threshold)

(* A test that scores is left out only for a reason that still stands when *)
(* the suite is returned: a full suite, or better tests (the kept gate     *)
(* counting as the best) that have its layout, fill its frame or fly alike. *)
LeftOutForAReason ==
    pc = "done" /\ Len(selected) < cfg.topK =>
        \A n \in Scoring \ Submitted :
            \/ \E m \in Scoring : evaluated[m].layout = evaluated[n].layout /\ RanksBefore(m, n)
            \/ FrameFull(n)
            \/ \E m \in Submitted :
                  /\ RanksBefore(m, n) \/ (cfg.keepBestGate /\ evaluated[m].layout \in Gate)
                  /\ ~AtLeast(Distance(m, n), threshold)

(* The best test is always submitted; with keepBestGate the best gate is,  *)
(* also when the walls that outscore it would fill the suite.              *)
BestSubmitted ==
    pc = "done" =>
        LET leads == IF cfg.keepBestGate /\ \E n \in Scoring : evaluated[n].layout \in Gate
                     THEN {n \in Scoring : evaluated[n].layout \in Gate}
                     ELSE Scoring
        IN  \A n \in leads : (\A m \in leads \ {n} : RanksBefore(n, m)) => n \in Submitted

(* With relaxation, and flights no two of which are exact look-alikes, the *)
(* suite is as large as topK and the quota allow: fillableCount does not   *)
(* make the loop stop early.                                               *)
FilledWhenPossible ==
    (/\ pc = "done" /\ cfg.relaxSimilarity
     /\ \A m, n \in Scoring : m # n => AtLeast(Distance(m, n), <<MIN_THRESHOLD_M, 1>>))
    => \A S \in SUBSET Scoring : Admissible(S) => Cardinality(S) <= Len(selected)

(* The threshold is given up only for look-alikes: if it was relaxed, two  *)
(* tests that score are closer than the threshold before the last halving. *)
(* A quota that leaves the suite short does not relax it.                  *)
RelaxedForLookAlikes ==
    pc = "done" /\ threshold # calibrateThreshold =>
        \E m, n \in BestOfLayouts :
            m # n /\ ~AtLeast(Distance(m, n), <<2 * threshold[1], threshold[2]>>)

(* selectSuite relaxes the threshold as far as a full suite takes, and     *)
(* only where look-alikes make it necessary.                               *)
RelaxedAsNeeded == FilledWhenPossible /\ RelaxedForLookAlikes

(* Relaxation ends: selectSuite returns for every input, flights that are  *)
(* equal to the last digit included.                                       *)
Returns == <>(pc = "done")

(* README.md: "no two submitted flights are closer than the simulator's    *)
(* own rerun spread".  Relaxation submits them to fill the suite.          *)
FlightsToldApart ==
    pc = "done" => \A m, n \in Submitted : m # n => AtLeast(Distance(m, n), calibrateThreshold)
=============================================================================
