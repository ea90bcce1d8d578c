----------------------------- MODULE SuiteProofs -----------------------------
(***************************************************************************)
(* Theorems about the selection of the suite, for any list of evaluated    *)
(* individuals, any configuration and any thresholds.                      *)
(***************************************************************************)
EXTENDS Suite, FiniteSetTheorems, TLAPS

USE ConfigAssumption, BoundAssumption, ThresholdAssumption, CandidateAssumption

(* The argument is a list of candidates; the list that is walked is made   *)
(* of it once; a threshold is a fraction.                                  *)
InputInv ==
    /\ evaluated \in Seq(Candidate) /\ Len(evaluated) <= MaxEvaluated
    /\ cfg \in Config
    /\ pc \in {"rank", "fill", "done"}
    /\ ranked = IF pc = "rank" THEN <<>> ELSE Ranked
    /\ threshold \in Nat \X (Nat \ {0})
    /\ next \in 1..(Len(ranked) + 1)

(* What is taken in a pass is among what has been looked at, each once. *)
TakenInv ==
    /\ selected \in Seq(DOMAIN evaluated) /\ Len(selected) <= cfg.topK
    /\ \A i, j \in DOMAIN selected : selected[i] = selected[j] => i = j
    /\ \A n \in Submitted : \E i \in 1..(next - 1) : ranked[i] = n

OfFrame(S, n) == {m \in S : FrameOf(m) = FrameOf(n)}

(* The frame quota holds, and the flights are the threshold apart. *)
QuotaInv ==
    cfg.maxPerFrame > 0 =>
        \A n \in DOMAIN evaluated : Cardinality(OfFrame(Submitted, n)) <= cfg.maxPerFrame
ApartInv == \A m, n \in Submitted : m # n => AtLeast(Distance(m, n), threshold)

(* What has been passed over is still to be passed over: its frame is full *)
(* or something before it that was taken flies alike.                      *)
Full(n) == cfg.maxPerFrame > 0 /\ Cardinality(OfFrame(Submitted, n)) >= cfg.maxPerFrame
ReasonInv ==
    \A i \in 1..(next - 1) :
        \/ ranked[i] \in Submitted
        \/ Full(ranked[i])
        \/ \E k \in 1..(i - 1) : ranked[k] \in Submitted /\ ~AtLeast(Distance(ranked[i], ranked[k]), threshold)

(* The head of the list is never passed over. *)
HeadInv == next > 1 => ranked[1] \in Submitted

(* The places up to k that the quota has room for. *)
SameFrame(i, k) == {j \in 1..k : FrameOf(ranked[j]) = FrameOf(ranked[i])}
InQuota(i) == cfg.maxPerFrame > 0 => Cardinality(SameFrame(i, i)) <= cfg.maxPerFrame
Places(k) == {i \in 1..k : InQuota(i)}

(* Without look-alikes a pass takes exactly those. *)
NoLookAlikes(t) == \A m, n \in BestOfLayouts : m # n => AtLeast(Distance(m, n), t)
WalkInv ==
    NoLookAlikes(threshold) => Submitted = {ranked[i] : i \in Places(next - 1)}

(* The threshold has been halved for look-alikes only. *)
Doubled(t) == <<2 * t[1], t[2]>>
HalvedInv == threshold = calibrateThreshold \/ ~NoLookAlikes(Doubled(threshold))

(* When selectSuite returns, the last pass is over and good enough. *)
DoneInv ==
    pc = "done" => (Len(selected) >= cfg.topK \/ next > Len(ranked)) /\ GoodEnough

(* The inductive invariant. *)
IInv ==
    /\ InputInv /\ TakenInv /\ QuotaInv /\ ApartInv /\ ReasonInv /\ HeadInv
    /\ WalkInv /\ HalvedInv /\ DoneInv

-----------------------------------------------------------------------------
(* The order of officialRank, and the lists sorted by it. *)

Entries == DOMAIN evaluated

LEMMA CandidateFacts ==
    ASSUME evaluated \in Seq(Candidate)
    PROVE  /\ IsFiniteSet(Entries) /\ Entries \subseteq Nat
           /\ \A n \in Entries : /\ evaluated[n] \in Candidate
                                   /\ evaluated[n].score \in Int /\ evaluated[n].distance \in Int
<1>1. Entries = 1..Len(evaluated) /\ Len(evaluated) \in Nat
      /\ \A n \in Entries : evaluated[n] \in Candidate
    BY DEF Entries
<1>2. IsFiniteSet(Entries)
    BY <1>1, FS_Interval
<1> QED BY <1>1, <1>2

(* officialRank with the position as the last criterion is a strict total  *)
(* order.                                                                  *)
LEMMA RanksTotally ==
    ASSUME evaluated \in Seq(Candidate)
    PROVE  /\ \A n \in Entries : ~RanksBefore(n, n)
           /\ \A m, n \in Entries : m # n => RanksBefore(m, n) \/ RanksBefore(n, m)
           /\ \A m, n \in Entries : RanksBefore(m, n) => ~RanksBefore(n, m)
           /\ \A k, m, n \in Entries : RanksBefore(k, m) /\ RanksBefore(m, n) => RanksBefore(k, n)
<1>1. \A n \in Entries : n \in Nat /\ evaluated[n].score \in Int /\ evaluated[n].distance \in Int
    BY CandidateFacts
<1>2. \A n \in Entries : ~RanksBefore(n, n)
    BY <1>1 DEF RanksBefore
<1>3. \A m, n \in Entries : m # n => RanksBefore(m, n) \/ RanksBefore(n, m)
    BY <1>1 DEF RanksBefore
<1>4. \A m, n \in Entries : RanksBefore(m, n) => ~RanksBefore(n, m)
    BY <1>1 DEF RanksBefore
<1>5. \A k, m, n \in Entries : RanksBefore(k, m) /\ RanksBefore(m, n) => RanksBefore(k, n)
    <2> SUFFICES ASSUME NEW k \in Entries, NEW m \in Entries, NEW n \in Entries,
                        RanksBefore(k, m), RanksBefore(m, n)
                 PROVE  RanksBefore(k, n)
        OBVIOUS
    <2> DEFINE a == evaluated[k].score
               b == evaluated[m].score
               c == evaluated[n].score
               x == evaluated[k].distance
               y == evaluated[m].distance
               z == evaluated[n].distance
    <2>1. a \in Int /\ b \in Int /\ c \in Int /\ x \in Int /\ y \in Int /\ z \in Int
        BY <1>1
    <2>2. /\ a > b \/ (a = b /\ x < y) \/ (a = b /\ x = y /\ k < m)
          /\ b > c \/ (b = c /\ y < z) \/ (b = c /\ y = z /\ m < n)
        BY DEF RanksBefore
    <2>3. k \in Nat /\ m \in Nat /\ n \in Nat
        BY <1>1
    <2>4. RanksBefore(k, n) <=> a > c \/ (a = c /\ x < z) \/ (a = c /\ x = z /\ k < n)
        BY DEF RanksBefore
    <2> HIDE DEF a, b, c, x, y, z
    <2> QED BY <2>1, <2>2, <2>3, <2>4
<1> QED BY <1>2, <1>3, <1>4, <1>5

(* How many of S rank before n. *)
Better(S, n) == {m \in S : RanksBefore(m, n)}

LEMMA BetterCounts ==
    ASSUME evaluated \in Seq(Candidate), NEW S \in SUBSET Entries
    PROVE  /\ IsFiniteSet(S) /\ Cardinality(S) \in Nat
           /\ \A n \in S : Cardinality(Better(S, n)) \in 0..(Cardinality(S) - 1)
           /\ \A m, n \in S : RanksBefore(m, n) => Cardinality(Better(S, m)) < Cardinality(Better(S, n))
<1>1. IsFiniteSet(S) /\ Cardinality(S) \in Nat
    BY CandidateFacts, FS_Subset, FS_CardinalityType
<1>2. \A n \in S : IsFiniteSet(Better(S, n)) /\ Cardinality(Better(S, n)) \in Nat
    <2> TAKE n \in S
    <2>1. Better(S, n) \in SUBSET S
        BY DEF Better
    <2> QED BY <2>1, <1>1, FS_Subset, FS_CardinalityType
<1>3. ASSUME NEW n \in S PROVE Cardinality(Better(S, n)) \in 0..(Cardinality(S) - 1)
    <2>1. Better(S, n) \in SUBSET (S \ {n})
        BY RanksTotally DEF Better
    <2>2. IsFiniteSet(S \ {n}) /\ Cardinality(S \ {n}) = Cardinality(S) - 1
        BY <1>1, FS_RemoveElement
    <2>3. Cardinality(Better(S, n)) <= Cardinality(S \ {n})
        BY <2>1, <2>2, FS_Subset
    <2> QED BY <2>2, <2>3, <1>1, <1>2
<1>4. ASSUME NEW m \in S, NEW n \in S, RanksBefore(m, n)
      PROVE  Cardinality(Better(S, m)) < Cardinality(Better(S, n))
    <2>1. m \in Better(S, n) /\ Better(S, m) \in SUBSET (Better(S, n) \ {m})
        BY <1>4, RanksTotally DEF Better
    <2>2. IsFiniteSet(Better(S, n) \ {m})
          /\ Cardinality(Better(S, n) \ {m}) = Cardinality(Better(S, n)) - 1
        BY <2>1, <1>2, FS_RemoveElement
    <2>3. Cardinality(Better(S, m)) <= Cardinality(Better(S, n) \ {m})
        BY <2>1, <2>2, FS_Subset
    <2> QED BY <2>2, <2>3, <1>2
<1> QED BY <1>1, <1>3, <1>4

(* A list of all the elements of S, each once. *)
Lists(s, S) ==
    /\ s \in Seq(S) /\ Len(s) = Cardinality(S)
    /\ \A i, j \in DOMAIN s : s[i] = s[j] => i = j
    /\ \A n \in S : \E i \in DOMAIN s : s[i] = n

(* sorted returns its argument in the order of officialRank. *)
LEMMA SortedList ==
    ASSUME evaluated \in Seq(Candidate), NEW S \in SUBSET Entries
    PROVE  /\ Lists(BestFirst(S), S)
           /\ \A i, j \in DOMAIN BestFirst(S) :
                 i < j => RanksBefore(BestFirst(S)[i], BestFirst(S)[j])
<1> DEFINE c == Cardinality(S)
           f == [n \in S |-> Cardinality(Better(S, n)) + 1]
           s == BestFirst(S)
<1>1. c \in Nat /\ IsFiniteSet(S)
    BY BetterCounts
<1>2. \A n \in S : Cardinality(Better(S, n)) \in 0..(c - 1)
    BY BetterCounts
<1>3. \A m, n \in S : Cardinality(Better(S, m)) = Cardinality(Better(S, n)) => m = n
    <2> SUFFICES ASSUME NEW m \in S, NEW n \in S,
                        Cardinality(Better(S, m)) = Cardinality(Better(S, n)), m # n
                 PROVE  FALSE
        OBVIOUS
    <2>1. RanksBefore(m, n) \/ RanksBefore(n, m)
        BY RanksTotally
    <2> QED BY <2>1, <1>1, <1>2, BetterCounts
<1>4. f \in Injection(S, 1..c)
    <2>1. f \in [S -> 1..c]
        BY <1>1, <1>2
    <2>2. \A m, n \in S : f[m] = f[n] => m = n
        BY <1>1, <1>2, <1>3
    <2> QED BY <2>1, <2>2 DEF Injection, IsInjective
<1>5. f \in Surjection(S, 1..c)
    <2>1. IsFiniteSet(1..c) /\ Cardinality(1..c) = c
        BY <1>1, FS_Interval
    <2> QED BY <2>1, <1>4, FS_Injection
<1>6. \A r \in 1..c : \E n \in S : Cardinality(Better(S, n)) = r - 1
    <2> TAKE r \in 1..c
    <2>1. PICK n \in S : f[n] = r
        BY <1>5 DEF Surjection
    <2> QED BY <2>1, <1>1, <1>2
<1>7. s = [r \in 1..c |-> CHOOSE n \in S : Cardinality(Better(S, n)) = r - 1]
    BY DEF BestFirst, Better
<1> HIDE DEF c, f, s
<1>8. \A r \in 1..c : s[r] \in S /\ Cardinality(Better(S, s[r])) = r - 1
    BY <1>6, <1>7
<1>9. s \in Seq(S) /\ DOMAIN s = 1..c /\ Len(s) = c
    BY <1>1, <1>7, <1>8
<1>10. \A i, j \in DOMAIN s : s[i] = s[j] => i = j
    BY <1>1, <1>8, <1>9
<1>11. \A n \in S : \E i \in DOMAIN s : s[i] = n
    <2> TAKE n \in S
    <2> DEFINE r == Cardinality(Better(S, n)) + 1
    <2>1. r \in 1..c
        BY <1>1, <1>2
    <2>2. s[r] \in S /\ Cardinality(Better(S, s[r])) = Cardinality(Better(S, n))
        BY <2>1, <1>8, <1>2, <1>1
    <2> QED BY <2>1, <2>2, <1>3, <1>9
<1>12. \A i, j \in DOMAIN s : i < j => RanksBefore(s[i], s[j])
    <2> SUFFICES ASSUME NEW i \in 1..c, NEW j \in 1..c, i < j, ~RanksBefore(s[i], s[j])
                 PROVE  FALSE
        BY <1>9
    <2>1. s[i] # s[j]
        <3>1. i \in DOMAIN s /\ j \in DOMAIN s /\ i # j
            BY <1>1, <1>9
        <3> QED BY <3>1, <1>10
    <2>2. RanksBefore(s[j], s[i])
        BY <2>1, <1>8, RanksTotally
    <2>3. Cardinality(Better(S, s[j])) < Cardinality(Better(S, s[i]))
        BY <2>2, <1>8, BetterCounts
    <2> QED BY <2>3, <1>8, <1>1
<1> QED BY <1>9, <1>10, <1>11, <1>12 DEF Lists, c, s

(* A set of numbers that is not empty has a least element. *)
LEMMA LeastNumber ==
    ASSUME NEW T \in SUBSET Nat, T # {}
    PROVE  \E n \in T : \A m \in T : n <= m
<1>1. PICK n \in T : \A m \in T : ~(<<m, n>> \in OpToRel(<, Nat))
    BY NatLessThanWellFounded, WFMin
<1>2. \A m \in T : ~(m < n)
    BY <1>1 DEF OpToRel
<1> QED BY <1>2

(* Moving an element to the front keeps the elements and the order of the  *)
(* others.                                                                 *)
Moved(s, g) == [i \in DOMAIN s |-> IF i = 1 THEN s[g] ELSE IF i <= g THEN s[i - 1] ELSE s[i]]

LEMMA MoveToFront ==
    ASSUME NEW S, NEW s, Lists(s, S), NEW g \in DOMAIN s, NEW t, t = Moved(s, g)
    PROVE  /\ Lists(t, S) /\ DOMAIN t = DOMAIN s /\ t[1] = s[g]
           /\ \A i, j \in DOMAIN t : 1 < i /\ i < j =>
                 \E k, l \in DOMAIN s : k < l /\ t[i] = s[k] /\ t[j] = s[l]
<1> DEFINE p(i) == IF i = 1 THEN g ELSE IF i <= g THEN i - 1 ELSE i
           q(k) == IF k = g THEN 1 ELSE IF k < g THEN k + 1 ELSE k
<1>1. /\ s \in Seq(S) /\ Len(s) \in Nat /\ DOMAIN s = 1..Len(s)
      /\ \A i \in DOMAIN s : s[i] \in S
    BY DEF Lists
<1>2. \A i \in DOMAIN s : p(i) \in DOMAIN s /\ t[i] = s[p(i)]
    BY <1>1 DEF Moved
<1>3. \A i, j \in DOMAIN s : p(i) = p(j) => i = j
    BY <1>1
<1>4. \A k \in DOMAIN s : q(k) \in DOMAIN s /\ p(q(k)) = k
    BY <1>1
<1>5. \A i, j \in DOMAIN s : 1 < i /\ i < j => p(i) < p(j)
    BY <1>1
<1>6. p(1) = g /\ 1 \in DOMAIN s /\ DOMAIN t = DOMAIN s
    BY <1>1 DEF Moved
<1> HIDE DEF p, q
<1>7. t \in Seq(S) /\ Len(t) = Len(s)
    <2>1. \A i \in 1..Len(s) : t[i] \in S
        BY <1>1, <1>2
    <2>2. t = [i \in 1..Len(s) |-> t[i]]
        BY <1>1 DEF Moved
    <2> QED BY <2>1, <2>2, <1>1
<1>8. \A i, j \in DOMAIN t : t[i] = t[j] => i = j
    BY <1>2, <1>3, <1>6 DEF Lists
<1>9. \A n \in S : \E i \in DOMAIN t : t[i] = n
    <2> TAKE n \in S
    <2>1. PICK k \in DOMAIN s : s[k] = n
        BY DEF Lists
    <2>2. q(k) \in DOMAIN s /\ p(q(k)) = k
        BY <1>4
    <2>3. t[q(k)] = s[p(q(k))]
        BY <2>2, <1>2
    <2> QED BY <2>1, <2>2, <2>3, <1>6
<1>10. \A i, j \in DOMAIN t : 1 < i /\ i < j =>
          \E k, l \in DOMAIN s : k < l /\ t[i] = s[k] /\ t[j] = s[l]
    BY <1>2, <1>5, <1>6
<1>11. Lists(t, S)
    BY <1>7, <1>8, <1>9 DEF Lists
<1> QED BY <1>2, <1>6, <1>10, <1>11

-----------------------------------------------------------------------------
(* The list that is walked. *)

IsGate(n) == evaluated[n].layout \in Gate

LEMMA FirstGateFacts ==
    ASSUME NEW S, NEW s \in Seq(S), Gates(s) # {}
    PROVE  FirstGate(s) \in Gates(s) /\ \A i \in Gates(s) : FirstGate(s) <= i
<1>1. Gates(s) \in SUBSET Nat
    BY DEF Gates
<1>2. \E g \in Gates(s) : \A i \in Gates(s) : g <= i
    BY <1>1, LeastNumber
<1> QED BY <1>2 DEF FirstGate

(* The list holds the best of each layout once, in the order of their      *)
(* rank, but for a gate at the head under keepBestGate.                    *)
LEMMA WalkedList ==
    ASSUME evaluated \in Seq(Candidate)
    PROVE  /\ Lists(Ranked, BestOfLayouts)
           /\ \A i, j \in DOMAIN Ranked : i < j =>
                 \/ RanksBefore(Ranked[i], Ranked[j])
                 \/ i = 1 /\ cfg.keepBestGate /\ IsGate(Ranked[1])
           /\ \A n \in BestOfLayouts :
                 IF cfg.keepBestGate /\ \E m \in BestOfLayouts : IsGate(m)
                 THEN IsGate(n) /\ (\A m \in BestOfLayouts \ {n} : IsGate(m) => RanksBefore(n, m))
                      => Ranked[1] = n
                 ELSE (\A m \in BestOfLayouts \ {n} : RanksBefore(n, m)) => Ranked[1] = n
<1> DEFINE S == BestOfLayouts
           s == BestFirst(S)
           t == Ranked
<1>1. S \in SUBSET Entries
    BY DEF BestOfLayouts, Scoring, Entries
<1>2. Lists(s, S) /\ \A i, j \in DOMAIN s : i < j => RanksBefore(s[i], s[j])
    BY <1>1, SortedList
<1>3. /\ s \in Seq(S) /\ DOMAIN s = 1..Len(s) /\ Len(s) \in Nat
      /\ \A i \in DOMAIN s : s[i] \in S /\ s[i] \in Entries
      /\ \A n \in S : \E i \in DOMAIN s : s[i] = n
    BY <1>1, <1>2 DEF Lists
<1>4. t = IF cfg.keepBestGate /\ Gates(s) # {} THEN GateFirst(s) ELSE s
    BY DEF Ranked
<1>5. Gates(s) = {i \in DOMAIN s : IsGate(s[i])}
    BY DEF Gates, IsGate
<1>6. Gates(s) # {} <=> \E m \in S : IsGate(m)
    BY <1>3, <1>5
<1> HIDE DEF S, s, t
<1>7. CASE cfg.keepBestGate /\ Gates(s) # {}
    <2> DEFINE g == FirstGate(s)
    <2>1. g \in Gates(s) /\ (\A i \in Gates(s) : g <= i) /\ g \in DOMAIN s /\ IsGate(s[g])
        BY <1>3, <1>5, <1>7, FirstGateFacts
    <2>2. t = Moved(s, g)
        BY <1>4, <1>7 DEF GateFirst, Moved
    <2> HIDE DEF g
    <2>3. /\ Lists(t, S) /\ DOMAIN t = DOMAIN s /\ t[1] = s[g]
          /\ \A i, j \in DOMAIN t : 1 < i /\ i < j =>
                \E k, l \in DOMAIN s : k < l /\ t[i] = s[k] /\ t[j] = s[l]
        BY <2>1, <2>2, <1>2, MoveToFront
    <2>4. ASSUME NEW i \in DOMAIN t, NEW j \in DOMAIN t, i < j
          PROVE  RanksBefore(t[i], t[j]) \/ (i = 1 /\ cfg.keepBestGate /\ IsGate(t[1]))
        <3>1. CASE i = 1
            BY <3>1, <2>1, <2>3, <1>7
        <3>2. CASE i # 1
            <4>1. 1 < i
                BY <3>2, <2>3, <1>3
            <4> QED BY <4>1, <2>3, <2>4, <1>2
        <3> QED BY <3>1, <3>2
    <2>5. ASSUME NEW n \in S, IsGate(n), \A m \in S \ {n} : IsGate(m) => RanksBefore(n, m)
          PROVE  t[1] = n
        <3>1. PICK i \in DOMAIN s : s[i] = n
            BY <1>3
        <3>2. g <= i
            BY <3>1, <2>1, <2>5, <1>5
        <3>3. CASE g = i
            BY <3>1, <3>3, <2>3
        <3>4. CASE g # i
            <4>1. RanksBefore(s[g], n)
                BY <3>1, <3>2, <3>4, <2>1, <1>2, <1>3
            <4>2. s[g] # n
                BY <4>1, <1>3, <2>1, RanksTotally
            <4>3. RanksBefore(n, s[g])
                BY <4>2, <2>1, <2>5, <1>3
            <4> QED BY <4>1, <4>3, <3>1, <2>1, <1>3, RanksTotally
        <3> QED BY <3>3, <3>4
    <2> QED BY <2>3, <2>4, <2>5, <1>6, <1>7 DEF t, S
<1>8. CASE ~(cfg.keepBestGate /\ Gates(s) # {})
    <2>1. t = s
        BY <1>4, <1>8
    <2>2. ASSUME NEW n \in S, \A m \in S \ {n} : RanksBefore(n, m)
          PROVE  s[1] = n
        <3>1. PICK i \in DOMAIN s : s[i] = n
            BY <1>3
        <3>2. 1 \in DOMAIN s /\ (i = 1 \/ 1 < i)
            BY <3>1, <1>3
        <3>3. CASE 1 < i
            <4>1. RanksBefore(s[1], n)
                BY <3>1, <3>2, <3>3, <1>2
            <4>2. s[1] # n
                BY <4>1, <3>2, <1>3, RanksTotally
            <4>3. RanksBefore(n, s[1])
                BY <4>2, <3>2, <2>2, <1>3
            <4> QED BY <4>1, <4>3, <3>1, <3>2, <1>3, RanksTotally
        <3> QED BY <3>1, <3>2, <3>3
    <2> QED BY <2>1, <2>2, <1>2, <1>6, <1>8 DEF t, S
<1> QED BY <1>7, <1>8

-----------------------------------------------------------------------------
(* Distances and thresholds. *)

(* How far two flights are apart does not depend on which comes first. *)
LEMMA DistanceFacts ==
    ASSUME evaluated \in Seq(Candidate), NEW m \in Entries, NEW n \in Entries
    PROVE  Distance(m, n) \in Nat \X Nat /\ Distance(m, n) = Distance(n, m)
<1> DEFINE a == Total(evaluated[m].trajectories)
           b == Len(evaluated[m].trajectories)
           c == Total(evaluated[n].trajectories)
           d == Len(evaluated[n].trajectories)
<1>1. a \in Int /\ b \in Nat /\ c \in Int /\ d \in Nat
    BY CandidateFacts
<1>2. /\ Distance(m, n) = IF b = 0 \/ d = 0 THEN <<1, 0>> ELSE <<Gap(a * d, c * b), b * d>>
      /\ Distance(n, m) = IF d = 0 \/ b = 0 THEN <<1, 0>> ELSE <<Gap(c * b, a * d), d * b>>
    BY DEF Distance, trajectoryDistance, meanTrajectory
<1> HIDE DEF a, b, c, d
<1>3. a * d \in Int /\ c * b \in Int /\ b * d \in Nat /\ b * d = d * b
    BY <1>1
<1>4. Gap(a * d, c * b) \in Nat /\ Gap(a * d, c * b) = Gap(c * b, a * d)
    BY <1>3 DEF Gap
<1> DEFINE g == Gap(a * d, c * b)
           e == b * d
<1>5. /\ Distance(m, n) = IF b = 0 \/ d = 0 THEN <<1, 0>> ELSE <<g, e>>
      /\ Distance(n, m) = IF d = 0 \/ b = 0 THEN <<1, 0>> ELSE <<g, e>>
    BY <1>2, <1>3, <1>4, Zenon
<1>6. g \in Nat /\ e \in Nat
    BY <1>3, <1>4
<1> HIDE DEF g, e
<1>7. CASE b = 0 \/ d = 0
    BY <1>5, <1>7
<1>8. CASE ~(b = 0 \/ d = 0)
    BY <1>5, <1>6, <1>8
<1> QED BY <1>7, <1>8

(* A flight far enough for the least threshold is for a smaller one. *)
LEMMA FartherStill ==
    ASSUME NEW p \in Nat \X Nat, NEW t \in Nat \X (Nat \ {0}),
           AtLeast(p, <<MIN_THRESHOLD_M, 1>>), AtLeast(<<MIN_THRESHOLD_M, 1>>, t)
    PROVE  AtLeast(p, t)
<1> DEFINE a == p[1]
           b == p[2]
           c == t[1]
           d == t[2]
           e == MIN_THRESHOLD_M
<1>1. a \in Nat /\ b \in Nat /\ c \in Nat /\ d \in Nat /\ e \in Nat
    OBVIOUS
<1>2. a >= e * b /\ e * d >= c
    BY <1>1 DEF AtLeast
<1> HIDE DEF a, b, c, d, e
<1>3. a * d >= (e * b) * d
    BY <1>1, <1>2
<1>4. (e * d) * b >= c * b
    BY <1>1, <1>2
<1>5. (e * b) * d = (e * d) * b
    BY <1>1
<1>6. a * d \in Nat /\ c * b \in Nat /\ (e * b) * d \in Nat
    BY <1>1
<1>7. a * d >= c * b
    BY <1>3, <1>4, <1>5, <1>6
<1> QED BY <1>7 DEF AtLeast, a, b, c, d

(* Halving and doubling a threshold cancel. *)
LEMMA HalvedAndDoubled ==
    ASSUME NEW p \in Nat \X Nat, NEW t \in Nat \X (Nat \ {0})
    PROVE  AtLeast(p, Doubled(Halved(t))) <=> AtLeast(p, t)
<1> DEFINE a == p[1]
           b == p[2]
           c == t[1]
           d == t[2]
<1>1. a \in Nat /\ b \in Nat /\ c \in Nat /\ d \in Nat
    OBVIOUS
<1>2. AtLeast(p, Doubled(Halved(t))) <=> a * (2 * d) >= (2 * c) * b
    BY DEF AtLeast, Doubled, Halved
<1>3. AtLeast(p, t) <=> a * d >= c * b
    BY DEF AtLeast
<1> HIDE DEF a, b, c, d
<1>4. a * (2 * d) = 2 * (a * d) /\ (2 * c) * b = 2 * (c * b) /\ a * d \in Nat /\ c * b \in Nat
    BY <1>1
<1> QED BY <1>2, <1>3, <1>4

(* A finite set of numbers has an upper bound. *)
LEMMA UpperBound ==
    ASSUME NEW V \in SUBSET Nat, IsFiniteSet(V)
    PROVE  \E u \in Nat : \A v \in V : v <= u
<1>0. PICK n \in Nat : ExistsSurjection(1..n, V)
    BY FS_NatSurjection
<1>1. PICK f \in [1..n -> V] : \A v \in V : \E i \in 1..n : f[i] = v
    BY <1>0 DEF ExistsSurjection, Surjection
<1> DEFINE Bounded(k) == \E u \in Nat : \A i \in 1..k : f[i] <= u
           T == {k \in 0..n : ~Bounded(k)}
<1>2. \A i \in 1..n : f[i] \in Nat
    OBVIOUS
<1>3. ASSUME NEW k \in 1..n, Bounded(k - 1) PROVE Bounded(k)
    <2>1. PICK u \in Nat : \A i \in 1..(k - 1) : f[i] <= u
        BY <1>3
    <2> DEFINE w == u + f[k]
    <2>2. w \in Nat
        BY <1>2
    <2>3. ASSUME NEW i \in 1..k PROVE f[i] <= w
        <3>1. f[i] \in Nat /\ f[k] \in Nat /\ (i \in 1..(k - 1) \/ i = k)
            BY <1>2
        <3> QED BY <3>1, <2>1
    <2> QED BY <2>2, <2>3
<1>4. Bounded(0)
    <2>1. \A i \in 1..0 : f[i] <= 0
        OBVIOUS
    <2> QED BY <2>1
<1>5. T \in SUBSET Nat /\ \A k \in 0..n : k \in T <=> ~Bounded(k)
    OBVIOUS
<1>6. T \subseteq 0..n
    OBVIOUS
<1>7. Bounded(n) => \E u \in Nat : \A v \in V : v <= u
    BY <1>1
<1> HIDE DEF T, Bounded
<1>8. T = {}
    <2> SUFFICES ASSUME T # {} PROVE FALSE
        OBVIOUS
    <2>1. PICK k \in T : \A j \in T : k <= j
        BY <1>5, LeastNumber
    <2>2. k \in 1..n
        BY <1>4, <1>5, <1>6
    <2>3. k - 1 \in 0..n /\ k - 1 \notin T
        BY <2>1, <2>2
    <2> QED BY <2>1, <2>2, <2>3, <1>3, <1>5, <1>6
<1> QED BY <1>5, <1>7, <1>8

(* The runs that are compared are finitely many, and their spread is a     *)
(* length.                                                                 *)
LEMMA RerunFacts ==
    ASSUME evaluated \in Seq(Candidate)
    PROVE  IsFiniteSet(Reruns) /\ \A p \in Reruns : Spread(p) \in Nat
<1> DEFINE runs(n) == evaluated[n].trajectories
           f == [n \in Entries |-> Len(runs(n))]
           L == {Len(runs(n)) : n \in Entries}
<1>1. \A n \in Entries : runs(n) \in Seq(Int) /\ Len(runs(n)) \in Nat /\ DOMAIN runs(n) = 1..Len(runs(n))
    BY CandidateFacts
<1>2. IsFiniteSet(L)
    <2>1. f \in Surjection(Entries, L)
        BY DEF Surjection
    <2> QED BY <2>1, CandidateFacts, FS_Surjection
<1>3. PICK u \in Nat : \A v \in L : v <= u
    <2>1. L \in SUBSET Nat
        BY <1>1
    <2> QED BY <2>1, <1>2, UpperBound
<1>4. \A p \in RunPairs : \E n \in Entries : \E i, j \in DOMAIN runs(n) : p = <<n, i, j>>
    BY DEF RunPairs, Entries
<1>5. \A p \in RunPairs : /\ p[1] \in Entries /\ p[2] \in 1..u /\ p[3] \in 1..u
                          /\ p[2] \in DOMAIN runs(p[1]) /\ p[3] \in DOMAIN runs(p[1])
                          /\ p = <<p[1], p[2], p[3]>>
    <2> TAKE p \in RunPairs
    <2>1. PICK n \in Entries : \E i, j \in DOMAIN runs(n) : p = <<n, i, j>>
        BY <1>4
    <2>2. PICK i \in DOMAIN runs(n), j \in DOMAIN runs(n) : p = <<n, i, j>>
        BY <2>1
    <2>3. Len(runs(n)) <= u /\ Len(runs(n)) \in Nat /\ DOMAIN runs(n) = 1..Len(runs(n))
        BY <1>1, <1>3
    <2>4. i \in 1..u /\ j \in 1..u
        BY <2>3
    <2> QED BY <2>2, <2>4
<1>6. IsFiniteSet(Reruns)
    <2> DEFINE T == (Entries \X (1..u)) \X (1..u)
               g == [p \in RunPairs |-> <<<<p[1], p[2]>>, p[3]>>]
    <2>1. IsFiniteSet(T)
        <3>1. IsFiniteSet(Entries) /\ IsFiniteSet(1..u)
            BY CandidateFacts, FS_Interval
        <3>2. IsFiniteSet(Entries \X (1..u))
            BY <3>1, FS_Product
        <3> QED BY <3>1, <3>2, FS_Product
    <2>2. g \in [RunPairs -> T]
        BY <1>5
    <2>3. \A p, q \in RunPairs : g[p] = g[q] => p = q
        BY <1>5
    <2> HIDE DEF T, g
    <2>4. g \in Injection(RunPairs, T)
        BY <2>2, <2>3 DEF Injection, IsInjective
    <2>5. IsFiniteSet(RunPairs)
        BY <2>1, <2>4, FS_Injection
    <2> QED BY <2>5, FS_Subset DEF Reruns
<1>7. \A p \in Reruns : Spread(p) \in Nat
    <2> TAKE p \in Reruns
    <2>1. /\ runs(p[1]) \in Seq(Int)
          /\ p[2] \in DOMAIN runs(p[1]) /\ p[3] \in DOMAIN runs(p[1])
        BY <1>1, <1>5 DEF Reruns
    <2> DEFINE a == runs(p[1])[p[2]]
               b == runs(p[1])[p[3]]
    <2>2. a \in Int /\ b \in Int
        <3>1. \A r \in Seq(Int) : \A i \in DOMAIN r : r[i] \in Int
            OBVIOUS
        <3> QED BY <2>1, <3>1
    <2>3. Spread(p) = Gap(a, b)
        BY DEF Spread
    <2> HIDE DEF a, b
    <2> QED BY <2>2, <2>3 DEF Gap
<1> QED BY <1>6, <1>7

(* There is a spread of every rank. *)
LEMMA SpreadOfEveryRank ==
    ASSUME evaluated \in Seq(Candidate), NEW k \in 1..Cardinality(Reruns)
    PROVE  SpreadOfRank(k) \in Nat
<1> DEFINE Below(v) == {p \in Reruns : Spread(p) <= v}
           Under(v) == {p \in Reruns : Spread(p) < v}
           V == {Spread(p) : p \in Reruns}
           f == [p \in Reruns |-> Spread(p)]
           T == {v \in Nat : Cardinality(Below(v)) >= k}
<1>1. IsFiniteSet(Reruns) /\ (\A p \in Reruns : Spread(p) \in Nat) /\ V \in SUBSET Nat
    BY RerunFacts
<1>2. IsFiniteSet(V)
    <2>1. f \in Surjection(Reruns, V)
        BY DEF Surjection
    <2> QED BY <2>1, <1>1, FS_Surjection
<1>3. PICK u \in Nat : \A v \in V : v <= u
    BY <1>1, <1>2, UpperBound
<1>4. Cardinality(Reruns) \in Nat /\ k \in Nat /\ k # 0 /\ k <= Cardinality(Reruns)
    BY <1>1, FS_CardinalityType
<1>5. Below(u) = Reruns
    BY <1>3
<1>6. \A w \in Nat : Cardinality(Below(w)) \in Nat
    <2> TAKE w \in Nat
    <2>1. Below(w) \in SUBSET Reruns
        OBVIOUS
    <2> QED BY <2>1, <1>1, FS_Subset, FS_CardinalityType
<1>7. Under(0) = {}
    BY <1>1
<1>8. \A v \in Nat \ {0} : Under(v) = Below(v - 1)
    <2> TAKE v \in Nat \ {0}
    <2>1. \A p \in Reruns : Spread(p) < v <=> Spread(p) <= v - 1
        BY <1>1
    <2> QED BY <2>1
<1>9. \A v \in Nat : v \notin V => Below(v) = Under(v)
    <2> TAKE v \in Nat
    <2>1. v \notin V => \A p \in Reruns : Spread(p) <= v <=> Spread(p) < v
        BY <1>1
    <2> QED BY <2>1
<1>10. SpreadOfRank(k) = CHOOSE v \in V : Cardinality(Below(v)) >= k /\ Cardinality(Under(v)) < k
    BY DEF SpreadOfRank
<1>11. T \in SUBSET Nat /\ \A v \in Nat : v \in T <=> Cardinality(Below(v)) >= k
    OBVIOUS
<1> HIDE DEF Below, Under, V, T
<1>12. PICK v \in T : \A w \in T : v <= w
    <2>1. u \in T
        BY <1>4, <1>5, <1>11
    <2> QED BY <2>1, <1>11, LeastNumber
<1>13. v \in Nat /\ Cardinality(Below(v)) >= k
    BY <1>11, <1>12
<1>14. Cardinality(Under(v)) < k
    <2>1. CASE v = 0
        <3>1. Cardinality(Under(v)) = 0
            BY <2>1, <1>7, FS_EmptySet
        <3> QED BY <3>1, <1>4
    <2>2. CASE v # 0
        <3>1. v - 1 \in Nat /\ v - 1 \notin T
            BY <2>2, <1>12, <1>13
        <3>2. ~(Cardinality(Below(v - 1)) >= k) /\ Cardinality(Below(v - 1)) \in Nat
            BY <3>1, <1>6, <1>11
        <3> QED BY <2>2, <3>2, <1>4, <1>8, <1>13
    <2> QED BY <2>1, <2>2
<1>15. v \in V
    BY <1>4, <1>6, <1>9, <1>13, <1>14
<1>16. SpreadOfRank(k) \in V
    BY <1>10, <1>13, <1>14, <1>15
<1> QED BY <1>1, <1>16

(* calibrateThreshold returns a fraction. *)
LEMMA ThresholdType ==
    ASSUME evaluated \in Seq(Candidate)
    PROVE  calibrateThreshold \in Nat \X (Nat \ {0})
<1> DEFINE count == Cardinality(Reruns)
<1>1. count \in Nat
    BY RerunFacts, FS_CardinalityType
<1> HIDE DEF count
<1>2. CASE count = 0
    BY <1>2 DEF calibrateThreshold, count
<1>3. CASE count # 0
    <2>1. (count + 1) \div 2 \in 1..count /\ count \div 2 + 1 \in 1..count
        BY <1>1, <1>3
    <2>2. SpreadOfRank((count + 1) \div 2) \in Nat /\ SpreadOfRank(count \div 2 + 1) \in Nat
        BY <2>1, SpreadOfEveryRank DEF count
    <2> QED BY <2>2, <1>3 DEF calibrateThreshold, count
<1> QED BY <1>2, <1>3

-----------------------------------------------------------------------------
(* The argument and the configuration never change, nor does what is       *)
(* computed from them.                                                     *)
LEMMA Frozen ==
    ASSUME UNCHANGED <<evaluated, cfg>>
    PROVE  /\ \A m, n : Distance(m, n)' = Distance(m, n)
           /\ \A n : FrameOf(n)' = FrameOf(n)
           /\ BestOfLayouts' = BestOfLayouts /\ Entries' = Entries
           /\ calibrateThreshold' = calibrateThreshold
           /\ Ranked' = Ranked
           /\ \A S : BestFirst(S)' = BestFirst(S)
<1>1. \A m, n : Distance(m, n)' = Distance(m, n)
    BY DEF Distance, meanTrajectory
<1>2. \A n : FrameOf(n)' = FrameOf(n)
    BY DEF FrameOf
<1>3. Entries' = Entries
    BY DEF Entries
<1>4. \A m, n : RanksBefore(m, n)' = RanksBefore(m, n)
    BY DEF RanksBefore
<1>5. Scoring' = Scoring
    BY DEF Scoring
<1>6. BestOfLayouts' = BestOfLayouts
    BY <1>4, <1>5 DEF BestOfLayouts
<1>7. \A S : BestFirst(S)' = BestFirst(S)
    BY DEF BestFirst, RanksBefore
<1>8. \A s : Gates(s)' = Gates(s)
    BY DEF Gates
<1>9. \A s : GateFirst(s)' = GateFirst(s)
    BY DEF GateFirst, FirstGate, Gates
<1>10. Ranked' = Ranked
    BY <1>6, <1>7, <1>8, <1>9 DEF Ranked
<1>11. Reruns' = Reruns /\ \A p : Spread(p)' = Spread(p)
    BY DEF Reruns, RunPairs, Spread
<1>12. \A k : SpreadOfRank(k)' = SpreadOfRank(k)
    BY <1>11 DEF SpreadOfRank
<1>13. calibrateThreshold' = calibrateThreshold
    BY <1>11, <1>12 DEF calibrateThreshold
<1> QED BY <1>1, <1>2, <1>3, <1>6, <1>7, <1>10, <1>13

-----------------------------------------------------------------------------
(* Counting. *)

(* Counting one number further. *)
LEMMA OneMore == \A n \in Nat : 1..(n + 1) = (1..n) \union {n + 1}
OBVIOUS

(* A set and its image under a one-to-one map are of the same size. *)
LEMMA SameSize ==
    ASSUME NEW A, IsFiniteSet(A), NEW B, NEW f \in [A -> B],
           \A i, j \in A : f[i] = f[j] => i = j, \A b \in B : \E i \in A : f[i] = b
    PROVE  IsFiniteSet(B) /\ Cardinality(B) = Cardinality(A) /\ Cardinality(A) \in Nat
<1>1. f \in Injection(A, B) /\ f \in Surjection(A, B)
    BY DEF Injection, IsInjective, Surjection
<1> QED BY <1>1, FS_Surjection, FS_CardinalityType

(* The list that is walked, as the invariant knows it. *)
LEMMA RankedFacts ==
    ASSUME InputInv, pc # "rank"
    PROVE  /\ ranked \in Seq(Entries) /\ Len(ranked) \in Nat /\ DOMAIN ranked = 1..Len(ranked)
           /\ \A i \in 1..Len(ranked) : ranked[i] \in BestOfLayouts /\ ranked[i] \in Entries
           /\ \A i, j \in 1..Len(ranked) : ranked[i] = ranked[j] => i = j
           /\ \A n \in BestOfLayouts : \E i \in 1..Len(ranked) : ranked[i] = n
           /\ BestOfLayouts \subseteq Scoring /\ Scoring \subseteq Entries
<1>1. ranked = Ranked /\ evaluated \in Seq(Candidate)
    BY DEF InputInv
<1>2. Lists(ranked, BestOfLayouts)
    BY <1>1, WalkedList
<1>3. BestOfLayouts \subseteq Scoring /\ Scoring \subseteq Entries
    BY DEF BestOfLayouts, Scoring, Entries
<1>4. ranked \in Seq(BestOfLayouts) /\ Len(ranked) \in Nat /\ DOMAIN ranked = 1..Len(ranked)
    BY <1>2 DEF Lists
<1>5. \A i \in 1..Len(ranked) : ranked[i] \in BestOfLayouts /\ ranked[i] \in Entries
    BY <1>3, <1>4
<1>6. ranked \in Seq(Entries)
    BY <1>4, <1>5
<1> QED BY <1>2, <1>3, <1>4, <1>5, <1>6 DEF Lists

(* The tests taken so far, as a set. *)
LEMMA SubmittedFacts ==
    ASSUME InputInv, TakenInv
    PROVE  /\ IsFiniteSet(Submitted) /\ Submitted \subseteq Entries
           /\ Cardinality(Submitted) = Len(selected) /\ Len(selected) \in Nat
           /\ Submitted = {selected[i] : i \in DOMAIN selected}
           /\ DOMAIN selected = 1..Len(selected)
<1>1. /\ selected \in Seq(Entries) /\ DOMAIN selected = 1..Len(selected) /\ Len(selected) \in Nat
      /\ \A i \in DOMAIN selected : selected[i] \in Entries
    BY DEF TakenInv, Entries
<1>2. Submitted = {selected[i] : i \in DOMAIN selected}
    BY DEF Submitted, Range
<1>3. IsFiniteSet(1..Len(selected)) /\ Cardinality(1..Len(selected)) = Len(selected)
    BY <1>1, FS_Interval
<1> DEFINE f == [i \in 1..Len(selected) |-> selected[i]]
<1>4. /\ f \in [1..Len(selected) -> Submitted]
      /\ \A i, j \in 1..Len(selected) : f[i] = f[j] => i = j
      /\ \A n \in Submitted : \E i \in 1..Len(selected) : f[i] = n
    BY <1>1, <1>2 DEF TakenInv
<1> HIDE DEF f
<1>5. IsFiniteSet(Submitted) /\ Cardinality(Submitted) = Len(selected)
    BY <1>3, <1>4, SameSize
<1> QED BY <1>1, <1>2, <1>5

(* perFrame counts what has been taken. *)
LEMMA FullFrame ==
    ASSUME InputInv, TakenInv, NEW n \in Entries
    PROVE  FrameFull(n) <=> Full(n)
<1> DEFINE A == {i \in DOMAIN selected : FrameOf(selected[i]) = FrameOf(n)}
           B == OfFrame(Submitted, n)
           f == [i \in A |-> selected[i]]
<1>1. IsFiniteSet(A)
    <2>1. IsFiniteSet(DOMAIN selected)
        BY SubmittedFacts, FS_Interval
    <2>2. A \in SUBSET (DOMAIN selected)
        OBVIOUS
    <2> QED BY <2>1, <2>2, FS_Subset
<1>2. f \in [A -> B] /\ (\A i, j \in A : f[i] = f[j] => i = j) /\ \A b \in B : \E i \in A : f[i] = b
    BY SubmittedFacts DEF OfFrame, TakenInv
<1> HIDE DEF A, B, f
<1>3. Cardinality(A) = Cardinality(B)
    BY <1>1, <1>2, SameSize
<1> QED BY <1>3 DEF FrameFull, Full, A, B

(* The frame counts of the walk. *)
LEMMA FrameCounts ==
    ASSUME InputInv, pc # "rank", NEW i \in 1..Len(ranked)
    PROVE  /\ \A k \in 0..Len(ranked) : IsFiniteSet(SameFrame(i, k)) /\ Cardinality(SameFrame(i, k)) \in Nat
           /\ SameFrame(i, 0) = {}
           /\ \A k \in 1..Len(ranked) :
                 IF FrameOf(ranked[k]) = FrameOf(ranked[i])
                 THEN /\ Cardinality(SameFrame(i, k)) = Cardinality(SameFrame(i, k - 1)) + 1
                      /\ SameFrame(i, k) = SameFrame(k, k)
                 ELSE SameFrame(i, k) = SameFrame(i, k - 1)
<1>1. Len(ranked) \in Nat
    BY RankedFacts
<1>2. \A k \in 0..Len(ranked) : IsFiniteSet(SameFrame(i, k)) /\ Cardinality(SameFrame(i, k)) \in Nat
    <2> TAKE k \in 0..Len(ranked)
    <2>1. IsFiniteSet(1..k) /\ SameFrame(i, k) \in SUBSET (1..k)
        BY FS_Interval DEF SameFrame
    <2> QED BY <2>1, FS_Subset, FS_CardinalityType
<1>3. SameFrame(i, 0) = {}
    BY DEF SameFrame
<1>4. ASSUME NEW k \in 1..Len(ranked)
      PROVE  IF FrameOf(ranked[k]) = FrameOf(ranked[i])
             THEN /\ Cardinality(SameFrame(i, k)) = Cardinality(SameFrame(i, k - 1)) + 1
                  /\ SameFrame(i, k) = SameFrame(k, k)
             ELSE SameFrame(i, k) = SameFrame(i, k - 1)
    <2>1. k - 1 \in 0..Len(ranked) /\ 1..k = (1..(k - 1)) \union {k} /\ k \notin 1..(k - 1)
        BY <1>1
    <2>2. CASE FrameOf(ranked[k]) = FrameOf(ranked[i])
        <3>1. SameFrame(i, k) = SameFrame(i, k - 1) \union {k} /\ k \notin SameFrame(i, k - 1)
            BY <2>1, <2>2 DEF SameFrame
        <3>2. Cardinality(SameFrame(i, k)) = Cardinality(SameFrame(i, k - 1)) + 1
            BY <3>1, <2>1, <1>2, FS_AddElement
        <3>3. SameFrame(i, k) = SameFrame(k, k)
            BY <2>2 DEF SameFrame
        <3> QED BY <3>2, <3>3, <2>2
    <2>3. CASE FrameOf(ranked[k]) # FrameOf(ranked[i])
        BY <2>1, <2>3 DEF SameFrame
    <2> QED BY <2>2, <2>3
<1> QED BY <1>2, <1>3, <1>4

(* The places of i's frame, up to k, that the quota has room for: all of   *)
(* the frame's places, until they are as many as the quota.                *)
InFrame(i, k) == {j \in Places(k) : FrameOf(ranked[j]) = FrameOf(ranked[i])}

LEMMA QuotaCount ==
    ASSUME InputInv, pc # "rank", cfg.maxPerFrame > 0, NEW i \in 1..Len(ranked)
    PROVE  \A k \in 0..Len(ranked) :
              Cardinality(InFrame(i, k)) = MinOf(cfg.maxPerFrame, Cardinality(SameFrame(i, k)))
<1> DEFINE M == cfg.maxPerFrame
           c(k) == Cardinality(SameFrame(i, k))
           P(k) == Cardinality(InFrame(i, k)) = MinOf(M, c(k))
           T == {k \in 0..Len(ranked) : ~P(k)}
<1>1. Len(ranked) \in Nat /\ M \in Nat
    BY RankedFacts DEF InputInv
<1>2. \A k \in 0..Len(ranked) : c(k) \in Nat /\ IsFiniteSet(InFrame(i, k))
    <2> TAKE k \in 0..Len(ranked)
    <2>1. InFrame(i, k) \in SUBSET (1..k) /\ IsFiniteSet(1..k)
        BY FS_Interval DEF InFrame, Places
    <2> QED BY <2>1, FrameCounts, FS_Subset
<1>3. P(0)
    <2>1. InFrame(i, 0) = {} /\ SameFrame(i, 0) = {}
        BY DEF InFrame, Places, SameFrame
    <2>2. Cardinality(InFrame(i, 0)) = 0 /\ c(0) = 0
        BY <2>1, FS_EmptySet
    <2> HIDE DEF c, M
    <2> QED BY <2>2, <1>1 DEF MinOf
<1>4. ASSUME NEW k \in 1..Len(ranked), P(k - 1) PROVE P(k)
    <2>1. /\ k - 1 \in 0..Len(ranked) /\ k \in 0..Len(ranked)
          /\ 1..k = (1..(k - 1)) \union {k} /\ k \notin 1..(k - 1)
        BY <1>1
    <2>2. Places(k) = IF InQuota(k) THEN Places(k - 1) \union {k} ELSE Places(k - 1)
        BY <2>1 DEF Places
    <2>3. k \notin Places(k - 1)
        BY <2>1 DEF Places
    <2>4. CASE FrameOf(ranked[k]) = FrameOf(ranked[i])
        <3>1. c(k) = c(k - 1) + 1 /\ (InQuota(k) <=> c(k) <= M)
            BY <2>4, FrameCounts DEF InQuota
        <3>2. CASE InQuota(k)
            <4>1. InFrame(i, k) = InFrame(i, k - 1) \union {k} /\ k \notin InFrame(i, k - 1)
                BY <2>2, <2>3, <2>4, <3>2 DEF InFrame
            <4>2. Cardinality(InFrame(i, k)) = Cardinality(InFrame(i, k - 1)) + 1
                BY <4>1, <2>1, <1>2, FS_AddElement
            <4>3. Cardinality(InFrame(i, k - 1)) = MinOf(M, c(k - 1)) /\ c(k - 1) \in Nat /\ c(k) \in Nat
                BY <2>1, <1>2, <1>4
            <4> HIDE DEF c, M
            <4> QED BY <4>2, <4>3, <3>1, <3>2, <1>1 DEF MinOf
        <3>3. CASE ~InQuota(k)
            <4>1. InFrame(i, k) = InFrame(i, k - 1)
                BY <2>2, <3>3 DEF InFrame
            <4>2. Cardinality(InFrame(i, k - 1)) = MinOf(M, c(k - 1)) /\ c(k - 1) \in Nat /\ c(k) \in Nat
                BY <2>1, <1>2, <1>4
            <4> HIDE DEF c, M
            <4> QED BY <4>1, <4>2, <3>1, <3>3, <1>1 DEF MinOf
        <3> QED BY <3>2, <3>3
    <2>5. CASE FrameOf(ranked[k]) # FrameOf(ranked[i])
        <3>1. InFrame(i, k) = InFrame(i, k - 1)
            BY <2>2, <2>5 DEF InFrame
        <3>2. SameFrame(i, k) = SameFrame(i, k - 1)
            BY <2>5, FrameCounts
        <3> QED BY <3>1, <3>2, <1>4
    <2> QED BY <2>4, <2>5
<1>5. T \in SUBSET Nat /\ T \subseteq 0..Len(ranked) /\ \A k \in 0..Len(ranked) : k \in T <=> ~P(k)
    OBVIOUS
<1> HIDE DEF P, T
<1>6. T = {}
    <2> SUFFICES ASSUME T # {} PROVE FALSE
        OBVIOUS
    <2>1. PICK k \in T : \A j \in T : k <= j
        BY <1>5, LeastNumber
    <2>2. k \in 1..Len(ranked)
        BY <1>1, <1>3, <1>5
    <2>3. k - 1 \in 0..Len(ranked) /\ k - 1 \notin T
        BY <2>1, <2>2, <1>1
    <2> QED BY <2>1, <2>2, <2>3, <1>4, <1>5
<1>7. \A k \in 0..Len(ranked) : P(k)
    BY <1>5, <1>6
<1> QED BY <1>7 DEF P

(* fillableCount counts the places that the quota has room for. *)
LEMMA FillablePlaces ==
    ASSUME InputInv, pc # "rank"
    PROVE  /\ IsFiniteSet(Places(Len(ranked))) /\ Cardinality(Places(Len(ranked))) \in Nat
           /\ fillableCount = MinOf(cfg.topK, Cardinality(Places(Len(ranked))))
<1>1. Len(ranked) \in Nat /\ DOMAIN ranked = 1..Len(ranked)
    BY RankedFacts
<1>2. cfg.maxPerFrame \in Nat /\ cfg.topK \in Nat
    BY DEF InputInv
<1>3. IsFiniteSet(1..Len(ranked)) /\ Cardinality(1..Len(ranked)) = Len(ranked)
    <2> DEFINE n == Len(ranked)
    <2>1. n \in Nat
        BY <1>1
    <2> HIDE DEF n
    <2>2. IsFiniteSet(1..n) /\ Cardinality(1..n) = n
        BY <2>1, FS_Interval
    <2> QED BY <2>2 DEF n
<1>4. Places(Len(ranked)) \in SUBSET (1..Len(ranked))
    BY DEF Places
<1>5. IsFiniteSet(Places(Len(ranked))) /\ Cardinality(Places(Len(ranked))) \in Nat
    BY <1>3, <1>4, FS_Subset, FS_CardinalityType
<1>6. CASE cfg.maxPerFrame = 0
    <2>1. Places(Len(ranked)) = 1..Len(ranked)
        BY <1>6 DEF Places, InQuota
    <2> QED BY <2>1, <1>3, <1>5, <1>6 DEF fillableCount
<1>7. CASE cfg.maxPerFrame # 0
    <2>1. Places(Len(ranked)) =
             {i \in DOMAIN ranked :
                 Cardinality({j \in 1..i : FrameOf(ranked[j]) = FrameOf(ranked[i])}) <= cfg.maxPerFrame}
        BY <1>1, <1>2, <1>7 DEF Places, InQuota, SameFrame
    <2> QED BY <2>1, <1>5, <1>7 DEF fillableCount
<1> QED BY <1>5, <1>6, <1>7

-----------------------------------------------------------------------------
(* The candidate that greedyFill looks at. *)

LEMMA LookedAt ==
    ASSUME IInv, Scanning
    PROVE  /\ next \in 1..Len(ranked) /\ pc # "rank" /\ Len(ranked) \in Nat
           /\ ranked[next] \in Entries /\ ranked[next] \in BestOfLayouts
           /\ ranked[next] \notin Submitted
           /\ \A n \in Submitted : n \in BestOfLayouts /\ n # ranked[next]
           /\ FrameFull(ranked[next]) <=> Full(ranked[next])
           /\ LooksAlike(ranked[next]) <=>
                 \E n \in Submitted : ~AtLeast(Distance(ranked[next], n), threshold)
<1>1. next \in 1..Len(ranked) /\ pc # "rank" /\ Len(ranked) \in Nat
    BY RankedFacts DEF IInv, InputInv, Scanning
<1>2. ranked[next] \in Entries /\ ranked[next] \in BestOfLayouts
    BY <1>1, RankedFacts DEF IInv
<1>3. \A n \in Submitted : n \in BestOfLayouts /\ n # ranked[next]
    <2> TAKE n \in Submitted
    <2>1. PICK i \in 1..(next - 1) : ranked[i] = n
        BY DEF IInv, TakenInv
    <2>2. i \in 1..Len(ranked) /\ i # next
        BY <1>1
    <2> QED BY <2>1, <2>2, <1>1, RankedFacts DEF IInv
<1>4. FrameFull(ranked[next]) <=> Full(ranked[next])
    BY <1>2, FullFrame DEF IInv
<1>5. LooksAlike(ranked[next]) <=>
         \E n \in Submitted : ~AtLeast(Distance(ranked[next], n), threshold)
    BY SubmittedFacts DEF IInv, LooksAlike
<1> QED BY <1>1, <1>2, <1>3, <1>4, <1>5

(* Without look-alikes the candidate is passed over exactly if the quota   *)
(* has no room for its place.                                              *)
LEMMA RoomAtNext ==
    ASSUME IInv, Scanning, NoLookAlikes(threshold)
    PROVE  /\ ~LooksAlike(ranked[next])
           /\ Full(ranked[next]) <=> ~InQuota(next)
<1> DEFINE M == cfg.maxPerFrame
           c(k) == Cardinality(SameFrame(next, k))
<1>1. /\ next \in 1..Len(ranked) /\ pc # "rank" /\ Len(ranked) \in Nat
      /\ InputInv /\ next - 1 \in 0..Len(ranked)
    BY LookedAt DEF IInv
<1>2. ~LooksAlike(ranked[next])
    BY LookedAt DEF NoLookAlikes
<1>3. CASE ~(M > 0)
    BY <1>2, <1>3 DEF Full, InQuota
<1>4. CASE M > 0
    <2> DEFINE A == InFrame(next, next - 1)
               B == OfFrame(Submitted, ranked[next])
               f == [i \in A |-> ranked[i]]
    <2>1. Submitted = {ranked[i] : i \in Places(next - 1)}
        BY DEF IInv, WalkInv
    <2>2. A \in SUBSET (1..Len(ranked)) /\ IsFiniteSet(1..Len(ranked))
        BY <1>1, FS_Interval DEF InFrame, Places
    <2>3. IsFiniteSet(A)
        BY <2>2, FS_Subset
    <2>4. f \in [A -> B] /\ \A b \in B : \E i \in A : f[i] = b
        BY <2>1 DEF InFrame, OfFrame
    <2>5. \A i, j \in A : f[i] = f[j] => i = j
        BY <2>2, <1>1, RankedFacts
    <2> HIDE DEF A, B, f
    <2>6. Cardinality(B) = Cardinality(A)
        BY <2>3, <2>4, <2>5, SameSize
    <2>7. Cardinality(A) = MinOf(M, c(next - 1))
        BY <1>1, <1>4, QuotaCount DEF A
    <2>8. c(next) = c(next - 1) + 1 /\ c(next - 1) \in Nat
        BY <1>1, FrameCounts
    <2>9. M \in Nat
        BY <1>1 DEF InputInv
    <2>10. (Full(ranked[next]) <=> Cardinality(B) >= M) /\ (InQuota(next) <=> c(next) <= M)
        BY <1>4 DEF Full, InQuota, B
    <2> HIDE DEF c, M
    <2> QED BY <2>6, <2>7, <2>8, <2>9, <2>10, <1>2 DEF MinOf
<1> QED BY <1>2, <1>3, <1>4

(* What a step of the loop leaves alone. *)
LEMMA WalkFrozen ==
    ASSUME UNCHANGED <<evaluated, cfg, ranked>>
    PROVE  /\ \A i : InQuota(i)' = InQuota(i)
           /\ \A k : Places(k)' = Places(k)
           /\ \A n : OfFrame(Submitted, n)' = {m \in Submitted' : FrameOf(m) = FrameOf(n)}
           /\ NoLookAlikes(threshold)' <=>
                 \A m, n \in BestOfLayouts : m # n => AtLeast(Distance(m, n), threshold')
<1>1. /\ \A m, n : Distance(m, n)' = Distance(m, n)
      /\ \A n : FrameOf(n)' = FrameOf(n)
      /\ BestOfLayouts' = BestOfLayouts
    BY Frozen
<1>2. \A i, k : SameFrame(i, k)' = SameFrame(i, k)
    BY <1>1 DEF SameFrame
<1>3. \A i : InQuota(i)' = InQuota(i)
    BY <1>2 DEF InQuota
<1>4. \A k : Places(k)' = Places(k)
    BY <1>3 DEF Places
<1>5. \A n : OfFrame(Submitted, n)' = {m \in Submitted' : FrameOf(m) = FrameOf(n)}
    BY <1>1 DEF OfFrame
<1>6. NoLookAlikes(threshold)' <=>
         \A m, n \in BestOfLayouts : m # n => AtLeast(Distance(m, n), threshold')
    BY <1>1 DEF NoLookAlikes, AtLeast
<1> QED BY <1>3, <1>4, <1>5, <1>6

-----------------------------------------------------------------------------
(* The candidate is taken. *)
LEMMA TakeStep ==
    ASSUME IInv, Take
    PROVE  IInv'
<1> DEFINE n0 == ranked[next]
<1>1. /\ Scanning /\ ~FrameFull(n0) /\ ~LooksAlike(n0)
      /\ selected' = Append(selected, n0) /\ next' = next + 1
      /\ UNCHANGED <<evaluated, cfg, pc, ranked, threshold>>
    BY DEF Take
<1>2. /\ next \in 1..Len(ranked) /\ pc # "rank" /\ Len(ranked) \in Nat
      /\ n0 \in Entries /\ n0 \in BestOfLayouts /\ n0 \notin Submitted
      /\ ~Full(n0) /\ \A n \in Submitted : AtLeast(Distance(n0, n), threshold)
    BY <1>1, LookedAt
<1>3. /\ \A m, n : Distance(m, n)' = Distance(m, n)
      /\ BestOfLayouts' = BestOfLayouts /\ Entries' = Entries
      /\ calibrateThreshold' = calibrateThreshold /\ Ranked' = Ranked
    BY <1>1, Frozen
<1>4. InputInv /\ TakenInv /\ evaluated \in Seq(Candidate) /\ Entries = DOMAIN evaluated
    BY DEF IInv, InputInv, Entries
<1>5. /\ IsFiniteSet(Submitted) /\ Submitted \subseteq Entries
      /\ Cardinality(Submitted) = Len(selected) /\ Len(selected) \in Nat
      /\ DOMAIN selected = 1..Len(selected)
      /\ Submitted = {selected[i] : i \in DOMAIN selected}
    BY <1>4, SubmittedFacts
<1> HIDE DEF n0
<1>6. /\ selected \in Seq(Entries) /\ selected' \in Seq(Entries)
      /\ Len(selected') = Len(selected) + 1 /\ DOMAIN selected' = 1..(Len(selected) + 1)
      /\ \A i \in 1..Len(selected) : selected'[i] = selected[i]
      /\ selected'[Len(selected) + 1] = n0
    BY <1>1, <1>2, <1>4 DEF TakenInv
<1>7. Submitted' = Submitted \union {n0}
    <2>1. Submitted' = {selected'[i] : i \in DOMAIN selected'}
        BY DEF Submitted, Range
    <2>2. DOMAIN selected' = (DOMAIN selected) \union {Len(selected) + 1}
        BY <1>5, <1>6, OneMore
    <2>3. \A i \in DOMAIN selected : selected'[i] = selected[i]
        BY <1>5, <1>6
    <2>4. selected'[Len(selected) + 1] = n0 /\ Submitted = {selected[i] : i \in DOMAIN selected}
        BY <1>5, <1>6
    <2> QED BY <2>1, <2>2, <2>3, <2>4
<1>8. InputInv'
    BY <1>1, <1>2, <1>3, <1>4 DEF InputInv
<1>9. TakenInv'
    <2>1. Len(selected') <= cfg.topK
        <3>1. Len(selected) < cfg.topK /\ cfg.topK \in Nat
            BY <1>1, <1>4 DEF Scanning, InputInv
        <3>2. Len(selected') = Len(selected) + 1 /\ Len(selected) \in Nat
            BY <1>5, <1>6
        <3> QED BY <3>1, <3>2
    <2>2. \A i, j \in DOMAIN selected' : selected'[i] = selected'[j] => i = j
        <3> SUFFICES ASSUME NEW i \in DOMAIN selected', NEW j \in DOMAIN selected',
                            selected'[i] = selected'[j]
                     PROVE  i = j
            OBVIOUS
        <3>1. /\ i \in 1..Len(selected) \/ i = Len(selected) + 1
              /\ j \in 1..Len(selected) \/ j = Len(selected) + 1
            BY <1>5, <1>6, OneMore
        <3>2. \A k \in 1..Len(selected) : selected'[k] \in Submitted
            BY <1>5, <1>6
        <3>3. CASE i \in 1..Len(selected) /\ j \in 1..Len(selected)
            BY <3>3, <1>4, <1>5, <1>6 DEF TakenInv
        <3> QED BY <3>1, <3>2, <3>3, <1>2, <1>6
    <2>3. \A n \in Submitted' : \E i \in 1..(next' - 1) : ranked'[i] = n
        <3>1. next \in 1..(next' - 1) /\ \A i \in 1..(next - 1) : i \in 1..(next' - 1)
            BY <1>1, <1>2
        <3> QED BY <3>1, <1>1, <1>4, <1>7 DEF TakenInv, n0
    <2> QED BY <2>1, <2>2, <2>3, <1>1, <1>4, <1>6 DEF TakenInv
<1>10. \A n : OfFrame(Submitted, n)' = {m \in Submitted \union {n0} : FrameOf(m) = FrameOf(n)}
    BY <1>1, <1>7, WalkFrozen
<1>11. \A n : /\ IsFiniteSet(OfFrame(Submitted, n)) /\ Cardinality(OfFrame(Submitted, n)) \in Nat
              /\ OfFrame(Submitted, n)' = IF FrameOf(n0) = FrameOf(n)
                                          THEN OfFrame(Submitted, n) \union {n0}
                                          ELSE OfFrame(Submitted, n)
              /\ n0 \notin OfFrame(Submitted, n)
    <2> TAKE n
    <2>1. OfFrame(Submitted, n) \in SUBSET Submitted
        BY DEF OfFrame
    <2>2. IsFiniteSet(OfFrame(Submitted, n)) /\ Cardinality(OfFrame(Submitted, n)) \in Nat
        BY <2>1, <1>5, FS_Subset, FS_CardinalityType
    <2> QED BY <2>2, <1>2, <1>10 DEF OfFrame
<1>12. \A n : Cardinality(OfFrame(Submitted, n)') =
                 IF FrameOf(n0) = FrameOf(n)
                 THEN Cardinality(OfFrame(Submitted, n)) + 1
                 ELSE Cardinality(OfFrame(Submitted, n))
    BY <1>11, FS_AddElement
<1>13. QuotaInv'
    <2> SUFFICES ASSUME cfg.maxPerFrame > 0, NEW n \in Entries
                 PROVE  Cardinality(OfFrame(Submitted, n)') <= cfg.maxPerFrame
        BY <1>1, <1>3, <1>4 DEF QuotaInv, Entries
    <2>1. Cardinality(OfFrame(Submitted, n)) <= cfg.maxPerFrame /\ cfg.maxPerFrame \in Nat
        BY <1>4 DEF IInv, QuotaInv, InputInv, Entries
    <2>2. CASE FrameOf(n0) = FrameOf(n)
        <3>1. OfFrame(Submitted, n) = OfFrame(Submitted, n0)
            BY <2>2 DEF OfFrame
        <3>2. Cardinality(OfFrame(Submitted, n)) < cfg.maxPerFrame
            BY <3>1, <2>1, <1>2, <1>11 DEF Full
        <3> QED BY <3>2, <2>1, <2>2, <1>11, <1>12
    <2>3. CASE FrameOf(n0) # FrameOf(n)
        BY <2>1, <2>3, <1>12
    <2> QED BY <2>2, <2>3
<1>14. ApartInv'
    <2> SUFFICES ASSUME NEW m \in Submitted \union {n0}, NEW n \in Submitted \union {n0}, m # n
                 PROVE  AtLeast(Distance(m, n), threshold)
        BY <1>1, <1>3, <1>7 DEF ApartInv, AtLeast
    <2>1. CASE m \in Submitted /\ n \in Submitted
        BY <2>1 DEF IInv, ApartInv
    <2>2. CASE m = n0 /\ n \in Submitted
        BY <2>2, <1>2
    <2>3. CASE m \in Submitted /\ n = n0
        <3>1. Distance(m, n0) = Distance(n0, m)
            BY <2>3, <1>2, <1>4, <1>5, DistanceFacts
        <3> QED BY <2>3, <3>1, <1>2
    <2> QED BY <2>1, <2>2, <2>3
<1>15. ReasonInv'
    <2> SUFFICES ASSUME NEW i \in 1..next
                 PROVE  \/ ranked[i] \in Submitted'
                        \/ Full(ranked[i])'
                        \/ \E k \in 1..(i - 1) : ranked[k] \in Submitted' /\ ~AtLeast(Distance(ranked[i], ranked[k]), threshold)
        BY <1>1, <1>2, <1>3 DEF ReasonInv, AtLeast
    <2>1. CASE i = next
        BY <2>1, <1>7 DEF n0
    <2>2. CASE i # next
        <3>1. i \in 1..(next - 1)
            BY <2>2, <1>2
        <3>2. Full(ranked[i]) => Full(ranked[i])'
            <4>1. PICK n : n = ranked[i] /\ n = ranked'[i]
                BY <1>1
            <4> DEFINE c == Cardinality(OfFrame(Submitted, n))
                       d == Cardinality(OfFrame(Submitted, n)')
            <4>2. c \in Nat /\ (d = c + 1 \/ d = c)
                BY <1>11, <1>12
            <4>3. cfg.maxPerFrame \in Nat /\ cfg' = cfg
                BY <1>1, <1>4 DEF InputInv
            <4>4. /\ Full(ranked[i]) <=> cfg.maxPerFrame > 0 /\ c >= cfg.maxPerFrame
                  /\ Full(ranked[i])' <=> cfg'.maxPerFrame > 0 /\ d >= cfg'.maxPerFrame
                BY <4>1 DEF Full, OfFrame
            <4> HIDE DEF c, d
            <4> QED BY <4>2, <4>3, <4>4
        <3> QED BY <3>1, <3>2, <1>7 DEF IInv, ReasonInv
    <2> QED BY <2>1, <2>2
<1>16. HeadInv'
    BY <1>1, <1>2, <1>7 DEF IInv, HeadInv, n0
<1>17. WalkInv'
    <2> SUFFICES ASSUME NoLookAlikes(threshold)' PROVE Submitted' = {ranked[i] : i \in Places(next)}
        <3>1. Places(next - 1)' = Places(next)
            <4>1. next' - 1 = next
                BY <1>1, <1>2
            <4> QED BY <4>1, <1>1, WalkFrozen DEF Places
        <3> QED BY <3>1, <1>1 DEF WalkInv
    <2>1. NoLookAlikes(threshold)
        BY <1>1, WalkFrozen DEF NoLookAlikes
    <2>2. InQuota(next)
        BY <2>1, <1>1, <1>2, RoomAtNext DEF n0
    <2>3. Places(next) = Places(next - 1) \union {next}
        <3>1. 1..next = (1..(next - 1)) \union {next}
            BY <1>2
        <3> QED BY <3>1, <2>2 DEF Places
    <2>4. Submitted = {ranked[i] : i \in Places(next - 1)}
        BY <2>1 DEF IInv, WalkInv
    <2> QED BY <2>3, <2>4, <1>7 DEF n0
<1>18. HalvedInv' /\ DoneInv'
    <2>1. NoLookAlikes(Doubled(threshold))' = NoLookAlikes(Doubled(threshold))
        BY <1>1, <1>3 DEF NoLookAlikes, Doubled, AtLeast
    <2> QED BY <2>1, <1>1, <1>3 DEF IInv, HalvedInv, DoneInv, Scanning
<1> QED BY <1>8, <1>9, <1>13, <1>14, <1>15, <1>16, <1>17, <1>18 DEF IInv

(* What has been taken is judged the same when nothing is taken. *)
LEMMA SameTaken ==
    ASSUME UNCHANGED <<evaluated, cfg, ranked, threshold>>, Submitted' = Submitted
    PROVE  /\ QuotaInv => QuotaInv'
           /\ ApartInv => ApartInv'
           /\ \A i : Full(ranked[i])' <=> Full(ranked[i])
           /\ HalvedInv => HalvedInv'
           /\ NoLookAlikes(threshold)' <=> NoLookAlikes(threshold)
<1>1. /\ \A m, n : Distance(m, n)' = Distance(m, n)
      /\ \A n : FrameOf(n)' = FrameOf(n)
      /\ BestOfLayouts' = BestOfLayouts
      /\ calibrateThreshold' = calibrateThreshold
    BY Frozen
<1>2. \A n : OfFrame(Submitted, n)' = OfFrame(Submitted, n)
    BY <1>1 DEF OfFrame
<1>3. QuotaInv => QuotaInv'
    BY <1>2 DEF QuotaInv
<1>4. ApartInv => ApartInv'
    BY <1>1 DEF ApartInv, AtLeast
<1>5. \A i : Full(ranked[i])' <=> Full(ranked[i])
    BY <1>1 DEF Full, OfFrame
<1>6. HalvedInv => HalvedInv'
    BY <1>1 DEF HalvedInv, NoLookAlikes, Doubled, AtLeast
<1>7. NoLookAlikes(threshold)' <=> NoLookAlikes(threshold)
    BY <1>1 DEF NoLookAlikes, AtLeast
<1> QED BY <1>3, <1>4, <1>5, <1>6, <1>7

(* The candidate is passed over. *)
LEMMA PassOverStep ==
    ASSUME IInv, PassOver
    PROVE  IInv'
<1> DEFINE n0 == ranked[next]
<1>1. /\ Scanning /\ (FrameFull(n0) \/ LooksAlike(n0)) /\ next' = next + 1
      /\ UNCHANGED <<evaluated, cfg, pc, ranked, selected, threshold>>
    BY DEF PassOver
<1>2. /\ next \in 1..Len(ranked) /\ pc # "rank" /\ Len(ranked) \in Nat
      /\ Full(n0) \/ \E n \in Submitted : ~AtLeast(Distance(n0, n), threshold)
    BY <1>1, LookedAt
<1>3. /\ \A m, n : Distance(m, n)' = Distance(m, n)
      /\ Ranked' = Ranked /\ Submitted' = Submitted
    BY <1>1, Frozen DEF Submitted
<1>4. /\ QuotaInv' /\ ApartInv' /\ HalvedInv'
      /\ \A i : Full(ranked[i])' <=> Full(ranked[i])
      /\ NoLookAlikes(threshold)' <=> NoLookAlikes(threshold)
    BY <1>1, <1>3, SameTaken DEF IInv
<1>5. InputInv'
    BY <1>1, <1>2, <1>3 DEF IInv, InputInv
<1>6. \A i \in 1..(next - 1) : i \in 1..(next' - 1)
    BY <1>1, <1>2
<1>7. TakenInv'
    BY <1>1, <1>3, <1>6 DEF IInv, TakenInv
<1>8. ReasonInv'
    <2> SUFFICES ASSUME NEW i \in 1..next
                 PROVE  \/ ranked[i] \in Submitted
                        \/ Full(ranked[i])
                        \/ \E k \in 1..(i - 1) : ranked[k] \in Submitted /\ ~AtLeast(Distance(ranked[i], ranked[k]), threshold)
        BY <1>1, <1>2, <1>3, <1>4 DEF ReasonInv, AtLeast
    <2>1. CASE i = next
        BY <2>1, <1>2 DEF IInv, TakenInv
    <2>2. CASE i # next
        <3>1. i \in 1..(next - 1)
            BY <2>2, <1>2
        <3> QED BY <3>1 DEF IInv, ReasonInv
    <2> QED BY <2>1, <2>2
<1>9. HeadInv'
    <2>1. CASE next = 1
        <3>1. Submitted = {}
            BY <2>1 DEF IInv, TakenInv
        <3>2. Full(n0)
            BY <3>1, <1>2
        <3>3. OfFrame(Submitted, n0) = {}
            BY <3>1 DEF OfFrame
        <3>4. Cardinality(OfFrame(Submitted, n0)) = 0
            BY <3>3, FS_EmptySet
        <3>5. cfg.maxPerFrame \in Nat
            BY DEF IInv, InputInv
        <3> QED BY <3>2, <3>4, <3>5 DEF Full
    <2>2. CASE next # 1
        BY <2>2, <1>1, <1>2, <1>3 DEF IInv, HeadInv
    <2> QED BY <2>1, <2>2
<1>10. WalkInv'
    <2> SUFFICES ASSUME NoLookAlikes(threshold) PROVE Submitted = {ranked[i] : i \in Places(next)}
        <3>1. Places(next - 1)' = Places(next)
            <4>1. next' - 1 = next
                BY <1>1, <1>2
            <4> QED BY <4>1, <1>1, WalkFrozen DEF Places
        <3> QED BY <3>1, <1>1, <1>3, <1>4 DEF WalkInv
    <2>1. ~InQuota(next)
        <3>1. ~LooksAlike(n0) /\ (Full(n0) <=> ~InQuota(next))
            BY <1>1, RoomAtNext
        <3>2. FrameFull(n0) <=> Full(n0)
            BY <1>1, LookedAt
        <3> QED BY <3>1, <3>2, <1>1
    <2>2. Places(next) = Places(next - 1)
        <3>1. 1..next = (1..(next - 1)) \union {next}
            BY <1>2
        <3> QED BY <3>1, <2>1 DEF Places
    <2> QED BY <2>2 DEF IInv, WalkInv
<1>11. DoneInv'
    BY <1>1 DEF DoneInv, Scanning
<1> QED BY <1>4, <1>5, <1>7, <1>8, <1>9, <1>10, <1>11 DEF IInv

(* At the start of a pass nothing has been looked at. *)
AtStart == InputInv /\ selected = <<>> /\ next = 1
PassInv == TakenInv /\ QuotaInv /\ ApartInv /\ ReasonInv /\ HeadInv /\ WalkInv

LEMMA FreshPass == AtStart => PassInv
<1> SUFFICES ASSUME InputInv, selected = <<>>, next = 1 PROVE PassInv
    BY DEF AtStart
<1>1. Submitted = {}
    BY DEF Submitted, Range
<1>2. cfg.maxPerFrame \in Nat /\ cfg.topK \in Nat
    BY DEF InputInv
<1>3. TakenInv
    <2>1. Len(selected) = 0 /\ selected \in Seq(DOMAIN evaluated) /\ DOMAIN selected = {}
        OBVIOUS
    <2> QED BY <2>1, <1>1, <1>2 DEF TakenInv
<1>4. QuotaInv
    <2>1. \A n : OfFrame(Submitted, n) = {}
        BY <1>1 DEF OfFrame
    <2>2. \A n : Cardinality(OfFrame(Submitted, n)) = 0
        BY <2>1, FS_EmptySet
    <2> QED BY <2>2, <1>2 DEF QuotaInv
<1>5. ApartInv /\ HeadInv
    BY <1>1 DEF ApartInv, HeadInv
<1>6. 1..(next - 1) = {}
    OBVIOUS
<1>7. ReasonInv
    BY <1>6 DEF ReasonInv
<1>8. WalkInv
    BY <1>1, <1>6 DEF WalkInv, Places
<1> QED BY <1>3, <1>4, <1>5, <1>7, <1>8 DEF PassInv

(* The whole list has been walked, and no look-alikes were met: the pass   *)
(* has taken as many as the quota has room for.                            *)
LEMMA FullWalk ==
    ASSUME IInv, pc # "rank", next > Len(ranked), NoLookAlikes(threshold)
    PROVE  Len(selected) = Cardinality(Places(Len(ranked)))
<1> DEFINE P == Places(Len(ranked))
           f == [i \in P |-> ranked[i]]
<1>1. InputInv /\ TakenInv /\ Len(ranked) \in Nat /\ next = Len(ranked) + 1
    BY RankedFacts DEF IInv, InputInv
<1>2. Submitted = {ranked[i] : i \in P}
    <2>1. next - 1 = Len(ranked)
        BY <1>1
    <2> QED BY <2>1 DEF IInv, WalkInv
<1>3. f \in [P -> Submitted] /\ \A n \in Submitted : \E i \in P : f[i] = n
    BY <1>2
<1>4. \A i, j \in P : f[i] = f[j] => i = j
    BY <1>1, RankedFacts DEF Places
<1>5. IsFiniteSet(P)
    BY <1>1, FillablePlaces
<1> HIDE DEF P, f
<1>6. Cardinality(Submitted) = Cardinality(P)
    BY <1>3, <1>4, <1>5, SameSize
<1> QED BY <1>1, <1>6, SubmittedFacts DEF P

(* The list is made. *)
LEMMA RankStep ==
    ASSUME IInv, Rank
    PROVE  IInv'
<1>1. /\ pc = "rank" /\ ranked' = Ranked /\ pc' = "fill"
      /\ UNCHANGED <<evaluated, cfg, next, selected, threshold>>
    BY DEF Rank
<1>2. /\ BestOfLayouts' = BestOfLayouts /\ Ranked' = Ranked
      /\ calibrateThreshold' = calibrateThreshold
      /\ \A m, n : Distance(m, n)' = Distance(m, n)
    BY <1>1, Frozen
<1>3. next = 1 /\ selected = <<>>
    <2>1. ranked = <<>> /\ next \in 1..(Len(ranked) + 1)
        BY <1>1 DEF IInv, InputInv
    <2>2. next = 1
        BY <2>1
    <2>3. Submitted = {}
        BY <2>2 DEF IInv, TakenInv
    <2>4. Len(selected) = 0 /\ selected \in Seq(Entries)
        BY <2>3, SubmittedFacts, FS_EmptySet DEF IInv, TakenInv, Entries
    <2> QED BY <2>2, <2>4
<1>4. InputInv'
    <2>1. Len(Ranked) \in Nat
        BY WalkedList DEF Lists, IInv, InputInv
    <2> QED BY <2>1, <1>1, <1>2, <1>3 DEF IInv, InputInv
<1>5. PassInv'
    <2>1. AtStart'
        BY <1>1, <1>3, <1>4 DEF AtStart
    <2> QED BY <2>1, FreshPass, PTL
<1>6. HalvedInv'
    BY <1>1, <1>2 DEF IInv, HalvedInv, NoLookAlikes, Doubled, AtLeast
<1>7. DoneInv'
    BY <1>1 DEF DoneInv
<1> QED BY <1>4, <1>5, <1>6, <1>7 DEF IInv, PassInv

(* The threshold is halved for another pass: the one before was short of   *)
(* what the quota allows, so there were look-alikes.                       *)
LEMMA RelaxStep ==
    ASSUME IInv, Relax
    PROVE  IInv'
<1>1. /\ pc = "fill" /\ ~Scanning /\ ~GoodEnough
      /\ threshold' = Halved(threshold) /\ next' = 1 /\ selected' = <<>>
      /\ UNCHANGED <<evaluated, cfg, pc, ranked>>
    BY DEF Relax
<1>2. /\ BestOfLayouts' = BestOfLayouts /\ Ranked' = Ranked
      /\ \A m, n : Distance(m, n)' = Distance(m, n)
    BY <1>1, Frozen
<1>3. /\ InputInv /\ TakenInv /\ pc # "rank" /\ evaluated \in Seq(Candidate)
      /\ threshold \in Nat \X (Nat \ {0}) /\ Len(ranked) \in Nat
    BY <1>1, RankedFacts DEF IInv, InputInv
<1>4. InputInv'
    <2>1. Halved(threshold) \in Nat \X (Nat \ {0})
        BY <1>3 DEF Halved
    <2> QED BY <2>1, <1>1, <1>2, <1>3 DEF InputInv
<1>5. PassInv'
    <2>1. AtStart'
        BY <1>1, <1>4 DEF AtStart
    <2> QED BY <2>1, FreshPass, PTL
<1>6. ~NoLookAlikes(threshold)
    <2> SUFFICES ASSUME NoLookAlikes(threshold) PROVE FALSE
        OBVIOUS
    <2> DEFINE c == Cardinality(Places(Len(ranked)))
    <2>1. c \in Nat /\ fillableCount = MinOf(cfg.topK, c) /\ cfg.topK \in Nat /\ Len(selected) \in Nat
        BY <1>3, FillablePlaces, SubmittedFacts DEF InputInv
    <2> HIDE DEF c
    <2>2. Len(selected) < fillableCount
        BY <2>1, <1>1 DEF GoodEnough, MinOf
    <2>3. Len(selected) < cfg.topK /\ Len(selected) < c
        BY <2>1, <2>2 DEF MinOf
    <2>4. next > Len(ranked)
        <3>1. next \in Nat
            BY <1>3 DEF InputInv
        <3> QED BY <2>3, <3>1, <1>1, <1>3 DEF Scanning
    <2>5. Len(selected) = c
        BY <2>4, <1>3, FullWalk DEF c
    <2> QED BY <2>1, <2>3, <2>5
<1>7. HalvedInv'
    <2>1. PICK m \in BestOfLayouts, n \in BestOfLayouts : m # n /\ ~AtLeast(Distance(m, n), threshold)
        BY <1>6 DEF NoLookAlikes
    <2>2. Distance(m, n) \in Nat \X Nat
        BY <1>3, DistanceFacts, RankedFacts
    <2>3. ~AtLeast(Distance(m, n), Doubled(Halved(threshold)))
        BY <2>1, <2>2, <1>3, HalvedAndDoubled
    <2> QED BY <2>1, <2>3, <1>1, <1>2 DEF HalvedInv, NoLookAlikes, Doubled, AtLeast
<1>8. DoneInv'
    BY <1>1 DEF DoneInv
<1> QED BY <1>4, <1>5, <1>7, <1>8 DEF IInv, PassInv

(* The tests taken are returned in the order of their rank. *)
LEMMA ReturnStep ==
    ASSUME IInv, Return
    PROVE  IInv'
<1>1. /\ pc = "fill" /\ ~Scanning /\ GoodEnough
      /\ selected' = BestFirst(Submitted) /\ pc' = "done"
      /\ UNCHANGED <<evaluated, cfg, ranked, next, threshold>>
    BY DEF Return, Submitted
<1>2. /\ InputInv /\ TakenInv /\ pc # "rank" /\ evaluated \in Seq(Candidate)
      /\ Len(ranked) \in Nat /\ cfg.topK \in Nat /\ next \in Nat
    BY <1>1, RankedFacts DEF IInv, InputInv
<1>3. /\ Submitted \in SUBSET Entries /\ Cardinality(Submitted) = Len(selected)
      /\ Len(selected) \in Nat
    BY <1>2, SubmittedFacts
<1>4. Lists(selected', Submitted)
    BY <1>1, <1>2, <1>3, SortedList
<1>5. Submitted' = Submitted
    <2>1. selected' \in Seq(Submitted) /\ Submitted' = {selected'[i] : i \in DOMAIN selected'}
        BY <1>4 DEF Lists, Submitted, Range
    <2>2. \A i \in DOMAIN selected' : selected'[i] \in Submitted
        BY <2>1
    <2> QED BY <2>1, <2>2, <1>4 DEF Lists
<1>6. Len(selected') = Len(selected)
    BY <1>3, <1>4 DEF Lists
<1>7. /\ \A m, n : Distance(m, n)' = Distance(m, n)
      /\ Ranked' = Ranked /\ Entries' = Entries
    BY <1>1, Frozen
<1>8. /\ QuotaInv' /\ ApartInv' /\ HalvedInv'
      /\ \A i : Full(ranked[i])' <=> Full(ranked[i])
      /\ NoLookAlikes(threshold)' <=> NoLookAlikes(threshold)
    BY <1>1, <1>5, SameTaken DEF IInv
<1>9. InputInv'
    BY <1>1, <1>2, <1>7 DEF InputInv
<1>10. TakenInv'
    <2>1. selected' \in Seq(DOMAIN evaluated')
        <3>1. selected' \in Seq(Submitted)
            BY <1>4 DEF Lists
        <3> QED BY <3>1, <1>1, <1>3 DEF Entries
    <2>2. Len(selected') <= cfg'.topK
        BY <1>1, <1>2, <1>6 DEF TakenInv
    <2> QED BY <2>1, <2>2, <1>1, <1>2, <1>4, <1>5 DEF TakenInv, Lists
<1>11. ReasonInv' /\ HeadInv'
    BY <1>1, <1>5, <1>7, <1>8 DEF IInv, ReasonInv, HeadInv, AtLeast
<1>12. WalkInv'
    <2>1. Places(next - 1)' = Places(next - 1)
        BY <1>1, WalkFrozen DEF Places
    <2> QED BY <2>1, <1>1, <1>5, <1>8 DEF IInv, WalkInv
<1>13. DoneInv'
    <2>1. Len(selected) >= cfg.topK \/ next > Len(ranked)
        BY <1>1, <1>2, <1>3 DEF Scanning
    <2>2. GoodEnough' = GoodEnough
        <3>1. \A n : FrameOf(n)' = FrameOf(n)
            BY <1>1, Frozen
        <3>2. fillableCount' = fillableCount
            BY <1>1, <3>1 DEF fillableCount
        <3> QED BY <3>2, <1>1, <1>6 DEF GoodEnough, AtLeast
    <2> QED BY <2>1, <2>2, <1>1, <1>6 DEF DoneInv
<1> QED BY <1>8, <1>9, <1>10, <1>11, <1>12, <1>13 DEF IInv

LEMMA InitIInv == Init => IInv
<1> SUFFICES ASSUME Init PROVE IInv
    OBVIOUS
<1>1. PICK n \in 0..MaxEvaluated : evaluated \in [1..n -> Candidate]
    BY DEF Init
<1>2. evaluated \in Seq(Candidate) /\ Len(evaluated) = n
    BY <1>1
<1>3. InputInv
    BY <1>2, ThresholdType DEF Init, InputInv
<1>4. AtStart
    BY <1>3 DEF Init, AtStart
<1>5. HalvedInv /\ DoneInv
    BY DEF Init, HalvedInv, DoneInv
<1> QED BY <1>3, <1>4, <1>5, FreshPass DEF IInv, PassInv

(* Every step keeps the invariant. *)
LEMMA NextIInv == IInv /\ [Next]_vars => IInv'
<1> SUFFICES ASSUME IInv, [Next]_vars PROVE IInv'
    OBVIOUS
<1>1. CASE UNCHANGED vars
    <2>1. /\ UNCHANGED <<evaluated, cfg, ranked, threshold, pc, next, selected>>
          /\ Submitted' = Submitted
        BY <1>1 DEF vars, Submitted
    <2>2. /\ QuotaInv' /\ ApartInv' /\ HalvedInv'
          /\ \A i : Full(ranked[i])' <=> Full(ranked[i])
          /\ NoLookAlikes(threshold)' <=> NoLookAlikes(threshold)
        BY <2>1, SameTaken DEF IInv
    <2>3. (\A m, n : Distance(m, n)' = Distance(m, n)) /\ Ranked' = Ranked
          /\ \A n : FrameOf(n)' = FrameOf(n)
        BY <2>1, Frozen
    <2>4. InputInv' /\ TakenInv'
        BY <2>1, <2>3 DEF IInv, InputInv, TakenInv
    <2>5. ReasonInv' /\ HeadInv'
        BY <2>1, <2>2, <2>3 DEF IInv, ReasonInv, HeadInv, AtLeast
    <2>6. WalkInv'
        <3>1. Places(next - 1)' = Places(next - 1)
            BY <2>1, WalkFrozen DEF Places
        <3> QED BY <3>1, <2>1, <2>2 DEF IInv, WalkInv
    <2>7. DoneInv'
        <3>1. fillableCount' = fillableCount
            BY <2>1, <2>3 DEF fillableCount
        <3> QED BY <3>1, <2>1 DEF IInv, DoneInv, GoodEnough, AtLeast
    <2> QED BY <2>2, <2>4, <2>5, <2>6, <2>7 DEF IInv
<1> QED BY <1>1, RankStep, TakeStep, PassOverStep, ReturnStep, RelaxStep DEF Next

(* The invariant holds throughout. *)
THEOREM Invariance == Spec => []IInv
BY InitIInv, NextIInv, PTL DEF Spec

-----------------------------------------------------------------------------
(* When selectSuite returns. *)

LEMMA AtTheEnd ==
    ASSUME IInv, pc = "done"
    PROVE  /\ InputInv /\ TakenInv /\ pc # "rank" /\ evaluated \in Seq(Candidate)
           /\ cfg.topK \in Nat \ {0} /\ cfg.maxPerFrame \in Nat
           /\ Len(selected) >= cfg.topK \/ next = Len(ranked) + 1
           /\ \A n \in Submitted : n \in BestOfLayouts
<1>1. /\ InputInv /\ TakenInv /\ pc # "rank" /\ evaluated \in Seq(Candidate)
      /\ cfg.topK \in Nat \ {0} /\ cfg.maxPerFrame \in Nat
    BY DEF IInv, InputInv
<1>2. Len(ranked) \in Nat /\ \A i \in 1..Len(ranked) : ranked[i] \in BestOfLayouts
    BY <1>1, RankedFacts
<1>3. Len(selected) >= cfg.topK \/ next = Len(ranked) + 1
    BY <1>1, <1>2 DEF IInv, DoneInv, InputInv
<1>4. \A n \in Submitted : n \in BestOfLayouts
    <2> TAKE n \in Submitted
    <2>1. PICK i \in 1..(next - 1) : ranked[i] = n
        BY <1>1 DEF TakenInv
    <2>2. i \in 1..Len(ranked)
        BY <1>1, <1>2 DEF InputInv
    <2> QED BY <2>1, <2>2, <1>2
<1> QED BY <1>1, <1>3, <1>4

(* No two of the best of their layouts have one layout. *)
LEMMA OnePerLayout ==
    ASSUME evaluated \in Seq(Candidate), NEW m \in BestOfLayouts, NEW n \in BestOfLayouts, m # n
    PROVE  evaluated[m].layout # evaluated[n].layout
<1>1. m \in Entries /\ n \in Entries /\ m \in Scoring /\ n \in Scoring
    BY DEF BestOfLayouts, Scoring, Entries
<1>2. RanksBefore(m, n) \/ RanksBefore(n, m)
    BY <1>1, RanksTotally
<1> QED BY <1>1, <1>2 DEF BestOfLayouts

(* The suite that selectSuite returns keeps to topK and the frame quota,   *)
(* has no layout twice, and its flights are the threshold apart.           *)
THEOREM SuiteOfDistinctFlights == Spec => []FlightsDistinct
<1>1. IInv => FlightsDistinct
    <2> SUFFICES ASSUME IInv, pc = "done"
                 PROVE  /\ Admissible(Submitted)
                        /\ \A m, n \in Submitted : m # n => AtLeast(Distance(m, n), threshold)
        BY DEF FlightsDistinct
    <2>1. Cardinality(Submitted) <= cfg.topK
        BY AtTheEnd, SubmittedFacts DEF TakenInv
    <2>2. \A m, n \in Submitted : m # n => evaluated[m].layout # evaluated[n].layout
        BY AtTheEnd, OnePerLayout
    <2>3. cfg.maxPerFrame > 0 =>
             \A n \in Submitted : Cardinality({m \in Submitted : FrameOf(m) = FrameOf(n)}) <= cfg.maxPerFrame
        <3>1. Submitted \subseteq DOMAIN evaluated
            BY AtTheEnd, SubmittedFacts DEF Entries
        <3> QED BY <3>1 DEF IInv, QuotaInv, OfFrame
    <2> QED BY <2>1, <2>2, <2>3 DEF Admissible, IInv, ApartInv
<1> QED BY <1>1, Invariance, PTL

(* A test that scores and is not in the suite is left out for a reason     *)
(* that stands when selectSuite returns.                                   *)
THEOREM NothingDroppedSilently == Spec => []LeftOutForAReason
<1>1. IInv => LeftOutForAReason
    <2> SUFFICES ASSUME IInv, pc = "done", Len(selected) < cfg.topK,
                        NEW n \in Scoring \ Submitted
                 PROVE  \/ \E m \in Scoring : evaluated[m].layout = evaluated[n].layout /\ RanksBefore(m, n)
                        \/ FrameFull(n)
                        \/ \E m \in Submitted :
                              /\ RanksBefore(m, n) \/ (cfg.keepBestGate /\ evaluated[m].layout \in Gate)
                              /\ ~AtLeast(Distance(m, n), threshold)
        BY DEF LeftOutForAReason
    <2>1. CASE n \notin BestOfLayouts
        BY <2>1 DEF BestOfLayouts
    <2>2. CASE n \in BestOfLayouts
        <3>1. /\ InputInv /\ TakenInv /\ pc # "rank" /\ evaluated \in Seq(Candidate)
              /\ Len(selected) \in Nat /\ cfg.topK \in Nat /\ Len(ranked) \in Nat
              /\ DOMAIN ranked = 1..Len(ranked) /\ n \in Entries
            BY <2>2, AtTheEnd, SubmittedFacts, RankedFacts
        <3>2. next = Len(ranked) + 1
            BY <3>1, AtTheEnd
        <3>3. PICK i \in 1..Len(ranked) : ranked[i] = n
            BY <2>2, <3>1, RankedFacts
        <3>4. i \in 1..(next - 1)
            BY <3>1, <3>2
        <3>5. CASE Full(n)
            BY <3>1, <3>5, FullFrame
        <3>6. CASE \E k \in 1..(i - 1) : ranked[k] \in Submitted /\ ~AtLeast(Distance(n, ranked[k]), threshold)
            <4>1. PICK k \in 1..(i - 1) : ranked[k] \in Submitted /\ ~AtLeast(Distance(n, ranked[k]), threshold)
                BY <3>6
            <4>2. k \in 1..Len(ranked) /\ k < i
                BY <3>1
            <4>3. ranked = Ranked
                BY <3>1 DEF InputInv
            <4>4. RanksBefore(ranked[k], n) \/ (k = 1 /\ cfg.keepBestGate /\ IsGate(ranked[1]))
                BY <4>2, <4>3, <3>1, <3>3, WalkedList
            <4>5. Distance(ranked[k], n) = Distance(n, ranked[k])
                BY <4>2, <3>1, RankedFacts, DistanceFacts
            <4> QED BY <4>1, <4>4, <4>5 DEF IsGate
        <3> QED BY <3>3, <3>4, <3>5, <3>6 DEF IInv, ReasonInv
    <2> QED BY <2>1, <2>2
<1> QED BY <1>1, Invariance, PTL

(* The best test, or with keepBestGate the best gate, is in the suite. *)
THEOREM BestIsSubmitted == Spec => []BestSubmitted
<1>1. IInv => BestSubmitted
    <2> DEFINE kept == cfg.keepBestGate /\ \E n \in Scoring : IsGate(n)
               leads == IF kept THEN {n \in Scoring : IsGate(n)} ELSE Scoring
    <2> SUFFICES ASSUME IInv, pc = "done", NEW n \in leads, \A m \in leads \ {n} : RanksBefore(n, m)
                 PROVE  n \in Submitted
        BY DEF BestSubmitted, IsGate
    <2>1. /\ InputInv /\ TakenInv /\ pc # "rank" /\ evaluated \in Seq(Candidate)
          /\ cfg.topK \in Nat \ {0}
        BY AtTheEnd
    <2>2. /\ n \in Scoring /\ (kept => IsGate(n))
          /\ \A m \in Scoring : m # n /\ (kept => IsGate(m)) => RanksBefore(n, m)
        OBVIOUS
    <2> HIDE DEF leads
    <2>3. Scoring \subseteq Entries /\ BestOfLayouts \subseteq Scoring
        BY <2>1, RankedFacts
    <2>4. n \in BestOfLayouts
        <3> SUFFICES ASSUME NEW m \in Scoring, evaluated[m].layout = evaluated[n].layout, RanksBefore(m, n)
                     PROVE  FALSE
            BY <2>2 DEF BestOfLayouts
        <3>1. m # n
            BY <2>1, <2>2, <2>3, RanksTotally
        <3>2. RanksBefore(n, m)
            BY <3>1, <2>2 DEF IsGate
        <3> QED BY <3>2, <2>1, <2>2, <2>3, RanksTotally
    <2>5. ranked[1] = n
        <3>1. ranked = Ranked
            BY <2>1 DEF InputInv
        <3>2. CASE kept
            BY <3>1, <3>2, <2>1, <2>2, <2>3, <2>4, WalkedList
        <3>3. CASE ~kept
            <4>1. ~(cfg.keepBestGate /\ \E m \in BestOfLayouts : IsGate(m))
                BY <3>3, <2>3
            <4>2. \A m \in BestOfLayouts \ {n} : RanksBefore(n, m)
                BY <3>3, <2>2, <2>3
            <4> QED BY <4>1, <4>2, <3>1, <2>1, <2>4, WalkedList
        <3> QED BY <3>2, <3>3
    <2>6. next > 1
        <3>1. Len(ranked) \in Nat /\ Len(ranked) # 0 /\ next \in 1..(Len(ranked) + 1)
            BY <2>1, <2>4, RankedFacts DEF InputInv
        <3>2. CASE Len(selected) >= cfg.topK
            <4>1. Len(selected) \in Nat /\ Cardinality(Submitted) = Len(selected)
                BY <2>1, SubmittedFacts
            <4>2. Submitted # {}
                <5>1. Cardinality(Submitted) # 0
                    BY <4>1, <3>2, <2>1
                <5> QED BY <5>1, FS_EmptySet
            <4>3. PICK i \in 1..(next - 1) : TRUE
                BY <4>2, <2>1 DEF TakenInv
            <4> QED BY <4>3, <3>1
        <3>3. CASE next = Len(ranked) + 1
            BY <3>1, <3>3
        <3> QED BY <3>2, <3>3, AtTheEnd
    <2> QED BY <2>5, <2>6 DEF IInv, HeadInv
<1> QED BY <1>1, Invariance, PTL

-----------------------------------------------------------------------------
(* How many tests a suite can hold. *)

(* Every test that scores has a best one of its layout. *)
LEMMA BestOfItsLayout ==
    ASSUME evaluated \in Seq(Candidate), NEW n \in Scoring
    PROVE  \E b \in BestOfLayouts : evaluated[b].layout = evaluated[n].layout
<1> DEFINE T == {m \in Scoring : evaluated[m].layout = evaluated[n].layout}
           s == BestFirst(T)
<1>1. T \in SUBSET Entries /\ n \in T
    BY DEF Scoring, Entries
<1>2. Lists(s, T) /\ \A i, j \in DOMAIN s : i < j => RanksBefore(s[i], s[j])
    BY <1>1, SortedList
<1>3. \A m \in T : m \in Scoring /\ evaluated[m].layout = evaluated[n].layout
    OBVIOUS
<1>4. \A m \in Scoring : evaluated[m].layout = evaluated[n].layout => m \in T
    OBVIOUS
<1> HIDE DEF s, T
<1>5. /\ s \in Seq(T) /\ DOMAIN s = 1..Len(s) /\ Len(s) \in Nat
      /\ \A m \in T : \E i \in DOMAIN s : s[i] = m
    BY <1>2 DEF Lists
<1>6. 1 \in DOMAIN s
    BY <1>1, <1>5
<1>7. s[1] \in T
    BY <1>5, <1>6
<1>8. \A m \in T : ~RanksBefore(m, s[1])
    <2> TAKE m \in T
    <2>1. PICK i \in DOMAIN s : s[i] = m
        BY <1>5
    <2>2. i = 1 \/ 1 < i
        BY <1>5
    <2>3. s[1] \in Entries /\ m \in Entries
        BY <1>1, <1>7
    <2> QED BY <2>1, <2>2, <2>3, <1>2, <1>6, RanksTotally
<1>9. s[1] \in BestOfLayouts
    BY <1>7, <1>8, <1>3, <1>4 DEF BestOfLayouts
<1> QED BY <1>7, <1>9, <1>3

(* A smaller set maps one-to-one into a larger one. *)
LEMMA FitsInto ==
    ASSUME NEW A, NEW B, IsFiniteSet(A), IsFiniteSet(B), Cardinality(A) <= Cardinality(B)
    PROVE  \E g : g \in Injection(A, B)
<1>1. PICK f : f \in Bijection(1..Cardinality(A), A)
    BY FS_CardinalityType DEF ExistsBijection
<1>2. PICK h : h \in Bijection(1..Cardinality(B), B)
    BY FS_CardinalityType DEF ExistsBijection
<1>3. Cardinality(A) \in Nat /\ Cardinality(B) \in Nat
    BY FS_CardinalityType
<1> DEFINE index(x) == CHOOSE i \in 1..Cardinality(A) : f[i] = x
           g == [x \in A |-> h[index(x)]]
<1>4. \A x \in A : index(x) \in 1..Cardinality(A) /\ f[index(x)] = x
    <2>1. \A x \in A : \E i \in 1..Cardinality(A) : f[i] = x
        BY <1>1 DEF Bijection, Surjection
    <2> QED BY <2>1
<1> HIDE DEF index
<1>5. \A x \in A : index(x) \in 1..Cardinality(B)
    BY <1>3, <1>4
<1>6. g \in [A -> B]
    BY <1>2, <1>5 DEF Bijection, Injection
<1>7. \A x, y \in A : g[x] = g[y] => x = y
    <2> SUFFICES ASSUME NEW x \in A, NEW y \in A, g[x] = g[y] PROVE x = y
        OBVIOUS
    <2>1. index(x) = index(y)
        BY <1>2, <1>5 DEF Bijection, Injection, IsInjective
    <2> QED BY <2>1, <1>4
<1> QED BY <1>6, <1>7 DEF Injection, IsInjective

(* No choice of tests that topK and the quota admit is larger than the     *)
(* number of places the quota has room for: a better test of the same      *)
(* layout is in the list, and frame by frame there are no fewer places.    *)
LEMMA MostThatFit ==
    ASSUME InputInv, pc # "rank", NEW S \in SUBSET Scoring, Admissible(S)
    PROVE  /\ Cardinality(S) \in Nat
           /\ Cardinality(S) <= Cardinality(Places(Len(ranked)))
<1> DEFINE L == Len(ranked)
           M == cfg.maxPerFrame
           P == Places(Len(ranked))
           at(n) == CHOOSE i \in 1..Len(ranked) : evaluated[ranked[i]].layout = evaluated[n].layout
<1>1. evaluated \in Seq(Candidate) /\ L \in Nat /\ M \in Nat /\ IsFiniteSet(P) /\ Cardinality(P) \in Nat
    BY RankedFacts, FillablePlaces DEF InputInv
<1>2. IsFiniteSet(S) /\ Cardinality(S) \in Nat
    <2>1. S \in SUBSET Entries /\ IsFiniteSet(Entries)
        BY <1>1, RankedFacts, CandidateFacts
    <2> QED BY <2>1, FS_Subset, FS_CardinalityType
<1>3. \A n \in S : at(n) \in 1..L /\ evaluated[ranked[at(n)]].layout = evaluated[n].layout
    <2> TAKE n \in S
    <2>1. PICK b \in BestOfLayouts : evaluated[b].layout = evaluated[n].layout
        BY <1>1, BestOfItsLayout
    <2>2. PICK i \in 1..L : ranked[i] = b
        BY RankedFacts
    <2> QED BY <2>1, <2>2
<1> HIDE DEF at
<1>4. \A m, n \in S : at(m) = at(n) => m = n
    BY <1>3 DEF Admissible
<1>5. \A n \in S : FrameOf(ranked[at(n)]) = FrameOf(n)
    BY <1>3 DEF FrameOf
<1>6. CASE M = 0
    <2>1. P = 1..L
        BY <1>6 DEF Places, InQuota
    <2> DEFINE f == [n \in S |-> at(n)]
    <2>2. f \in Injection(S, P)
        BY <2>1, <1>3, <1>4 DEF Injection, IsInjective
    <2> QED BY <2>2, <1>1, <1>2, FS_Injection
<1>7. CASE M # 0
    <2> DEFINE A(f) == {n \in S : FrameOf(n) = f}
               B(f) == {i \in P : FrameOf(ranked[i]) = f}
               G(f) == CHOOSE g : g \in Injection(A(f), B(f))
               q == [n \in S |-> G(FrameOf(n))[n]]
    <2>1. ASSUME NEW n \in S PROVE \E g : g \in Injection(A(FrameOf(n)), B(FrameOf(n)))
        <3> DEFINE a == A(FrameOf(n))
                   b == B(FrameOf(n))
                   c == SameFrame(at(n), L)
                   e == [m \in A(FrameOf(n)) |-> at(m)]
        <3>1. IsFiniteSet(a) /\ IsFiniteSet(b) /\ Cardinality(a) \in Nat
            <4>1. a \in SUBSET S /\ b \in SUBSET P
                OBVIOUS
            <4> QED BY <4>1, <1>1, <1>2, FS_Subset, FS_CardinalityType
        <3>2. Cardinality(a) <= M
            BY <1>1, <1>7 DEF Admissible
        <3>3. Cardinality(a) <= Cardinality(c) /\ Cardinality(c) \in Nat
            <4>1. e \in Injection(a, c)
                <5>1. \A m \in a : at(m) \in c
                    BY <1>3, <1>5 DEF SameFrame
                <5> QED BY <5>1, <1>4 DEF Injection, IsInjective
            <4>2. IsFiniteSet(c) /\ Cardinality(c) \in Nat
                BY <1>1, <1>3, FrameCounts
            <4> HIDE DEF a, c, e
            <4> QED BY <4>1, <4>2, FS_Injection
        <3>4. b = InFrame(at(n), L)
            BY <1>5 DEF InFrame
        <3>5. Cardinality(b) = MinOf(M, Cardinality(c))
            <4>1. cfg.maxPerFrame > 0 /\ at(n) \in 1..Len(ranked) /\ Len(ranked) \in 0..Len(ranked)
                BY <1>1, <1>3, <1>7
            <4>2. Cardinality(InFrame(at(n), Len(ranked))) =
                     MinOf(cfg.maxPerFrame, Cardinality(SameFrame(at(n), Len(ranked))))
                BY <4>1, QuotaCount
            <4> QED BY <3>4, <4>2
        <3> HIDE DEF a, b, c, e, M
        <3>6. Cardinality(a) <= Cardinality(b)
            BY <3>1, <3>2, <3>3, <3>5, <1>1 DEF MinOf
        <3>7. \E g : g \in Injection(a, b)
            BY <3>1, <3>6, FitsInto
        <3> QED BY <3>7 DEF a, b
    <2>2. \A n \in S : G(FrameOf(n)) \in Injection(A(FrameOf(n)), B(FrameOf(n)))
        BY <2>1
    <2>3. \A n \in S : n \in A(FrameOf(n))
        OBVIOUS
    <2>4. \A f : \A i \in B(f) : i \in P /\ FrameOf(ranked[i]) = f
        OBVIOUS
    <2> HIDE DEF A, B, G
    <2>5. \A n \in S : q[n] \in B(FrameOf(n)) /\ q[n] = G(FrameOf(n))[n]
        BY <2>2, <2>3 DEF Injection
    <2>6. \A m, n \in S : q[m] = q[n] => m = n
        <3> SUFFICES ASSUME NEW m \in S, NEW n \in S, q[m] = q[n] PROVE m = n
            OBVIOUS
        <3>1. FrameOf(m) = FrameOf(n)
            BY <2>4, <2>5
        <3> QED BY <3>1, <2>2, <2>3, <2>5 DEF Injection, IsInjective
    <2>7. q \in Injection(S, P)
        BY <2>4, <2>5, <2>6 DEF Injection, IsInjective
    <2> HIDE DEF q, P
    <2> QED BY <2>7, <1>1, <1>2, FS_Injection DEF P
<1> QED BY <1>6, <1>7

(* With relaxation and no exact look-alikes the suite is as large as topK  *)
(* and the frame quota allow, and the threshold is halved for look-alikes  *)
(* only: fillableCount neither stops the loop early nor lets it relax for  *)
(* places that the quota would keep empty.                                 *)
THEOREM RelaxedOnlyAsNeeded == Spec => []RelaxedAsNeeded
<1>1. IInv => RelaxedForLookAlikes
    BY DEF IInv, HalvedInv, NoLookAlikes, Doubled, RelaxedForLookAlikes
<1>2. IInv => FilledWhenPossible
    <2> SUFFICES ASSUME IInv, pc = "done", cfg.relaxSimilarity,
                        \A m, n \in Scoring : m # n => AtLeast(Distance(m, n), <<MIN_THRESHOLD_M, 1>>),
                        NEW S \in SUBSET Scoring, Admissible(S)
                 PROVE  Cardinality(S) <= Len(selected)
        BY DEF FilledWhenPossible
    <2> DEFINE c == Cardinality(Places(Len(ranked)))
               s == Cardinality(S)
    <2>1. /\ InputInv /\ TakenInv /\ pc # "rank" /\ evaluated \in Seq(Candidate)
          /\ cfg.topK \in Nat /\ Len(selected) \in Nat
          /\ threshold \in Nat \X (Nat \ {0}) /\ Len(ranked) \in Nat
        BY AtTheEnd, SubmittedFacts, RankedFacts DEF InputInv
    <2>2. s \in Nat /\ s <= c /\ s <= cfg.topK /\ c \in Nat
        BY <2>1, MostThatFit, FillablePlaces DEF Admissible
    <2>3. fillableCount = MinOf(cfg.topK, c)
        BY <2>1, FillablePlaces
    <2> HIDE DEF c, s
    <2>4. CASE Len(selected) >= cfg.topK \/ Len(selected) >= fillableCount
        <3>1. s <= Len(selected)
            BY <2>1, <2>2, <2>3, <2>4 DEF MinOf
        <3> QED BY <3>1 DEF s
    <2>5. CASE next = Len(ranked) + 1 /\ AtLeast(<<MIN_THRESHOLD_M, 1>>, threshold)
        <3>1. NoLookAlikes(threshold)
            <4> SUFFICES ASSUME NEW m \in BestOfLayouts, NEW n \in BestOfLayouts, m # n
                         PROVE  AtLeast(Distance(m, n), threshold)
                BY DEF NoLookAlikes
            <4>1. m \in Scoring /\ n \in Scoring /\ m \in Entries /\ n \in Entries
                BY <2>1, RankedFacts
            <4>2. Distance(m, n) \in Nat \X Nat /\ AtLeast(Distance(m, n), <<MIN_THRESHOLD_M, 1>>)
                BY <4>1, <2>1, DistanceFacts
            <4> QED BY <4>2, <2>1, <2>5, FartherStill
        <3>2. next > Len(ranked)
            BY <2>1, <2>5
        <3>3. Len(selected) = c
            BY <3>1, <3>2, <2>1, FullWalk DEF c
        <3> QED BY <3>3, <2>2 DEF s
    <2>6. (Len(selected) >= cfg.topK \/ next = Len(ranked) + 1) /\ GoodEnough
        BY AtTheEnd DEF IInv, DoneInv
    <2> QED BY <2>4, <2>5, <2>6 DEF GoodEnough
<1>3. IInv => RelaxedAsNeeded
    BY <1>1, <1>2 DEF RelaxedAsNeeded
<1> QED BY <1>3, Invariance, PTL
=============================================================================
