--------------------------- MODULE OperatorProofs ---------------------------
(***************************************************************************)
(* The pure functions of the generator, for every input: sums of points,   *)
(* tiers and shaping of Scoring; segments, distances and boxes of Geometry. *)
(* The proofs of the modules that use them rest on these lemmas.           *)
(***************************************************************************)
EXTENDS Geometry, Scoring, FiniteSetTheorems, WellFoundedInduction, NaturalsInduction, TLAPS

(***************************************************************************)
(* Finite sums.  SumFunction of the community module Functions is a        *)
(* recursive function on the subsets of the domain; the lemmas show that it *)
(* exists for every finite domain, and what kind of number it returns.     *)
(* Induction is by a least counterexample.                                 *)
(***************************************************************************)

(* A set of numbers that is not empty has a least element. *)
LEMMA LeastNumber ==
    ASSUME NEW T \in SUBSET Nat, T # {}
    PROVE  \E n \in T : \A m \in T : n <= m
<1>1. PICK n \in T : \A m \in T : ~(<<m, n>> \in OpToRel(<, Nat))
    BY NatLessThanWellFounded, WFMin
<1>2. \A m \in T : ~(m < n)
    BY <1>1 DEF OpToRel
<1> QED BY <1>2

(* A set of numbers with 0 and the successor of each is all of Nat. *)
LEMMA CountingUp ==
    ASSUME NEW T \in SUBSET Nat, 0 \in T, \A n \in T : n + 1 \in T
    PROVE  T = Nat
<1> SUFFICES ASSUME Nat \ T # {} PROVE FALSE
    OBVIOUS
<1>1. PICK n \in Nat \ T : \A m \in Nat \ T : n <= m
    BY LeastNumber
<1>2. n # 0 /\ n - 1 \in Nat /\ n - 1 \notin Nat \ T
    BY <1>1
<1>3. n - 1 \in T /\ (n - 1) + 1 = n
    BY <1>2
<1> QED BY <1>1, <1>3

(* The element a sum takes out next, and what makes g the table of the sums *)
(* of f over the sets in D.                                                *)
Pick(s) == CHOOSE x \in s : TRUE
IsSum(g, f, D) == g = [s \in D |-> IF s = {} THEN 0 ELSE f[Pick(s)] + g[s \ {Pick(s)}]]

(* Smaller(S, n): the subsets of S with at most n elements. *)
Smaller(S, n) == {s \in SUBSET S : Cardinality(s) <= n}

(* Taking an element out of a finite set leaves a smaller one. *)
LEMMA PickFacts ==
    ASSUME NEW S, IsFiniteSet(S), NEW s \in SUBSET S, s # {}
    PROVE  /\ Pick(s) \in s
           /\ s \ {Pick(s)} \in SUBSET S
           /\ Cardinality(s) \in Nat
           /\ Cardinality(s) > 0
           /\ Cardinality(s \ {Pick(s)}) = Cardinality(s) - 1
<1>1. Pick(s) \in s
    BY DEF Pick
<1>2. IsFiniteSet(s) /\ Cardinality(s) \in Nat /\ Cardinality(s) # 0
    BY FS_Subset, FS_CardinalityType, FS_EmptySet
<1>3. Cardinality(s \ {Pick(s)}) = Cardinality(s) - 1
    BY <1>1, <1>2, FS_RemoveElement
<1> QED BY <1>1, <1>2, <1>3

(* The table exists. *)
LEMMA SumExists ==
    ASSUME NEW S, IsFiniteSet(S), NEW f
    PROVE  \E g : IsSum(g, f, SUBSET S)
<1> DEFINE T == {n \in Nat : \E g : IsSum(g, f, Smaller(S, n))}
<1>1. 0 \in T
    <2>1. Smaller(S, 0) = {{}}
        <3>1. \A s \in SUBSET S : Cardinality(s) \in Nat /\ (Cardinality(s) = 0 <=> s = {})
            BY FS_Subset, FS_CardinalityType, FS_EmptySet
        <3> QED BY <3>1 DEF Smaller
    <2>2. IsSum([s \in {{}} |-> 0], f, Smaller(S, 0))
        BY <2>1 DEF IsSum
    <2> QED BY <2>2
<1>2. ASSUME NEW n \in T PROVE n + 1 \in T
    <2>1. n \in Nat
        OBVIOUS
    <2>2. PICK g : IsSum(g, f, Smaller(S, n))
        OBVIOUS
    <2> DEFINE h == [s \in Smaller(S, n + 1) |-> IF s = {} THEN 0 ELSE f[Pick(s)] + g[s \ {Pick(s)}]]
    <2>3. \A s \in Smaller(S, n) : s \in Smaller(S, n + 1) /\ h[s] = g[s]
        <3> SUFFICES ASSUME NEW s \in Smaller(S, n) PROVE s \in Smaller(S, n + 1) /\ h[s] = g[s]
            OBVIOUS
        <3>1. Cardinality(s) \in Nat /\ Cardinality(s) <= n /\ s \in SUBSET S
            BY FS_Subset, FS_CardinalityType DEF Smaller
        <3>2. s \in Smaller(S, n + 1)
            BY <3>1, <2>1 DEF Smaller
        <3>3. g[s] = IF s = {} THEN 0 ELSE f[Pick(s)] + g[s \ {Pick(s)}]
            BY <2>2 DEF IsSum
        <3> QED BY <3>2, <3>3
    <2>4. \A s \in Smaller(S, n + 1) : s # {} => s \ {Pick(s)} \in Smaller(S, n)
        <3> SUFFICES ASSUME NEW s \in Smaller(S, n + 1), s # {} PROVE s \ {Pick(s)} \in Smaller(S, n)
            OBVIOUS
        <3>1. s \in SUBSET S /\ Cardinality(s) <= n + 1
            BY DEF Smaller
        <3> QED BY <3>1, <2>1, PickFacts DEF Smaller
    <2>5. h = [s \in Smaller(S, n + 1) |-> IF s = {} THEN 0 ELSE f[Pick(s)] + h[s \ {Pick(s)}]]
        BY <2>3, <2>4
    <2> HIDE DEF h
    <2>6. IsSum(h, f, Smaller(S, n + 1))
        BY <2>5 DEF IsSum
    <2> QED BY <2>1, <2>6
<1> HIDE DEF T
<1>3. T \in SUBSET Nat
    BY DEF T
<1>4. T = Nat
    BY <1>1, <1>2, <1>3, CountingUp
<1>5. Cardinality(S) \in Nat
    BY FS_CardinalityType
<1>6. Smaller(S, Cardinality(S)) = SUBSET S
    BY FS_Subset DEF Smaller
<1>7. Cardinality(S) \in T
    BY <1>4, <1>5
<1> QED BY <1>6, <1>7 DEF T

(* SumFunction reads its value off such a table. *)
LEMMA SumTable ==
    ASSUME NEW f, IsFiniteSet(DOMAIN f)
    PROVE  \E g : IsSum(g, f, SUBSET DOMAIN f) /\ SumFunction(f) = g[DOMAIN f]
<1> DEFINE g == CHOOSE h : IsSum(h, f, SUBSET DOMAIN f)
<1>1. SumFunction(f) = g[DOMAIN f]
    BY DEF SumFunction, SumFunctionOnSet, FoldFunctionOnSet, MapThenFoldSet, IsSum, Pick
<1>2. \E h : IsSum(h, f, SUBSET DOMAIN f)
    BY SumExists
<1> HIDE DEF g
<1>3. IsSum(g, f, SUBSET DOMAIN f)
    BY <1>2 DEF g
<1> QED BY <1>1, <1>3

(* A set of subsets that has {} and every set one element larger than one  *)
(* of its members has them all.                                            *)
LEMMA AllSubsets ==
    ASSUME NEW S, IsFiniteSet(S), NEW G \in SUBSET (SUBSET S), {} \in G,
           \A s \in SUBSET S : s # {} /\ s \ {Pick(s)} \in G => s \in G
    PROVE  S \in G
<1> DEFINE T == {n \in Nat : \A s \in Smaller(S, n) : s \in G}
<1>1. 0 \in T
    <2>1. \A s \in SUBSET S : Cardinality(s) \in Nat /\ (Cardinality(s) = 0 <=> s = {})
        BY FS_Subset, FS_CardinalityType, FS_EmptySet
    <2> QED BY <2>1 DEF Smaller
<1>2. ASSUME NEW n \in T PROVE n + 1 \in T
    <2> SUFFICES ASSUME NEW s \in Smaller(S, n + 1), s # {} PROVE s \in G
        BY DEF Smaller
    <2>1. s \in SUBSET S /\ Cardinality(s) <= n + 1 /\ n \in Nat
        BY DEF Smaller
    <2>2. s \ {Pick(s)} \in Smaller(S, n)
        BY <2>1, PickFacts DEF Smaller
    <2> QED BY <2>1, <2>2
<1> HIDE DEF T
<1>3. T \in SUBSET Nat
    BY DEF T
<1>4. T = Nat
    BY <1>1, <1>2, <1>3, CountingUp
<1>5. Cardinality(S) \in Nat
    BY FS_CardinalityType
<1>6. S \in Smaller(S, Cardinality(S))
    BY <1>5 DEF Smaller
<1>7. Cardinality(S) \in T
    BY <1>4, <1>5
<1> QED BY <1>6, <1>7 DEF T

(* A sum of integers is an integer. *)
LEMMA SumOfIntegers ==
    ASSUME NEW f, IsFiniteSet(DOMAIN f), \A x \in DOMAIN f : f[x] \in Int
    PROVE  SumFunction(f) \in Int
<1>1. PICK g : IsSum(g, f, SUBSET DOMAIN f) /\ SumFunction(f) = g[DOMAIN f]
    BY SumTable
<1> DEFINE S == DOMAIN f
           G == {s \in SUBSET S : g[s] \in Int}
<1>2. {} \in G
    BY <1>1 DEF IsSum
<1>3. ASSUME NEW s \in SUBSET S, s # {}, s \ {Pick(s)} \in G PROVE s \in G
    <2>1. Pick(s) \in s
        BY <1>3 DEF Pick
    <2>2. g[s] = f[Pick(s)] + g[s \ {Pick(s)}]
        BY <1>1, <1>3 DEF IsSum
    <2> QED BY <1>3, <2>1, <2>2
<1> HIDE DEF G
<1>4. G \in SUBSET (SUBSET S)
    BY DEF G
<1>5. S \in G
    BY <1>2, <1>3, <1>4, AllSubsets
<1> QED BY <1>1, <1>5 DEF G

(* A sum of natural numbers is one, and zero only if all of them are. *)
LEMMA SumOfNaturals ==
    ASSUME NEW f, IsFiniteSet(DOMAIN f), \A x \in DOMAIN f : f[x] \in Nat
    PROVE  /\ SumFunction(f) \in Nat
           /\ SumFunction(f) = 0 <=> \A x \in DOMAIN f : f[x] = 0
<1>1. PICK g : IsSum(g, f, SUBSET DOMAIN f) /\ SumFunction(f) = g[DOMAIN f]
    BY SumTable
<1> DEFINE S == DOMAIN f
           G == {s \in SUBSET S : g[s] \in Nat /\ (g[s] = 0 <=> \A x \in s : f[x] = 0)}
<1>2. {} \in G
    BY <1>1 DEF IsSum
<1>3. ASSUME NEW s \in SUBSET S, s # {}, s \ {Pick(s)} \in G PROVE s \in G
    <2> DEFINE p == Pick(s)
    <2>1. p \in s
        BY <1>3 DEF Pick
    <2>2. g[s] = f[p] + g[s \ {p}]
        BY <1>1, <1>3 DEF IsSum
    <2> HIDE DEF p
    <2>3. /\ f[p] \in Nat /\ g[s \ {p}] \in Nat
          /\ g[s \ {p}] = 0 <=> \A x \in s \ {p} : f[x] = 0
        BY <1>3, <2>1 DEF p
    <2>4. g[s] \in Nat /\ (g[s] = 0 <=> f[p] = 0 /\ g[s \ {p}] = 0)
        BY <2>2, <2>3
    <2>5. (\A x \in s : f[x] = 0) <=> f[p] = 0 /\ \A x \in s \ {p} : f[x] = 0
        BY <2>1
    <2> QED BY <2>3, <2>4, <2>5
<1> HIDE DEF G
<1>4. G \in SUBSET (SUBSET S)
    BY DEF G
<1>5. S \in G
    BY <1>2, <1>3, <1>4, AllSubsets
<1> QED BY <1>1, <1>5 DEF G

-----------------------------------------------------------------------------
(* The numbers from 1 to n. *)
LEMMA Initial == \A n \in Nat : IsFiniteSet(1..n) /\ Cardinality(1..n) = n
<1> TAKE n \in Nat
<1>1. 1 \in Int /\ n \in Int
    OBVIOUS
<1>2. IsFiniteSet(1..n) /\ Cardinality(1..n) = IF 1 > n THEN 0 ELSE n - 1 + 1
    BY <1>1, FS_Interval
<1> QED BY <1>2

(* A power of two is a positive number: it counts the subsets of a set. *)
LEMMA PowerOfTwo == \A n \in Nat : 2^n \in Nat \ {0}
<1> TAKE n \in Nat
<1>1. IsFiniteSet(1..n) /\ Cardinality(1..n) = n
    BY Initial
<1>2. IsFiniteSet(SUBSET (1..n)) /\ Cardinality(SUBSET (1..n)) = 2^n
    BY <1>1, FS_SUBSET
<1>3. Cardinality(SUBSET (1..n)) \in Nat
    BY <1>2, FS_CardinalityType
<1>4. Cardinality(SUBSET (1..n)) # 0
    BY <1>2, FS_EmptySet
<1> QED BY <1>2, <1>3, <1>4

(* Points are natural numbers. *)
LEMMA PointsType ==
    ASSUME NEW d \in Nat
    PROVE  tierPoints(d) \in Nat /\ shapedPoints(d) \in Nat
<1> DEFINE B == {i \in DOMAIN TIER_BOUNDS : d >= TIER_BOUNDS[i]}
<1>1. DOMAIN TIER_BOUNDS = 1..3 /\ TIER_BOUNDS = <<25, 100, 150>>
    BY DEF TIER_BOUNDS
<1>2. IsFiniteSet(1..3) /\ Cardinality(1..3) = 3 /\ B \subseteq 1..3
    BY <1>1, Initial
<1> HIDE DEF B
<1>3. Cardinality(B) \in Nat /\ Cardinality(B) <= 3
    <2>1. B \in SUBSET (1..3)
        BY <1>2
    <2>2. IsFiniteSet(B) /\ Cardinality(B) <= Cardinality(1..3)
        BY <1>2, <2>1, FS_Subset, Zenon
    <2>3. Cardinality(B) \in Nat
        BY <2>2, FS_CardinalityType
    <2> QED BY <1>2, <2>2, <2>3
<1>4. Tier(d) \in 1..4
    BY <1>3 DEF Tier, B
<1>5. tierPoints(d) \in Nat
    BY <1>4 DEF tierPoints, TIER_POINTS
<1>6. Tier(d) = 4 => d >= 150
    <2> SUFFICES ASSUME Tier(d) = 4 PROVE d >= 150
        OBVIOUS
    <2>1. Cardinality(B) = 3
        BY <1>3 DEF Tier, B
    <2>2. B = 1..3
        BY <1>2, <2>1, FS_Subset
    <2>3. 3 \in B
        BY <2>2
    <2> QED BY <2>3, <1>1 DEF B
<1>7. \A t \in 1..3 : Tier(d) = t => d <= TIER_BOUNDS[t]
    <2> SUFFICES ASSUME NEW t \in 1..3, Tier(d) = t, d > TIER_BOUNDS[t] PROVE FALSE
        BY <1>1
    <2>1. 1..t \subseteq B
        BY <1>1 DEF B
    <2>2. IsFiniteSet(B)
        BY <1>2, FS_Subset
    <2>4. t \in Nat /\ Cardinality(1..t) = t
        BY Initial
    <2>3. t <= Cardinality(B)
        BY <2>1, <2>2, <2>4, FS_Subset
    <2> QED BY <2>3, <2>4, <1>3 DEF Tier, B
<1>8. shapingTerm(d) \in Nat
    <2>1. CASE Tier(d) = 4
        <3>1. (d - 150) \div 69 \in Nat
            BY <2>1, <1>6
        <3>2. 2^((d - 150) \div 69) \in Nat \ {0}
            BY <3>1, PowerOfTwo
        <3>3. 1000 \div 2^((d - 150) \div 69) \in Nat
            BY <3>2
        <3>4. shapingTerm(d) = 1000 \div 2^((d - 150) \div 69)
            BY <2>1, <1>1 DEF shapingTerm, Halvings
        <3> QED BY <3>3, <3>4
    <2>2. CASE Tier(d) = 1
        <3>1. shapingTerm(d) = (1000 * (25 - d)) \div (25 - 0) /\ d <= 25
            BY <2>2, <1>1, <1>7 DEF shapingTerm
        <3> QED BY <3>1
    <2>3. CASE Tier(d) = 2
        <3>1. shapingTerm(d) = (1000 * (100 - d)) \div (100 - 25) /\ d <= 100
            BY <2>3, <1>1, <1>7 DEF shapingTerm
        <3> QED BY <3>1
    <2>4. CASE Tier(d) = 3
        <3>1. shapingTerm(d) = (1000 * (150 - d)) \div (150 - 100) /\ d <= 150
            BY <2>4, <1>1, <1>7 DEF shapingTerm
        <3> QED BY <3>1
    <2> QED BY <1>4, <2>1, <2>2, <2>3, <2>4
<1> QED BY <1>5, <1>8 DEF shapedPoints

(* Two sums over one domain compare as their terms do. *)
LEMMA SumsCompare ==
    ASSUME NEW S, IsFiniteSet(S), NEW f, NEW h, DOMAIN f = S, DOMAIN h = S,
           \A x \in S : f[x] \in Int /\ h[x] \in Int /\ f[x] <= h[x]
    PROVE  /\ SumFunction(f) \in Int /\ SumFunction(h) \in Int
           /\ SumFunction(f) <= SumFunction(h)
           /\ (\E x \in S : f[x] < h[x]) => SumFunction(f) < SumFunction(h)
<1>1. PICK F : IsSum(F, f, SUBSET S) /\ SumFunction(f) = F[S]
    BY SumTable
<1>2. PICK H : IsSum(H, h, SUBSET S) /\ SumFunction(h) = H[S]
    BY SumTable
<1> DEFINE Good(s) == /\ F[s] \in Int /\ H[s] \in Int /\ F[s] <= H[s]
                      /\ (\E x \in s : f[x] < h[x]) => F[s] < H[s]
           G == {s \in SUBSET S : Good(s)}
<1>3. {} \in G
    <2>1. F[{}] = 0 /\ H[{}] = 0
        BY <1>1, <1>2 DEF IsSum
    <2> QED
        BY <2>1
<1>4. ASSUME NEW s \in SUBSET S, s # {}, s \ {Pick(s)} \in G
      PROVE  s \in G
    <2> DEFINE p == Pick(s)
               r == s \ {p}
    <2>1. p \in s
        BY <1>4 DEF Pick
    <2>2. F[s] = f[p] + F[r] /\ H[s] = h[p] + H[r]
        BY <1>1, <1>2, <1>4 DEF IsSum
    <2>3. Good(r) /\ f[p] \in Int /\ h[p] \in Int /\ f[p] <= h[p]
        BY <1>4, <2>1
    <2>4. F[s] \in Int /\ H[s] \in Int /\ F[s] <= H[s]
        <3> HIDE DEF p, r
        <3> QED
            BY <2>2, <2>3
    <2>5. ASSUME NEW x \in s, f[x] < h[x]
          PROVE  F[s] < H[s]
        <3>1. CASE x = p
            <4> HIDE DEF p, r
            <4> QED
                BY <2>2, <2>3, <2>5, <3>1
        <3>2. CASE x # p
            <4>1. x \in r
                BY <3>2
            <4>2. F[r] < H[r]
                BY <2>3, <2>5, <4>1
            <4> HIDE DEF p, r
            <4> QED
                BY <2>2, <2>3, <4>2
        <3> QED
            BY <3>1, <3>2
    <2> QED
        BY <2>4, <2>5
<1>5. S \in G
    <2>1. G \in SUBSET (SUBSET S)
        OBVIOUS
    <2> HIDE DEF G
    <2> QED
        BY <1>3, <1>4, <2>1, AllSubsets
<1> QED
    BY <1>1, <1>2, <1>5

(* f gives the points of h and, to each, a quarter of a point at most. *)
Nudged(f, h, S) ==
    \A x \in S : /\ h[x] \in Nat /\ f[x] \in Nat
                 /\ 1000 * h[x] <= f[x] /\ f[x] <= 1000 * h[x] + 250
                 /\ h[x] > 0 => 1000 * h[x] < f[x]

(* The nudges of several runs add up to no more than a quarter each. *)
LEMMA SumsOfShaped ==
    ASSUME NEW S, IsFiniteSet(S), NEW f, NEW h, DOMAIN f = S, DOMAIN h = S,
           Nudged(f, h, S)
    PROVE  /\ SumFunction(f) \in Nat /\ SumFunction(h) \in Nat
           /\ 1000 * SumFunction(h) <= SumFunction(f)
           /\ SumFunction(f) <= 1000 * SumFunction(h) + 250 * Cardinality(S)
           /\ SumFunction(h) > 0 => 1000 * SumFunction(h) < SumFunction(f)
<1>1. PICK F : IsSum(F, f, SUBSET S) /\ SumFunction(f) = F[S]
    BY SumTable
<1>2. PICK H : IsSum(H, h, SUBSET S) /\ SumFunction(h) = H[S]
    BY SumTable
<1> DEFINE Good(s) == /\ F[s] \in Nat /\ H[s] \in Nat
                      /\ 1000 * H[s] <= F[s] /\ F[s] <= 1000 * H[s] + 250 * Cardinality(s)
                      /\ H[s] > 0 => 1000 * H[s] < F[s]
           G == {s \in SUBSET S : Good(s)}
<1>3. {} \in G
    <2>1. F[{}] = 0 /\ H[{}] = 0 /\ Cardinality({}) = 0
        BY <1>1, <1>2, FS_EmptySet DEF IsSum
    <2>2. Good({})
        BY <2>1
    <2> QED
        BY <2>2
<1> HIDE DEF Good
<1>4. ASSUME NEW s \in SUBSET S, s # {}, s \ {Pick(s)} \in G
      PROVE  s \in G
    <2> DEFINE p == Pick(s)
               r == s \ {p}
    <2>1. p \in s
        BY <1>4 DEF Pick
    <2>2. F[s] = f[p] + F[r] /\ H[s] = h[p] + H[r]
        <3>1. F[s] = f[p] + F[r]
            BY <1>1, <1>4 DEF IsSum
        <3>2. H[s] = h[p] + H[r]
            BY <1>2, <1>4 DEF IsSum
        <3> QED
            BY <3>1, <3>2
    <2>3. /\ Good(r) /\ h[p] \in Nat /\ f[p] \in Nat
          /\ 1000 * h[p] <= f[p] /\ f[p] <= 1000 * h[p] + 250
          /\ h[p] > 0 => 1000 * h[p] < f[p]
        BY <1>4, <2>1 DEF Nudged
    <2>4. Cardinality(s) \in Nat /\ Cardinality(r) = Cardinality(s) - 1
        <3>1. IsFiniteSet(S) /\ s \in SUBSET S /\ s # {}
            BY <1>4
        <3>2. Cardinality(s) \in Nat /\ Cardinality(s \ {Pick(s)}) = Cardinality(s) - 1
            BY <3>1, PickFacts
        <3> QED
            BY <3>2
    <2> HIDE DEF p, r
    <2> DEFINE c == Cardinality(r)
    <2>a. c \in Int /\ Cardinality(s) = c + 1
        BY <2>4
    <2> HIDE DEF c
    <2>b. F[r] \in Nat /\ H[r] \in Nat /\ 1000 * H[r] <= F[r] /\ F[r] <= 1000 * H[r] + 250 * c
          /\ (H[r] > 0 => 1000 * H[r] < F[r])
        BY <2>3 DEF Good, c
    <2>5. Good(s)
        <3>1. F[s] \in Nat /\ H[s] \in Nat /\ 1000 * H[s] <= F[s]
            BY <2>2, <2>3, <2>b
        <3>2. F[s] <= 1000 * H[s] + 250 * (c + 1)
            BY <2>2, <2>3, <2>a, <2>b
        <3>3. H[s] > 0 => 1000 * H[s] < F[s]
            BY <2>2, <2>3, <2>b
        <3> QED
            BY <2>a, <3>1, <3>2, <3>3 DEF Good
    <2> QED
        BY <2>5
<1>5. S \in G
    <2>1. G \in SUBSET (SUBSET S)
        OBVIOUS
    <2> HIDE DEF G
    <2> QED
        BY <1>3, <1>4, <2>1, AllSubsets
<1> QED
    BY <1>1, <1>2, <1>5 DEF Good

(* The tiers by their bounds. *)
LEMMA TierOf ==
    ASSUME NEW d \in Nat
    PROVE  /\ d < 25 => Tier(d) = 1
           /\ 25 <= d /\ d < 100 => Tier(d) = 2
           /\ 100 <= d /\ d < 150 => Tier(d) = 3
           /\ 150 <= d => Tier(d) = 4
<1> DEFINE B == {i \in DOMAIN TIER_BOUNDS : d >= TIER_BOUNDS[i]}
<1>1. DOMAIN TIER_BOUNDS = 1..3 /\ TIER_BOUNDS[1] = 25 /\ TIER_BOUNDS[2] = 100 /\ TIER_BOUNDS[3] = 150
    BY DEF TIER_BOUNDS
<1>2. B = {i \in 1..3 : (i = 1 /\ d >= 25) \/ (i = 2 /\ d >= 100) \/ (i = 3 /\ d >= 150)}
    BY <1>1
<1>3. ASSUME NEW k \in 0..3, B = 1..k
      PROVE  Tier(d) = 1 + k
    <2>1. k \in Nat
        OBVIOUS
    <2>2. Cardinality(B) = k
        BY <1>3, <2>1, Initial
    <2> QED
        BY <2>2 DEF Tier
<1> HIDE DEF B
<1>4. CASE d < 25
    <2>1. B = 1..0
        BY <1>2, <1>4
    <2> QED
        BY <1>3, <1>4, <2>1
<1>5. CASE 25 <= d /\ d < 100
    <2>1. B = 1..1
        BY <1>2, <1>5
    <2> QED
        BY <1>3, <1>5, <2>1
<1>6. CASE 100 <= d /\ d < 150
    <2>1. B = 1..2
        BY <1>2, <1>6
    <2> QED
        BY <1>3, <1>6, <2>1
<1>7. CASE 150 <= d
    <2>1. B = 1..3
        BY <1>2, <1>7
    <2> QED
        BY <1>3, <1>7, <2>1
<1> QED
    BY <1>4, <1>5, <1>6, <1>7

(* The points of a run, tier by tier. *)
LEMMA PointsOf ==
    ASSUME NEW d \in Nat
    PROVE  /\ d < 25 => tierPoints(d) = 5 /\ shapedPoints(d) = 5000 + ((1000 * (25 - d)) \div 25) \div 4
           /\ 25 <= d /\ d < 100 => tierPoints(d) = 2 /\ shapedPoints(d) = 2000 + ((1000 * (100 - d)) \div 75) \div 4
           /\ 100 <= d /\ d < 150 => tierPoints(d) = 1 /\ shapedPoints(d) = 1000 + ((1000 * (150 - d)) \div 50) \div 4
           /\ 150 <= d => tierPoints(d) = 0 /\ shapedPoints(d) = (1000 \div 2^Halvings(d)) \div 4
<1>1. /\ TIER_BOUNDS[1] = 25 /\ TIER_BOUNDS[2] = 100 /\ TIER_BOUNDS[3] = 150
      /\ TIER_POINTS[1] = 5 /\ TIER_POINTS[2] = 2 /\ TIER_POINTS[3] = 1 /\ TIER_POINTS[4] = 0
    BY DEF TIER_BOUNDS, TIER_POINTS
<1>2. CASE d < 25
    <2>1. Tier(d) = 1
        BY <1>2, TierOf
    <2>2. tierPoints(d) = 5 /\ shapingTerm(d) = (1000 * (25 - d)) \div (25 - 0)
        BY <1>1, <2>1 DEF tierPoints, shapingTerm
    <2> QED
        BY <1>2, <2>2 DEF shapedPoints
<1>3. CASE 25 <= d /\ d < 100
    <2>1. Tier(d) = 2
        BY <1>3, TierOf
    <2>2. tierPoints(d) = 2 /\ shapingTerm(d) = (1000 * (100 - d)) \div (100 - 25)
        BY <1>1, <2>1 DEF tierPoints, shapingTerm
    <2> QED
        BY <1>3, <2>2 DEF shapedPoints
<1>4. CASE 100 <= d /\ d < 150
    <2>1. Tier(d) = 3
        BY <1>4, TierOf
    <2>2. tierPoints(d) = 1 /\ shapingTerm(d) = (1000 * (150 - d)) \div (150 - 100)
        BY <1>1, <2>1 DEF tierPoints, shapingTerm
    <2> QED
        BY <1>4, <2>2 DEF shapedPoints
<1>5. CASE 150 <= d
    <2>1. Tier(d) = 4
        BY <1>5, TierOf
    <2>2. tierPoints(d) = 0 /\ shapingTerm(d) = 1000 \div 2^Halvings(d)
        BY <1>1, <2>1 DEF tierPoints, shapingTerm
    <2>3. 2^Halvings(d) \in Nat \ {0}
        <3>1. Halvings(d) \in Nat
            BY <1>5 DEF Halvings, TIER_BOUNDS
        <3> QED
            BY <3>1, PowerOfTwo
    <2>4. 1000 \div 2^Halvings(d) \in Nat
        BY <2>3
    <2>5. shapedPoints(d) = 1000 * 0 + (1000 \div 2^Halvings(d)) \div 4
        BY <2>2 DEF shapedPoints
    <2> DEFINE q == 1000 \div 2^Halvings(d)
    <2> HIDE DEF q
    <2>6. q \in Nat /\ shapedPoints(d) = 1000 * 0 + q \div 4
        BY <2>4, <2>5 DEF q
    <2>7. shapedPoints(d) = q \div 4
        BY <2>6
    <2> QED
        BY <1>5, <2>2, <2>7 DEF q
<1> QED
    BY <1>2, <1>3, <1>4, <1>5

(* The nudge is a quarter of a point at most, and none is lost where       *)
(* points are given.                                                       *)
LEMMA NudgeBounded ==
    ASSUME NEW d \in Nat
    PROVE  /\ tierPoints(d) \in Nat /\ shapedPoints(d) \in Nat
           /\ 1000 * tierPoints(d) <= shapedPoints(d)
           /\ shapedPoints(d) <= 1000 * tierPoints(d) + 250
           /\ tierPoints(d) > 0 => 1000 * tierPoints(d) < shapedPoints(d)
<1>1. CASE d < 25
    <2>1. tierPoints(d) = 5 /\ shapedPoints(d) = 5000 + ((1000 * (25 - d)) \div 25) \div 4
        BY <1>1, PointsOf
    <2> QED
        BY <1>1, <2>1
<1>2. CASE 25 <= d /\ d < 100
    <2>1. tierPoints(d) = 2 /\ shapedPoints(d) = 2000 + ((1000 * (100 - d)) \div 75) \div 4
        BY <1>2, PointsOf
    <2> QED
        BY <1>2, <2>1
<1>3. CASE 100 <= d /\ d < 150
    <2>1. tierPoints(d) = 1 /\ shapedPoints(d) = 1000 + ((1000 * (150 - d)) \div 50) \div 4
        BY <1>3, PointsOf
    <2> QED
        BY <1>3, <2>1
<1>4. CASE 150 <= d
    <2>1. tierPoints(d) = 0 /\ shapedPoints(d) = (1000 \div 2^Halvings(d)) \div 4
        BY <1>4, PointsOf
    <2> DEFINE w == 2^Halvings(d)
               q == 1000 \div w
    <2>2. w \in Nat \ {0}
        <3>1. Halvings(d) \in Nat
            BY <1>4 DEF Halvings, TIER_BOUNDS
        <3> QED
            BY <3>1, PowerOfTwo
    <2> HIDE DEF w
    <2>3. q \in 0..1000
        <3>1. w \in Int /\ w > 0 /\ q \in Int /\ w * q <= 1000 /\ q >= 0
            BY <2>2
        <3>2. q <= w * q
            <4> HIDE DEF q
            <4>1. w - 1 \in Nat /\ q \in Nat
                BY <3>1
            <4>2. (w - 1) * q >= 0
                BY <4>1
            <4>3. (w - 1) * q = w * q - q
                BY <3>1
            <4> QED
                BY <3>1, <4>2, <4>3
        <3> HIDE DEF q
        <3>3. w * q \in Int
            BY <3>1
        <3> QED
            BY <3>1, <3>2, <3>3
    <2> HIDE DEF q
    <2>4. shapedPoints(d) = q \div 4 /\ tierPoints(d) = 0
        BY <2>1 DEF q, w
    <2> QED
        BY <2>3, <2>4
<1> QED
    BY <1>1, <1>2, <1>3, <1>4

(* The points fall with every centimetre within the tiers, and with every  *)
(* halving beyond them, down to the last one that thousandths can show.    *)
LEMMA PointsFall ==
    ASSUME NEW d \in Nat, NEW e \in Nat, d < e,
           150 <= d => Halvings(d) < Halvings(e),
           150 <= e => Halvings(e) <= 8
    PROVE  shapedPoints(e) < shapedPoints(d)
<1> DEFINE P(x) == IF x < 25 THEN 5000 + ((1000 * (25 - x)) \div 25) \div 4
                   ELSE IF x < 100 THEN 2000 + ((1000 * (100 - x)) \div 75) \div 4
                   ELSE 1000 + ((1000 * (150 - x)) \div 50) \div 4
           Q == <<250, 125, 62, 31, 15, 7, 3, 1, 0>>
<1>1. \A x \in Nat : x < 150 => shapedPoints(x) = P(x)
    BY PointsOf
<1>2. ASSUME NEW x \in Nat, 150 <= x, Halvings(x) <= 8
      PROVE  Halvings(x) \in 0..8 /\ shapedPoints(x) = Q[1 + Halvings(x)]
    <2>1. shapedPoints(x) = (1000 \div 2^Halvings(x)) \div 4
        BY <1>2, PointsOf
    <2>2. Halvings(x) \in 0..8
        BY <1>2 DEF Halvings, TIER_BOUNDS
    <2>3. ASSUME NEW k \in 0..8
          PROVE  (1000 \div 2^k) \div 4 = Q[1 + k]
        <3>1. 2^0 = 1 /\ 2^1 = 2 /\ 2^2 = 4 /\ 2^3 = 8 /\ 2^4 = 16 /\ 2^5 = 32 /\ 2^6 = 64 /\ 2^7 = 128 /\ 2^8 = 256
            OBVIOUS
        <3>2. CASE k = 0
            BY <3>1, <3>2
        <3>3. CASE k = 1
            BY <3>1, <3>3
        <3>4. CASE k = 2
            BY <3>1, <3>4
        <3>5. CASE k = 3
            BY <3>1, <3>5
        <3>6. CASE k = 4
            BY <3>1, <3>6
        <3>7. CASE k = 5
            BY <3>1, <3>7
        <3>8. CASE k = 6
            BY <3>1, <3>8
        <3>9. CASE k = 7
            BY <3>1, <3>9
        <3>10. CASE k = 8
            BY <3>1, <3>10
        <3> QED
            BY <3>2, <3>3, <3>4, <3>5, <3>6, <3>7, <3>8, <3>9, <3>10
    <2> DEFINE h == Halvings(x)
    <2> HIDE DEF h, Q
    <2>4. (1000 \div 2^h) \div 4 = Q[1 + h]
        BY <2>2, <2>3 DEF h
    <2> QED
        BY <2>1, <2>2, <2>4 DEF h
<1>3. \A x, y \in Nat : x < y /\ y < 150 => P(y) < P(x)
    OBVIOUS
<1>4. \A x \in Nat : x < 150 => P(x) > 1000
    OBVIOUS
<1>5. \A k \in 0..8 : Q[1 + k] \in 0..250
    OBVIOUS
<1>6. \A j, k \in 0..8 : j < k => Q[1 + k] < Q[1 + j]
    OBVIOUS
<1> HIDE DEF P, Q
<1>7. CASE e < 150
    BY <1>1, <1>3, <1>7
<1>8. CASE d < 150 /\ 150 <= e
    <2>1. shapedPoints(e) \in 0..250
        BY <1>2, <1>5, <1>8
    <2>2. shapedPoints(d) = P(d) /\ P(d) > 1000
        BY <1>1, <1>4, <1>8
    <2>3. shapedPoints(d) \in Nat
        BY NudgeBounded
    <2> QED
        BY <2>1, <2>2, <2>3
<1>9. CASE 150 <= d
    <2>1. 150 <= e /\ Halvings(d) < Halvings(e) /\ Halvings(e) <= 8
        BY <1>9
    <2>2. Halvings(d) \in Int /\ Halvings(e) \in Int
        BY DEF Halvings, TIER_BOUNDS
    <2>3. Halvings(d) <= 8
        BY <2>1, <2>2
    <2> QED
        BY <1>2, <1>6, <1>9, <2>1, <2>3
<1> QED
    BY <1>7, <1>8, <1>9

-----------------------------------------------------------------------------
(***************************************************************************)
(* Segments, distances and boxes of geometry.py.                           *)
(***************************************************************************)

(* Points of the grid. *)
Point == Int \X Int

(* What the sign of a number says of it. *)
LEMMA SignFacts ==
    ASSUME NEW x \in Int
    PROVE  /\ Sign(x) \in {-1, 0, 1}
           /\ Sign(x) = 1 <=> x > 0
           /\ Sign(x) = 0 <=> x = 0
           /\ Sign(x) = -1 <=> x < 0
  BY DEF Sign

(* Two numbers are on two sides of zero, or not on one. *)
LEMMA SignProduct ==
    ASSUME NEW x \in Int, NEW y \in Int
    PROVE  /\ Sign(x) * Sign(y) < 0 <=> (x < 0 /\ y > 0) \/ (x > 0 /\ y < 0)
           /\ Sign(x) * Sign(y) <= 0 <=> ~(x < 0 /\ y < 0) /\ ~(x > 0 /\ y > 0)
<1>1. CASE x < 0
    BY <1>1 DEF Sign
<1>2. CASE x = 0
    BY <1>2 DEF Sign
<1>3. CASE x > 0
    BY <1>3 DEF Sign
<1> QED
    BY <1>1, <1>2, <1>3

(* The cross product does not depend on where in the triangle it starts    *)
(* and changes its sign with the sense of turning.                         *)
LEMMA CrossAt ==
    ASSUME NEW o \in Point, NEW a \in Point, NEW b \in Point
    PROVE  /\ cross(o, a, b) \in Int
           /\ cross(o, a, b) = cross(a, b, o)
           /\ cross(o, a, b) = -cross(a, o, b)
           /\ Dot(Minus(a, o), Minus(b, o)) \in Int
  BY DEF cross, Point, Dot, Minus

(* Sign rules for products. *)
LEMMA ProductSign ==
    ASSUME NEW x \in Int, NEW y \in Int
    PROVE  /\ x * y \in Int
           /\ x > 0 /\ y > 0 => x * y > 0
           /\ x >= 0 /\ y >= 0 => x * y >= 0
           /\ x > 0 /\ y < 0 => x * y < 0
           /\ x < 0 /\ y > 0 => x * y < 0
           /\ x < 0 /\ y < 0 => x * y > 0
           /\ x <= 0 /\ y >= 0 => x * y <= 0
           /\ x >= 0 /\ y <= 0 => x * y <= 0
           /\ x <= 0 /\ y <= 0 => x * y >= 0
           /\ x * x >= 0
           /\ x # 0 => x * x > 0
  OBVIOUS

(* The identity behind the crossing of two lines: r is one segment, s the  *)
(* other, w leads from the start of the one to the start of the other.     *)
LEMMA OnLineIdentity ==
    ASSUME NEW r1 \in Int, NEW r2 \in Int, NEW s1 \in Int, NEW s2 \in Int,
           NEW w1 \in Int, NEW w2 \in Int, r1 * w2 = r2 * w1
    PROVE  (r1 * r1 + r2 * r2) * (w1 * s2 - w2 * s1) = (w1 * r1 + w2 * r2) * (r1 * s2 - r2 * s1)
  OBVIOUS

(* A point q1 on the line of p1 p2 lies between p1 and p2 if the line      *)
(* through it and q2 parts them.                                           *)
LEMMA OnLineIsBetween ==
    ASSUME NEW p1 \in Point, NEW p2 \in Point, NEW q1 \in Point, NEW q2 \in Point,
           cross(p1, p2, q1) = 0,
           Sign(cross(q1, q2, p1)) * Sign(cross(q1, q2, p2)) <= 0,
           cross(q1, q2, p1) # 0 \/ cross(q1, q2, p2) # 0
    PROVE  OnSegment(q1, p1, p2)
<1> DEFINE r1 == p2[1] - p1[1]
           r2 == p2[2] - p1[2]
           s1 == q2[1] - q1[1]
           s2 == q2[2] - q1[2]
           w1 == q1[1] - p1[1]
           w2 == q1[2] - p1[2]
           R == r1 * r1 + r2 * r2
           W == w1 * r1 + w2 * r2
           k == r1 * s2 - r2 * s1
           c == w1 * s2 - w2 * s1
<1>1. r1 \in Int /\ r2 \in Int /\ s1 \in Int /\ s2 \in Int /\ w1 \in Int /\ w2 \in Int
    BY DEF Point
<1>2. cross(q1, q2, p1) = c /\ cross(q1, q2, p2) = c - k /\ cross(p1, p2, q1) = r1 * w2 - r2 * w1
    BY DEF Point, cross
<1>3. Dot(Minus(q1, p1), Minus(p2, p1)) = W /\ Dot(Minus(q1, p2), Minus(p1, p2)) = R - W
    BY DEF Point, Dot, Minus
<1> HIDE DEF r1, r2, s1, s2, w1, w2
<1>4. R \in Int /\ W \in Int /\ k \in Int /\ c \in Int
    BY <1>1
<1>a. r1 * w2 = r2 * w1
    BY <1>1, <1>2
<1>b. p1 = p2 => r1 = 0 /\ r2 = 0
    BY DEF r1, r2, Point
<1>c. p1 = p2 => k = 0
    BY <1>1, <1>b
<1>5. R * c = W * k
    BY <1>1, <1>a, OnLineIdentity
<1>6. k # 0 => R > 0
    <2>1. r1 # 0 \/ r2 # 0 => R > 0
        BY <1>1, ProductSign
    <2>2. r1 = 0 /\ r2 = 0 => k = 0
        BY <1>1
    <2> QED
        BY <1>1, <2>1, <2>2
<1> HIDE DEF R, W, k, c
<1>7. ~(c < 0 /\ c - k < 0) /\ ~(c > 0 /\ c - k > 0) /\ (c # 0 \/ c - k # 0)
    BY <1>2, <1>4, SignProduct
<1>8. k # 0
    BY <1>4, <1>7
<1>9. R > 0
    BY <1>6, <1>8
<1>10. CASE k > 0
    <2>1. 0 <= c /\ c <= k
        BY <1>4, <1>7, <1>10
    <2>2. R * c >= 0 /\ R * (k - c) >= 0
        BY <1>4, <1>9, <2>1, ProductSign
    <2>3. R * (k - c) = R * k - R * c
        BY <1>4
    <2>4. W * k >= 0 /\ (R - W) * k >= 0
        BY <1>4, <1>5, <2>2, <2>3
    <2> QED
        <3>1. W >= 0
            BY <1>4, <1>10, <2>4, ProductSign
        <3>2. R - W >= 0
            BY <1>4, <1>10, <2>4, ProductSign
        <3> QED
            BY <1>3, <1>8, <1>c, <3>1, <3>2 DEF OnSegment
<1>11. CASE k < 0
    <2>1. 0 >= c /\ c >= k
        BY <1>4, <1>7, <1>11
    <2>2. R * c <= 0 /\ R * (k - c) <= 0
        BY <1>4, <1>9, <2>1, ProductSign
    <2>3. R * (k - c) = R * k - R * c
        BY <1>4
    <2>4. W * k <= 0 /\ (R - W) * k <= 0
        BY <1>4, <1>5, <2>2, <2>3
    <2> QED
        <3>1. W >= 0
            BY <1>4, <1>11, <2>4, ProductSign
        <3>2. R - W >= 0
            BY <1>4, <1>11, <2>4, ProductSign
        <3> QED
            BY <1>3, <1>8, <1>c, <3>1, <3>2 DEF OnSegment
<1> QED
    BY <1>4, <1>8, <1>10, <1>11

(* The same for q2 in place of q1. *)
LEMMA OnLineIsBetweenToo ==
    ASSUME NEW p1 \in Point, NEW p2 \in Point, NEW q1 \in Point, NEW q2 \in Point,
           cross(p1, p2, q2) = 0,
           Sign(cross(q1, q2, p1)) * Sign(cross(q1, q2, p2)) <= 0,
           cross(q1, q2, p1) # 0 \/ cross(q1, q2, p2) # 0
    PROVE  OnSegment(q2, p1, p2)
<1> DEFINE c == cross(q1, q2, p1)
           d == cross(q1, q2, p2)
<1>1. c \in Int /\ d \in Int /\ cross(q2, q1, p1) = -c /\ cross(q2, q1, p2) = -d
    BY CrossAt
<1>2. Sign(c) * Sign(d) <= 0 /\ (c # 0 \/ d # 0)
    OBVIOUS
<1> HIDE DEF c, d
<1>3. Sign(-c) * Sign(-d) <= 0 /\ (-c # 0 \/ -d # 0)
    <2>1. ~(c < 0 /\ d < 0) /\ ~(c > 0 /\ d > 0)
        BY <1>1, <1>2, SignProduct
    <2>2. -c \in Int /\ -d \in Int /\ ~(-c < 0 /\ -d < 0) /\ ~(-c > 0 /\ -d > 0)
        BY <1>1, <2>1
    <2>3. Sign(-c) * Sign(-d) <= 0
        BY <2>2, SignProduct
    <2> QED
        BY <1>1, <1>2, <2>3
<1> QED
    BY <1>1, <1>3, OnLineIsBetween

(* On one line, a point inside the span of a segment in one coordinate in  *)
(* which the segment has an extent is a point of the segment.              *)
LEMMA InSpan ==
    ASSUME NEW p \in Point, NEW a \in Point, NEW b \in Point, cross(a, b, p) = 0,
           NEW i \in 1..2,
           (a[i] < b[i] /\ a[i] <= p[i] /\ p[i] <= b[i]) \/ (b[i] < a[i] /\ b[i] <= p[i] /\ p[i] <= a[i])
    PROVE  OnSegment(p, a, b)
<1> DEFINE r1 == b[1] - a[1]
           r2 == b[2] - a[2]
           w1 == p[1] - a[1]
           w2 == p[2] - a[2]
           R == r1 * r1 + r2 * r2
           W == w1 * r1 + w2 * r2
<1>1. r1 \in Int /\ r2 \in Int /\ w1 \in Int /\ w2 \in Int
    BY DEF Point
<1>2. cross(a, b, p) = r1 * w2 - r2 * w1
    BY DEF Point, cross
<1>3. Dot(Minus(p, a), Minus(b, a)) = W /\ Dot(Minus(p, b), Minus(a, b)) = R - W
    BY DEF Point, Dot, Minus
<1>4. a # b
    BY DEF Point
<1>5. i = 1 => (r1 > 0 /\ 0 <= w1 /\ w1 <= r1) \/ (r1 < 0 /\ r1 <= w1 /\ w1 <= 0)
    BY DEF Point
<1>6. i = 2 => (r2 > 0 /\ 0 <= w2 /\ w2 <= r2) \/ (r2 < 0 /\ r2 <= w2 /\ w2 <= 0)
    BY DEF Point
<1> HIDE DEF r1, r2, w1, w2
<1>7. R \in Int /\ W \in Int /\ (r1 # 0 \/ r2 # 0 => R > 0)
    BY <1>1, ProductSign
<1>a. r1 * w2 = r2 * w1
    BY <1>1, <1>2
<1>8. r1 * W = w1 * R /\ r2 * W = w2 * R
    BY <1>1, <1>a
<1> HIDE DEF R, W
<1>9. r1 * (R - W) = (r1 - w1) * R /\ r2 * (R - W) = (r2 - w2) * R
    BY <1>1, <1>7, <1>8
<1>10. ASSUME NEW r \in Int, NEW w \in Int, r # 0 => R > 0, r * W = w * R, r * (R - W) = (r - w) * R,
              (r > 0 /\ 0 <= w /\ w <= r) \/ (r < 0 /\ r <= w /\ w <= 0)
       PROVE  W >= 0 /\ R - W >= 0
    <2>1. CASE r > 0 /\ 0 <= w /\ w <= r
        <3>1. w * R >= 0 /\ (r - w) * R >= 0
            BY <1>7, <1>10, <2>1, ProductSign
        <3>2. W >= 0
            BY <1>7, <1>10, <2>1, <3>1, ProductSign
        <3>3. R - W >= 0
            BY <1>7, <1>10, <2>1, <3>1, ProductSign
        <3> QED
            BY <3>2, <3>3
    <2>2. CASE r < 0 /\ r <= w /\ w <= 0
        <3>1. w * R <= 0 /\ (r - w) * R <= 0
            BY <1>7, <1>10, <2>2, ProductSign
        <3>2. W >= 0
            BY <1>7, <1>10, <2>2, <3>1, ProductSign
        <3>3. R - W >= 0
            BY <1>7, <1>10, <2>2, <3>1, ProductSign
        <3> QED
            BY <3>2, <3>3
    <2> QED
        BY <1>10, <2>1, <2>2
<1>11. W >= 0 /\ R - W >= 0
    <2>1. CASE i = 1
        BY <1>1, <1>5, <1>7, <1>8, <1>9, <1>10, <2>1
    <2>2. CASE i = 2
        BY <1>1, <1>6, <1>7, <1>8, <1>9, <1>10, <2>2
    <2> QED
        BY <2>1, <2>2
<1> QED
    BY <1>3, <1>4, <1>11 DEF OnSegment

(* On one line, a point inside the box of a segment is one of its points,  *)
(* also of a segment that is a single point.                               *)
LEMMA InBox ==
    ASSUME NEW p \in Point, NEW a \in Point, NEW b \in Point, cross(a, b, p) = 0,
           \A i \in 1..2 : (a[i] <= p[i] /\ p[i] <= b[i]) \/ (b[i] <= p[i] /\ p[i] <= a[i])
    PROVE  OnSegment(p, a, b)
<1>1. CASE a = b
    <2>1. p[1] = a[1] /\ p[2] = a[2]
        BY <1>1 DEF Point
    <2> QED
        BY <1>1, <2>1 DEF OnSegment, Point
<1>2. CASE a # b
    <2>1. a[1] # b[1] \/ a[2] # b[2]
        BY <1>2 DEF Point
    <2>2. PICK i \in 1..2 : a[i] # b[i]
        BY <2>1
    <2>3. (a[i] < b[i] /\ a[i] <= p[i] /\ p[i] <= b[i]) \/ (b[i] < a[i] /\ b[i] <= p[i] /\ p[i] <= a[i])
        BY <2>2 DEF Point
    <2> QED
        BY <2>3, InSpan
<1> QED
    BY <1>1, <1>2

(* segmentsIntersect finds every two segments that meet: they cross, or an *)
(* end of one lies on the other, also on a common line.                    *)
LEMMA MeetIsSeen ==
    ASSUME NEW p1 \in Point, NEW p2 \in Point, NEW q1 \in Point, NEW q2 \in Point,
           Meet(p1, p2, q1, q2)
    PROVE  segmentsIntersect(p1, p2, q1, q2)
<1> DEFINE a == cross(p1, p2, q1)
           b == cross(p1, p2, q2)
           c == cross(q1, q2, p1)
           d == cross(q1, q2, p2)
<1>1. a \in Int /\ b \in Int /\ c \in Int /\ d \in Int
    BY CrossAt
<1>2. c - d = b - a
    BY DEF cross, Point
<1>3. Sign(a) * Sign(b) <= 0 /\ Sign(c) * Sign(d) <= 0
    BY DEF Meet
<1>4. \A i \in 1..2 : /\ ~(p1[i] < q1[i] /\ p1[i] < q2[i] /\ p2[i] < q1[i] /\ p2[i] < q2[i])
                      /\ ~(p1[i] > q1[i] /\ p1[i] > q2[i] /\ p2[i] > q1[i] /\ p2[i] > q2[i])
    BY DEF Meet
<1>5. CASE c # 0 \/ d # 0
    <2>1. CASE a = 0
        BY <1>3, <1>5, <2>1, OnLineIsBetween DEF segmentsIntersect
    <2>2. CASE b = 0
        BY <1>3, <1>5, <2>2, OnLineIsBetweenToo DEF segmentsIntersect
    <2>3. CASE a # 0 /\ b # 0
        <3>1. CASE c = 0
            BY <1>3, <2>3, <3>1, OnLineIsBetween DEF segmentsIntersect
        <3>2. CASE d = 0
            BY <1>3, <2>3, <3>2, OnLineIsBetweenToo DEF segmentsIntersect
        <3>3. CASE c # 0 /\ d # 0
            <4>1. Sign(a) * Sign(b) < 0 /\ Sign(c) * Sign(d) < 0
                <5> HIDE DEF a, b, c, d
                <5> QED
                    BY <1>1, <1>3, <2>3, <3>3, SignProduct
            <4> QED
                BY <4>1 DEF segmentsIntersect
        <3> QED
            BY <3>1, <3>2, <3>3
    <2> QED
        BY <2>1, <2>2, <2>3
<1>6. CASE c = 0 /\ d = 0
    <2>1. a = 0 /\ b = 0
        <3> HIDE DEF a, b, c, d
        <3> QED
            BY <1>1, <1>2, <1>3, <1>6, SignProduct
    <2>2. CASE p1 = p2
        <3>1. \A i \in 1..2 : (q1[i] <= p1[i] /\ p1[i] <= q2[i]) \/ (q2[i] <= p1[i] /\ p1[i] <= q1[i])
            BY <1>4, <2>2 DEF Point
        <3> QED
            BY <1>6, <3>1, InBox DEF segmentsIntersect
    <2>3. CASE q1 = q2
        <3>1. \A i \in 1..2 : (p1[i] <= q1[i] /\ q1[i] <= p2[i]) \/ (p2[i] <= q1[i] /\ q1[i] <= p1[i])
            BY <1>4, <2>3 DEF Point
        <3> QED
            BY <2>1, <3>1, InBox DEF segmentsIntersect
    <2>4. CASE p1 # p2 /\ q1 # q2
        <3>1. \E i \in 1..2 : p1[i] # p2[i] /\ q1[i] # q2[i]
            <4> DEFINE r1 == p2[1] - p1[1]
                       r2 == p2[2] - p1[2]
                       s1 == q2[1] - q1[1]
                       s2 == q2[2] - q1[2]
            <4>1. r1 \in Int /\ r2 \in Int /\ s1 \in Int /\ s2 \in Int
                BY DEF Point
            <4>2. b - a = r1 * s2 - r2 * s1
                BY DEF Point, cross
            <4>3. (r1 # 0 \/ r2 # 0) /\ (s1 # 0 \/ s2 # 0)
                BY <2>4 DEF Point
            <4>4. (r1 = 0 <=> p1[1] = p2[1]) /\ (r2 = 0 <=> p1[2] = p2[2])
                    /\ (s1 = 0 <=> q1[1] = q2[1]) /\ (s2 = 0 <=> q1[2] = q2[2])
                BY DEF Point
            <4> HIDE DEF r1, r2, s1, s2, a, b
            <4>5. r1 * s2 = r2 * s1
                BY <2>1, <4>1, <4>2
            <4>6. (r1 # 0 /\ s1 # 0) \/ (r2 # 0 /\ s2 # 0)
                BY <4>1, <4>3, <4>5, ProductSign
            <4> QED
                BY <4>4, <4>6
        <3>2. PICK i \in 1..2 : p1[i] # p2[i] /\ q1[i] # q2[i]
            BY <3>1
        <3> DEFINE Inside(p, e, f) == (e[i] < f[i] /\ e[i] <= p[i] /\ p[i] <= f[i])
                                       \/ (f[i] < e[i] /\ f[i] <= p[i] /\ p[i] <= e[i])
        <3>3. Inside(p1, q1, q2) \/ Inside(p2, q1, q2) \/ Inside(q1, p1, p2) \/ Inside(q2, p1, p2)
            <4>1. p1[i] \in Int /\ p2[i] \in Int /\ q1[i] \in Int /\ q2[i] \in Int
                BY DEF Point
            <4> QED
                BY <1>4, <3>2, <4>1
        <3> QED
            BY <1>6, <2>1, <3>3, InSpan DEF segmentsIntersect
    <2> QED
        BY <2>2, <2>3, <2>4
<1> QED
    BY <1>5, <1>6

(* The ends of a segment lie on two sides of a point of it, in every       *)
(* direction <<x, y>>.                                                     *)
LEMMA PointParts ==
    ASSUME NEW p \in Point, NEW a \in Point, NEW b \in Point, OnSegment(p, a, b),
           NEW x \in Int, NEW y \in Int
    PROVE  (x * (a[1] - p[1]) + y * (a[2] - p[2])) * (x * (b[1] - p[1]) + y * (b[2] - p[2])) <= 0
<1> DEFINE u1 == a[1] - p[1]
           u2 == a[2] - p[2]
           v1 == b[1] - p[1]
           v2 == b[2] - p[2]
           UU == u1 * u1 + u2 * u2
           VV == v1 * v1 + v2 * v2
           UV == u1 * v1 + u2 * v2
           f == x * u1 + y * u2
           g == x * v1 + y * v2
<1>1. u1 \in Int /\ u2 \in Int /\ v1 \in Int /\ v2 \in Int
    BY DEF Point
<1>2. CASE u1 = 0 /\ u2 = 0
    <2> HIDE DEF u1, u2, v1, v2
    <2>1. f = 0 /\ g \in Int
        BY <1>1, <1>2
    <2> HIDE DEF f, g
    <2>2. f * g <= 0
        BY <2>1
    <2> QED
        BY <2>2 DEF f, g, u1, u2, v1, v2
<1>3. CASE ~(u1 = 0 /\ u2 = 0)
    <2>1. a # b
        BY <1>3 DEF OnSegment, Point
    <2>2. cross(a, b, p) = u1 * v2 - u2 * v1
        BY DEF Point, cross
    <2>3. cross(a, b, p) = 0
        BY <2>1 DEF OnSegment
    <2>4. Dot(Minus(p, a), Minus(b, a)) = UU - UV /\ Dot(Minus(p, b), Minus(a, b)) = VV - UV
        BY DEF Point, Dot, Minus
    <2>5. UU - UV >= 0 /\ VV - UV >= 0
        BY <2>1, <2>4 DEF OnSegment
    <2>6. u1 # v1 \/ u2 # v2
        BY <2>1 DEF Point
    <2> HIDE DEF u1, u2, v1, v2
    <2>7. u1 * v2 = u2 * v1
        BY <1>1, <2>2, <2>3
    <2>8. UU \in Int /\ VV \in Int /\ UV \in Int /\ UU > 0
        BY <1>1, <1>3, ProductSign
    <2>9. UU * VV = UV * UV
        BY <1>1, <2>7
    <2>10. UU + VV - 2 * UV > 0
        <3>1. (u1 - v1) * (u1 - v1) + (u2 - v2) * (u2 - v2) = UU + VV - 2 * UV
            BY <1>1
        <3> DEFINE e1 == u1 - v1
                   e2 == u2 - v2
        <3>2. e1 \in Int /\ e2 \in Int /\ (e1 # 0 \/ e2 # 0)
            BY <1>1, <2>6
        <3> HIDE DEF e1, e2
        <3>3. e1 * e1 + e2 * e2 > 0
            BY <3>2, ProductSign
        <3> QED
            BY <3>1, <3>3 DEF e1, e2
    <2>11. UU * v1 = UV * u1 /\ UU * v2 = UV * u2
        BY <1>1, <2>7
    <2>12. f \in Int /\ g \in Int
        BY <1>1
    <2>13. UU * g = UV * f
        <3> HIDE DEF UU, UV
        <3>1. UU * g = x * (UU * v1) + y * (UU * v2)
            BY <1>1, <2>8
        <3>2. UV * f = x * (UV * u1) + y * (UV * u2)
            BY <1>1, <2>8
        <3> QED
            BY <2>11, <3>1, <3>2
    <2> HIDE DEF UU, VV, UV, f, g
    <2>14. UV <= 0
        <3> SUFFICES ASSUME UV > 0 PROVE FALSE
            BY <2>8
        <3>1. UU = UV + (UU - UV) /\ VV = UV + (VV - UV)
            BY <2>8
        <3> DEFINE m == UU - UV
                   n == VV - UV
        <3>2. m \in Int /\ n \in Int /\ m >= 0 /\ n >= 0 /\ m + n > 0
            BY <2>5, <2>8, <2>10
        <3>3. (UV + m) * (UV + n) = UV * UV + UV * (m + n) + m * n
            BY <2>8
        <3>4. UU = UV + m /\ VV = UV + n
            BY <2>8
        <3> HIDE DEF m, n
        <3>5. m * n >= 0 /\ UV * (m + n) > 0
            BY <2>8, <3>2, ProductSign
        <3> QED
            BY <2>8, <2>9, <3>2, <3>3, <3>4, <3>5
    <2>15. f * g <= 0
        <3>1. CASE f > 0
            <4>1. UV * f <= 0
                BY <2>8, <2>12, <2>14, <3>1, ProductSign
            <4>2. g <= 0
                BY <2>8, <2>12, <2>13, <4>1, ProductSign
            <4> QED
                BY <2>12, <3>1, <4>2, ProductSign
        <3>2. CASE f < 0
            <4>1. UV * f >= 0
                BY <2>8, <2>12, <2>14, <3>2, ProductSign
            <4>2. g >= 0
                BY <2>8, <2>12, <2>13, <4>1, ProductSign
            <4> QED
                BY <2>12, <3>2, <4>2, ProductSign
        <3>3. CASE f = 0
            BY <2>12, <3>3
        <3> QED
            BY <2>12, <3>1, <3>2, <3>3
    <2> QED
        BY <2>15 DEF f, g, u1, u2, v1, v2
<1> QED
    BY <1>2, <1>3

(* Two segments that share an end point of one meet. *)
LEMMA TouchIsMeet ==
    ASSUME NEW p1 \in Point, NEW p2 \in Point, NEW q1 \in Point, NEW q2 \in Point,
           OnSegment(p1, q1, q2)
    PROVE  /\ Sign(cross(p1, p2, q1)) * Sign(cross(p1, p2, q2)) <= 0
           /\ Sign(cross(q1, q2, p1)) * Sign(cross(q1, q2, p2)) <= 0
           /\ \A i \in 1..2 : (q1[i] <= p1[i] /\ p1[i] <= q2[i]) \/ (q2[i] <= p1[i] /\ p1[i] <= q1[i])
<1> DEFINE r1 == p2[1] - p1[1]
           r2 == p2[2] - p1[2]
           u1 == q1[1] - p1[1]
           u2 == q1[2] - p1[2]
           v1 == q2[1] - p1[1]
           v2 == q2[2] - p1[2]
<1>1. r1 \in Int /\ r2 \in Int /\ u1 \in Int /\ u2 \in Int /\ v1 \in Int /\ v2 \in Int /\ -r2 \in Int
    BY DEF Point
<1>2. \A x, y \in Int : (x * u1 + y * u2) * (x * v1 + y * v2) <= 0
    BY PointParts
<1>3. cross(p1, p2, q1) = (-r2) * u1 + r1 * u2 /\ cross(p1, p2, q2) = (-r2) * v1 + r1 * v2
    BY DEF Point, cross
<1>4. cross(q1, q2, p1) = 0 /\ cross(q1, q2, p2) \in Int
    BY CrossAt DEF OnSegment, cross, Point
<1>5. (u1 <= 0 /\ v1 >= 0) \/ (u1 >= 0 /\ v1 <= 0) => (q1[1] <= p1[1] /\ p1[1] <= q2[1]) \/ (q2[1] <= p1[1] /\ p1[1] <= q1[1])
    BY DEF Point
<1>6. (u2 <= 0 /\ v2 >= 0) \/ (u2 >= 0 /\ v2 <= 0) => (q1[2] <= p1[2] /\ p1[2] <= q2[2]) \/ (q2[2] <= p1[2] /\ p1[2] <= q1[2])
    BY DEF Point
<1> HIDE DEF r1, r2, u1, u2, v1, v2
<1>7. ASSUME NEW f \in Int, NEW g \in Int, f * g <= 0
      PROVE  (f <= 0 /\ g >= 0) \/ (f >= 0 /\ g <= 0)
    BY <1>7, ProductSign
<1>8. u1 * v1 <= 0 /\ u2 * v2 <= 0
    <2>1. (1 * u1 + 0 * u2) * (1 * v1 + 0 * v2) <= 0
        BY <1>2
    <2>2. (0 * u1 + 1 * u2) * (0 * v1 + 1 * v2) <= 0
        BY <1>2
    <2> QED
        BY <1>1, <2>1, <2>2
<1>9. \A i \in 1..2 : (q1[i] <= p1[i] /\ p1[i] <= q2[i]) \/ (q2[i] <= p1[i] /\ p1[i] <= q1[i])
    <2>1. (u1 <= 0 /\ v1 >= 0) \/ (u1 >= 0 /\ v1 <= 0)
        BY <1>1, <1>7, <1>8
    <2>2. (u2 <= 0 /\ v2 >= 0) \/ (u2 >= 0 /\ v2 <= 0)
        BY <1>1, <1>7, <1>8
    <2>3. (q1[1] <= p1[1] /\ p1[1] <= q2[1]) \/ (q2[1] <= p1[1] /\ p1[1] <= q1[1])
        BY <1>5, <2>1
    <2>4. (q1[2] <= p1[2] /\ p1[2] <= q2[2]) \/ (q2[2] <= p1[2] /\ p1[2] <= q1[2])
        BY <1>6, <2>2
    <2> TAKE i \in 1..2
    <2>5. i = 1 \/ i = 2
        OBVIOUS
    <2> QED
        BY <2>3, <2>4, <2>5
<1>10. Sign(cross(p1, p2, q1)) * Sign(cross(p1, p2, q2)) <= 0
    <2> DEFINE f == (-r2) * u1 + r1 * u2
               g == (-r2) * v1 + r1 * v2
    <2>1. f \in Int /\ g \in Int
        BY <1>1
    <2>2. f * g <= 0
        BY <1>1, <1>2
    <2>3. cross(p1, p2, q1) = f /\ cross(p1, p2, q2) = g
        BY <1>3
    <2> HIDE DEF f, g
    <2>4. (f <= 0 /\ g >= 0) \/ (f >= 0 /\ g <= 0)
        BY <1>7, <2>1, <2>2
    <2>5. Sign(f) * Sign(g) <= 0
        BY <2>1, <2>4, SignProduct
    <2> QED
        BY <2>3, <2>5
<1>11. Sign(cross(q1, q2, p1)) * Sign(cross(q1, q2, p2)) <= 0
    <2> DEFINE d == cross(q1, q2, p2)
    <2>1. d \in Int
        BY <1>4
    <2> HIDE DEF d
    <2>2. Sign(0) * Sign(d) <= 0
        BY <2>1, SignProduct
    <2> QED
        BY <1>4, <2>2 DEF d
<1> QED
    BY <1>9, <1>10, <1>11

(* Segments that cross do so at a point that is a weighted mean of the     *)
(* ends of either, so neither is wholly below the other.                   *)
LEMMA CrossingNotApart ==
    ASSUME NEW a \in Int, NEW b \in Int, NEW c \in Int, NEW d \in Int,
           c - d = b - a, c > 0, d < 0, (a < 0 /\ b > 0) \/ (a > 0 /\ b < 0),
           NEW x1 \in Int, NEW x2 \in Int, NEW y1 \in Int, NEW y2 \in Int,
           b * y1 - a * y2 = c * x2 - d * x1
    PROVE  ~(x1 < y1 /\ x1 < y2 /\ x2 < y1 /\ x2 < y2) /\ ~(x1 > y1 /\ x1 > y2 /\ x2 > y1 /\ x2 > y2)
<1>1. a < 0 /\ b > 0
    OBVIOUS
<1>2. ASSUME NEW m \in Int, x1 <= m, x2 <= m, m < y1, m < y2
      PROVE  FALSE
    <2>1. c * (m - x2) >= 0 /\ (-d) * (m - x1) >= 0 /\ b * (y1 - m) > 0 /\ (-a) * (y2 - m) > 0
        BY <1>1, <1>2, ProductSign
    <2>2. c * m - d * m >= c * x2 - d * x1
        BY <2>1
    <2>3. b * y1 - a * y2 > b * m - a * m
        BY <2>1
    <2>4. c * m - d * m = b * m - a * m
        <3>1. (c - d) * m = (b - a) * m
            OBVIOUS
        <3> QED
            BY <3>1
    <2> QED
        BY <2>2, <2>3, <2>4
<1>3. ASSUME NEW m \in Int, x1 >= m, x2 >= m, m > y1, m > y2
      PROVE  FALSE
    <2>1. c * (x2 - m) >= 0 /\ (-d) * (x1 - m) >= 0 /\ b * (m - y1) > 0 /\ (-a) * (m - y2) > 0
        BY <1>1, <1>3, ProductSign
    <2>2. c * m - d * m <= c * x2 - d * x1
        BY <2>1
    <2>3. b * y1 - a * y2 < b * m - a * m
        BY <2>1
    <2>4. c * m - d * m = b * m - a * m
        <3>1. (c - d) * m = (b - a) * m
            OBVIOUS
        <3> QED
            BY <3>1
    <2> QED
        BY <2>2, <2>3, <2>4
<1> QED
    BY <1>2, <1>3

(* Segments that cross properly have overlapping extents in x and in y. *)
LEMMA CrossIsMeet ==
    ASSUME NEW p1 \in Point, NEW p2 \in Point, NEW q1 \in Point, NEW q2 \in Point,
           Sign(cross(q1, q2, p1)) * Sign(cross(q1, q2, p2)) < 0,
           Sign(cross(p1, p2, q1)) * Sign(cross(p1, p2, q2)) < 0,
           NEW i \in 1..2
    PROVE  /\ ~(p1[i] < q1[i] /\ p1[i] < q2[i] /\ p2[i] < q1[i] /\ p2[i] < q2[i])
           /\ ~(p1[i] > q1[i] /\ p1[i] > q2[i] /\ p2[i] > q1[i] /\ p2[i] > q2[i])
<1> DEFINE a == cross(p1, p2, q1)
           b == cross(p1, p2, q2)
           c == cross(q1, q2, p1)
           d == cross(q1, q2, p2)
           x1 == p1[i]
           x2 == p2[i]
           y1 == q1[i]
           y2 == q2[i]
<1>1. a \in Int /\ b \in Int /\ c \in Int /\ d \in Int
    BY CrossAt
<1>2. c - d = b - a
    BY DEF cross, Point
<1>3. b * y1 - a * y2 = c * x2 - d * x1
    <2>1. CASE i = 1
        BY <2>1 DEF cross, Point
    <2>2. CASE i = 2
        BY <2>2 DEF cross, Point
    <2> QED
        BY <2>1, <2>2
<1>4. x1 \in Int /\ x2 \in Int /\ y1 \in Int /\ y2 \in Int
    BY DEF Point
<1> HIDE DEF a, b, c, d, x1, x2, y1, y2
<1> SUFFICES ~(x1 < y1 /\ x1 < y2 /\ x2 < y1 /\ x2 < y2) /\ ~(x1 > y1 /\ x1 > y2 /\ x2 > y1 /\ x2 > y2)
    BY DEF x1, x2, y1, y2
<1>5. ((a < 0 /\ b > 0) \/ (a > 0 /\ b < 0)) /\ ((c < 0 /\ d > 0) \/ (c > 0 /\ d < 0))
    BY <1>1, SignProduct DEF a, b, c, d
<1>6. CASE c > 0 /\ d < 0
    BY <1>1, <1>2, <1>3, <1>4, <1>5, <1>6, CrossingNotApart
<1>7. CASE c < 0 /\ d > 0
    <2>1. /\ -a \in Int /\ -b \in Int /\ -c \in Int /\ -d \in Int
          /\ -c - (-d) = -b - (-a) /\ -c > 0 /\ -d < 0 /\ ((-a < 0 /\ -b > 0) \/ (-a > 0 /\ -b < 0))
          /\ (-b) * y1 - (-a) * y2 = (-c) * x2 - (-d) * x1
        BY <1>1, <1>2, <1>3, <1>4, <1>5, <1>7
    <2> DEFINE ma == -a
               mb == -b
               mc == -c
               md == -d
    <2> HIDE DEF ma, mb, mc, md
    <2>2. /\ ma \in Int /\ mb \in Int /\ mc \in Int /\ md \in Int
          /\ mc - md = mb - ma /\ mc > 0 /\ md < 0 /\ ((ma < 0 /\ mb > 0) \/ (ma > 0 /\ mb < 0))
          /\ mb * y1 - ma * y2 = mc * x2 - md * x1
        BY <2>1 DEF ma, mb, mc, md
    <2> QED
        BY <1>4, <2>2, CrossingNotApart
<1> QED
    BY <1>5, <1>6, <1>7

(* segmentsIntersect finds only segments that meet. *)
LEMMA SeenIsMeet ==
    ASSUME NEW p1 \in Point, NEW p2 \in Point, NEW q1 \in Point, NEW q2 \in Point,
           segmentsIntersect(p1, p2, q1, q2)
    PROVE  Meet(p1, p2, q1, q2)
<1> DEFINE Low(i) == p1[i] < q1[i] /\ p1[i] < q2[i] /\ p2[i] < q1[i] /\ p2[i] < q2[i]
           High(i) == p1[i] > q1[i] /\ p1[i] > q2[i] /\ p2[i] > q1[i] /\ p2[i] > q2[i]
           P == Sign(cross(p1, p2, q1)) * Sign(cross(p1, p2, q2)) <= 0
           Q == Sign(cross(q1, q2, p1)) * Sign(cross(q1, q2, p2)) <= 0
<1>1. SUFFICES P /\ Q /\ \A i \in 1..2 : ~Low(i) /\ ~High(i)
    BY DEF Meet
<1>2. \A i \in 1..2 : p1[i] \in Int /\ p2[i] \in Int /\ q1[i] \in Int /\ q2[i] \in Int
    BY DEF Point
<1>c. /\ cross(p1, p2, q1) \in Int /\ cross(p1, p2, q2) \in Int
      /\ cross(q1, q2, p1) \in Int /\ cross(q1, q2, p2) \in Int
    BY CrossAt
<1>d. /\ cross(p2, p1, q1) = -cross(p1, p2, q1) /\ cross(p2, p1, q2) = -cross(p1, p2, q2)
      /\ cross(q2, q1, p1) = -cross(q1, q2, p1) /\ cross(q2, q1, p2) = -cross(q1, q2, p2)
    BY CrossAt
<1>e. ASSUME NEW x \in Int, NEW y \in Int, Sign(-x) * Sign(-y) <= 0 \/ Sign(y) * Sign(x) <= 0 \/ Sign(-y) * Sign(-x) <= 0
      PROVE  Sign(x) * Sign(y) <= 0
    <2>1. -x \in Int /\ -y \in Int
        OBVIOUS
    <2> QED
        BY <1>e, <2>1, SignProduct
<1>3. CASE /\ Sign(cross(q1, q2, p1)) * Sign(cross(q1, q2, p2)) < 0
           /\ Sign(cross(p1, p2, q1)) * Sign(cross(p1, p2, q2)) < 0
    <2>1. P /\ Q
        <3> DEFINE a == cross(p1, p2, q1)
                   b == cross(p1, p2, q2)
                   c == cross(q1, q2, p1)
                   d == cross(q1, q2, p2)
        <3>1. Sign(a) * Sign(b) < 0 /\ Sign(c) * Sign(d) < 0 /\ a \in Int /\ b \in Int /\ c \in Int /\ d \in Int
            BY <1>3, <1>c
        <3> HIDE DEF a, b, c, d
        <3>2. Sign(a) * Sign(b) <= 0 /\ Sign(c) * Sign(d) <= 0
            BY <3>1, SignProduct
        <3> QED
            BY <3>2 DEF a, b, c, d
    <2> QED
        BY <1>3, <2>1, CrossIsMeet
<1>4. CASE OnSegment(p1, q1, q2)
    <2>1. P /\ Q /\ \A i \in 1..2 : (q1[i] <= p1[i] /\ p1[i] <= q2[i]) \/ (q2[i] <= p1[i] /\ p1[i] <= q1[i])
        BY <1>4, TouchIsMeet
    <2> QED
        BY <1>2, <2>1
<1>5. CASE OnSegment(p2, q1, q2)
    <2>1. /\ Sign(cross(p2, p1, q1)) * Sign(cross(p2, p1, q2)) <= 0
          /\ Sign(cross(q1, q2, p2)) * Sign(cross(q1, q2, p1)) <= 0
          /\ \A i \in 1..2 : (q1[i] <= p2[i] /\ p2[i] <= q2[i]) \/ (q2[i] <= p2[i] /\ p2[i] <= q1[i])
        BY <1>5, TouchIsMeet
    <2>2. P /\ Q
        BY <1>c, <1>d, <1>e, <2>1
    <2> QED
        BY <1>2, <2>1, <2>2
<1>6. CASE OnSegment(q1, p1, p2)
    <2>1. P /\ Q /\ \A i \in 1..2 : (p1[i] <= q1[i] /\ q1[i] <= p2[i]) \/ (p2[i] <= q1[i] /\ q1[i] <= p1[i])
        BY <1>6, TouchIsMeet
    <2> QED
        BY <1>2, <2>1
<1>7. CASE OnSegment(q2, p1, p2)
    <2>1. /\ Sign(cross(q2, q1, p1)) * Sign(cross(q2, q1, p2)) <= 0
          /\ Sign(cross(p1, p2, q2)) * Sign(cross(p1, p2, q1)) <= 0
          /\ \A i \in 1..2 : (p1[i] <= q2[i] /\ q2[i] <= p2[i]) \/ (p2[i] <= q2[i] /\ q2[i] <= p1[i])
        BY <1>7, TouchIsMeet
    <2>2. P /\ Q
        BY <1>c, <1>d, <1>e, <2>1
    <2> QED
        BY <1>2, <2>1, <2>2
<1> QED
    BY <1>3, <1>4, <1>5, <1>6, <1>7 DEF segmentsIntersect

(* segmentsIntersect of geometry.py is right about all segments of the     *)
(* grid: those that cross, touch, overlap, lie on one line apart from each *)
(* other, or are single points.                                            *)
THEOREM IntersectsIffMeet ==
    \A p1, p2, q1, q2 \in Point : segmentsIntersect(p1, p2, q1, q2) <=> Meet(p1, p2, q1, q2)
  BY MeetIsSeen, SeenIsMeet

(* What Abs returns. *)
LEMMA AbsFacts ==
    ASSUME NEW x \in Int
    PROVE  Abs(x) \in Nat /\ Abs(-x) = Abs(x) /\ x <= Abs(x) /\ -x <= Abs(x) /\ Abs(x) \in {x, -x}
  BY DEF Abs

(* Order of squares. *)
LEMMA Squares ==
    ASSUME NEW x \in Nat, NEW y \in Nat
    PROVE  x < y <=> x * x < y * y
<1>1. x < y => x * x < y * y
    <2> SUFFICES ASSUME x < y PROVE x * x < y * y
        OBVIOUS
    <2>1. y * y - x * x = (y - x) * (y + x)
        OBVIOUS
    <2>2. (y - x) * (y + x) > 0
        BY ProductSign
    <2> QED
        BY <2>1, <2>2
<1>2. ~(x < y) => ~(x * x < y * y)
    <2> SUFFICES ASSUME x >= y PROVE x * x >= y * y
        OBVIOUS
    <2>1. x * x - y * y = (x - y) * (x + y)
        OBVIOUS
    <2>2. (x - y) * (x + y) >= 0
        BY ProductSign
    <2> QED
        BY <2>1, <2>2
<1> QED
    BY <1>1, <1>2

(* A square does not show the sign. *)
LEMMA AbsSquare ==
    ASSUME NEW x \in Int
    PROVE  Abs(x) * Abs(x) = x * x
  BY DEF Abs

(* A positive factor on both sides can be left out. *)
LEMMA Cancelled ==
    ASSUME NEW k \in Int, k > 0, NEW x \in Int, NEW y \in Int
    PROVE  /\ k * x <= k * y <=> x <= y
           /\ k * x < k * y <=> x < y
<1>1. k * (y - x) = k * y - k * x
    OBVIOUS
<1>2. (y - x > 0 => k * (y - x) > 0) /\ (y - x < 0 => k * (y - x) < 0) /\ (y - x = 0 => k * (y - x) = 0)
    BY ProductSign
<1> QED
    BY <1>1, <1>2

(* len is the length of the segment from a to b. *)
IsLength(len, a, b) == len \in Nat /\ len * len = Dot(Minus(b, a), Minus(b, a))

(* A point nearer than limit to an end of a segment is nearer to the       *)
(* segment.                                                                *)
LEMMA CloserToEnd ==
    ASSUME NEW p \in Point, NEW a \in Point, NEW b \in Point, NEW len, IsLength(len, a, b), NEW limit \in Nat,
           Dot(Minus(p, a), Minus(p, a)) < limit * limit
    PROVE  PointCloser(p, a, b, len, limit)
<1> DEFINE w1 == p[1] - a[1]
           w2 == p[2] - a[2]
           r1 == b[1] - a[1]
           r2 == b[2] - a[2]
           W == w1 * w1 + w2 * w2
           R == r1 * r1 + r2 * r2
           al == w1 * r1 + w2 * r2
           k == r1 * w2 - r2 * w1
<1>1. w1 \in Int /\ w2 \in Int /\ r1 \in Int /\ r2 \in Int
    BY DEF Point
<1>2. /\ Dot(Minus(p, a), Minus(b, a)) = al
      /\ Dot(Minus(p, a), Minus(p, a)) = W
      /\ Dot(Minus(b, a), Minus(b, a)) = R
      /\ cross(a, b, p) = k
    BY DEF Dot, Minus, cross, Point
<1>3. Dot(Minus(p, b), Minus(p, b)) = W + R - 2 * al
    BY DEF Dot, Minus, Point
<1> HIDE DEF w1, w2, r1, r2
<1>4. W \in Int /\ R \in Int /\ al \in Int /\ k \in Int /\ W >= 0 /\ R >= 0
    BY <1>1, ProductSign
<1>5. k * k + al * al = W * R
    BY <1>1
<1> HIDE DEF W, R, al, k
<1>6. W < limit * limit /\ R = len * len /\ len \in Nat
    BY <1>2 DEF IsLength
<1>7. CASE al <= 0
    BY <1>2, <1>6, <1>7 DEF PointCloser
<1>8. CASE al > 0 /\ al >= len * len
    <2>1. W + R - 2 * al < limit * limit
        BY <1>4, <1>6, <1>8
    <2> QED
        BY <1>2, <1>3, <1>4, <1>8, <2>1 DEF PointCloser
<1>9. CASE al > 0 /\ al < len * len
    <2>1. R > 0
        BY <1>4, <1>6, <1>9
    <2>2. al * al >= 0
        BY <1>4, ProductSign
    <2>3. k * k <= W * R
        BY <1>4, <1>5, <2>2
    <2>4. R * W < R * (limit * limit)
        BY <1>4, <1>6, <2>1, Cancelled
    <2>5. k * k < (limit * len) * (limit * len)
        <3>1. R * (limit * limit) = (limit * len) * (limit * len)
            BY <1>6
        <3> QED
            BY <1>4, <2>3, <2>4, <3>1
    <2>6. Abs(k) \in Nat /\ Abs(k) * Abs(k) = k * k
        BY <1>4, AbsFacts, AbsSquare
    <2>7. Abs(k) < limit * len
        <3> DEFINE x == Abs(k)
                   y == limit * len
        <3>1. x \in Nat /\ y \in Nat /\ x * x < y * y
            BY <1>6, <2>5, <2>6, ProductSign
        <3> HIDE DEF x, y
        <3>2. x < y
            BY <3>1, Squares
        <3> QED
            BY <3>2 DEF x, y
    <2> QED
        BY <1>2, <1>4, <1>6, <1>9, <2>7 DEF PointCloser
<1> QED
    BY <1>4, <1>6, <1>7, <1>8, <1>9

(* Cauchy and Schwarz. *)
LEMMA Projected ==
    ASSUME NEW n1 \in Int, NEW n2 \in Int, NEW g1 \in Int, NEW g2 \in Int
    PROVE  (n1 * g1 + n2 * g2) * (n1 * g1 + n2 * g2) <= (n1 * n1 + n2 * n2) * (g1 * g1 + g2 * g2)
<1> DEFINE x == n1 * g2 - n2 * g1
<1>1. (n1 * n1 + n2 * n2) * (g1 * g1 + g2 * g2) = (n1 * g1 + n2 * g2) * (n1 * g1 + n2 * g2) + x * x
    OBVIOUS
<1>2. x \in Int
    OBVIOUS
<1> HIDE DEF x
<1>3. x * x >= 0
    BY <1>2, ProductSign
<1>4. /\ (n1 * n1 + n2 * n2) * (g1 * g1 + g2 * g2) \in Int
      /\ (n1 * g1 + n2 * g2) * (n1 * g1 + n2 * g2) \in Int
      /\ x * x \in Int
    BY <1>2
<1> QED
    BY <1>1, <1>3, <1>4

(* D, a product with n, is limit or more along n. *)
Spans(D, n, limit) == Dot(n, n) > 0 /\ Dot(n, n) * (limit * limit) <= D * D

(* A segment that lies D or more beyond p in the direction n is as far     *)
(* from p as that.                                                         *)
LEMMA FarFromSegment ==
    ASSUME NEW p \in Point, NEW a \in Point, NEW b \in Point, NEW n \in Point,
           NEW len, IsLength(len, a, b), NEW limit \in Nat, NEW D \in Nat, Spans(D, n, limit),
           Dot(n, Minus(a, p)) >= D, Dot(n, Minus(b, p)) >= D
    PROVE  ~PointCloser(p, a, b, len, limit)
<1> DEFINE n1 == n[1]
           n2 == n[2]
           u1 == a[1] - p[1]
           u2 == a[2] - p[2]
           v1 == b[1] - p[1]
           v2 == b[2] - p[2]
           N == n1 * n1 + n2 * n2
           U == u1 * u1 + u2 * u2
           V == v1 * v1 + v2 * v2
           nu == n1 * u1 + n2 * u2
           nv == n1 * v1 + n2 * v2
           E == (v1 - u1) * (v1 - u1) + (v2 - u2) * (v2 - u2)
           al == (u1 * u1 + u2 * u2) - (u1 * v1 + u2 * v2)
           k == u1 * v2 - u2 * v1
<1>1. n1 \in Int /\ n2 \in Int /\ u1 \in Int /\ u2 \in Int /\ v1 \in Int /\ v2 \in Int
    BY DEF Point
<1>2. /\ Dot(n, n) = N /\ Dot(n, Minus(a, p)) = nu /\ Dot(n, Minus(b, p)) = nv
      /\ Dot(Minus(p, a), Minus(p, a)) = U /\ Dot(Minus(p, b), Minus(p, b)) = V
    BY DEF Dot, Minus, Point
<1>3. /\ Dot(Minus(b, a), Minus(b, a)) = E
      /\ Dot(Minus(p, a), Minus(b, a)) = al
      /\ cross(a, b, p) = k
    BY DEF Dot, Minus, cross, Point
<1> HIDE DEF n1, n2, u1, u2, v1, v2
<1>4. /\ N \in Int /\ U \in Int /\ V \in Int /\ nu \in Int /\ nv \in Int
      /\ E \in Int /\ al \in Int /\ k \in Int
    BY <1>1
<1>5. nu * nu <= N * U /\ nv * nv <= N * V
    BY <1>1, Projected
<1>6. D <= nu /\ D <= nv /\ N > 0 /\ N * (limit * limit) <= D * D /\ E = len * len /\ len \in Nat
    <2>1. D <= nu /\ D <= nv
        BY <1>2, <1>4
    <2> QED
        BY <1>2, <1>3, <2>1 DEF IsLength, Spans
<1>7. ASSUME NEW x \in Int, NEW X \in Int, D <= x, x * x <= N * X
      PROVE  limit * limit <= X
    <2>1. D * D <= x * x
        <3>1. x \in Nat
            BY <1>7
        <3>2. ~(x * x < D * D)
            BY <1>7, <3>1, Squares
        <3> QED
            BY <3>1, <3>2
    <2>2. N * (limit * limit) <= N * X
        BY <1>4, <1>6, <1>7, <2>1
    <2> HIDE DEF N
    <2> QED
        BY <1>4, <1>6, <1>7, <2>2, Cancelled
<1>8. limit * limit <= U /\ limit * limit <= V
    <2> HIDE DEF N, U, V, nu, nv
    <2> QED
        BY <1>4, <1>5, <1>6, <1>7
<1>9. CASE al <= 0
    <2>1. ~(U < limit * limit)
        BY <1>4, <1>8
    <2> QED
        BY <1>2, <1>3, <1>9, <2>1 DEF PointCloser
<1>10. CASE al > 0 /\ al >= len * len
    <2>1. ~(V < limit * limit)
        BY <1>4, <1>8
    <2>2. ~(al <= 0)
        BY <1>4, <1>10
    <2> QED
        BY <1>2, <1>3, <1>10, <2>1, <2>2 DEF PointCloser
<1>11. CASE al > 0 /\ al < len * len
    <2> DEFINE g1 == (E - al) * u1 + al * v1
               g2 == (E - al) * u2 + al * v2
    <2>1. g1 \in Int /\ g2 \in Int
        BY <1>1, <1>4
    <2>2. g1 * g1 + g2 * g2 = E * (k * k)
        BY <1>1
    <2>3. n1 * g1 + n2 * g2 = (E - al) * nu + al * nv
        <3> HIDE DEF E, al
        <3> QED
            BY <1>1, <1>4
    <2> HIDE DEF E, al, k, N, nu, nv
    <2>4. (E - al) * (nu - D) >= 0 /\ al * (nv - D) >= 0
        BY <1>4, <1>6, <1>11, ProductSign
    <2>5. (E - al) * nu + al * nv >= E * D
        BY <1>4, <2>4
    <2> DEFINE G == n1 * g1 + n2 * g2
    <2>6. G \in Int /\ G >= E * D
        BY <1>1, <1>4, <2>1, <2>3, <2>5
    <2>7. G * G <= N * (E * (k * k))
        BY <1>1, <2>1, <2>2, Projected DEF N
    <2> HIDE DEF G, g1, g2
    <2>8. E > 0 /\ E \in Nat /\ E * D \in Nat
        BY <1>4, <1>6, <1>11, ProductSign
    <2>9. (E * D) * (E * D) <= G * G
        <3> DEFINE x == E * D
        <3> HIDE DEF x
        <3>1. x \in Nat /\ G \in Nat /\ ~(G < x)
            BY <2>6, <2>8 DEF x
        <3>2. ~(G * G < x * x)
            BY <3>1, Squares
        <3>3. x * x <= G * G
            BY <3>1, <3>2
        <3> QED
            BY <3>3 DEF x
    <2>10. E * (E * (D * D)) <= E * (N * (k * k))
        <3>1. (E * D) * (E * D) = E * (E * (D * D)) /\ N * (E * (k * k)) = E * (N * (k * k))
            BY <1>4
        <3>2. (E * D) * (E * D) \in Int /\ G * G \in Int /\ N * (E * (k * k)) \in Int
            BY <1>4, <2>6
        <3> QED
            BY <2>7, <2>9, <3>1, <3>2
    <2>11. E * (D * D) <= N * (k * k)
        <3> DEFINE x == E * (D * D)
                   y == N * (k * k)
        <3>1. x \in Int /\ y \in Int
            BY <1>4
        <3> HIDE DEF x, y
        <3>2. E * x <= E * y
            BY <2>10 DEF x, y
        <3>3. x <= y
            BY <1>4, <2>8, <3>1, <3>2, Cancelled
        <3> QED
            BY <3>3 DEF x, y
    <2>12. E * (N * (limit * limit)) <= E * (D * D)
        <3> DEFINE x == N * (limit * limit)
                   y == D * D
        <3>1. x \in Int /\ y \in Int /\ x <= y
            BY <1>4, <1>6
        <3> HIDE DEF x, y
        <3>2. E * x <= E * y
            BY <1>4, <2>8, <3>1, Cancelled
        <3> QED
            BY <3>2 DEF x, y
    <2>13. N * ((limit * len) * (limit * len)) <= N * (k * k)
        <3>1. E * (N * (limit * limit)) = N * ((limit * len) * (limit * len))
            BY <1>4, <1>6
        <3>2. E * (N * (limit * limit)) \in Int /\ E * (D * D) \in Int /\ N * (k * k) \in Int
            BY <1>4
        <3> QED
            BY <2>11, <2>12, <3>1, <3>2
    <2>14. (limit * len) * (limit * len) <= k * k
        <3> DEFINE x == (limit * len) * (limit * len)
                   y == k * k
        <3>1. x \in Int /\ y \in Int
            BY <1>4, <1>6
        <3> HIDE DEF x, y
        <3>2. N * x <= N * y
            BY <2>13 DEF x, y
        <3>3. x <= y
            BY <1>4, <1>6, <3>1, <3>2, Cancelled
        <3> QED
            BY <3>3 DEF x, y
    <2>15. ~(Abs(k) < limit * len)
        <3> DEFINE x == Abs(k)
                   y == limit * len
        <3>1. x \in Nat /\ y \in Nat /\ x * x = k * k
            BY <1>4, <1>6, AbsFacts, AbsSquare, ProductSign
        <3> HIDE DEF x, y
        <3>2. ~(x * x < y * y)
            <4>1. y * y <= x * x
                BY <2>14, <3>1 DEF y
            <4> QED
                BY <3>1, <4>1
        <3>3. ~(x < y)
            BY <3>1, <3>2, Squares
        <3> QED
            BY <3>3 DEF x, y
    <2>16. ~(al <= 0) /\ ~(al >= len * len)
        BY <1>4, <1>6, <1>11
    <2> QED
        BY <1>3, <2>15, <2>16 DEF PointCloser
<1> QED
    BY <1>4, <1>6, <1>9, <1>10, <1>11

(* Segments on two sides of a line have no point in common. *)
LEMMA ApartDontMeet ==
    ASSUME NEW p1 \in Point, NEW p2 \in Point, NEW q1 \in Point, NEW q2 \in Point, NEW n \in Point,
           Dot(n, p1) < Dot(n, q1), Dot(n, p1) < Dot(n, q2), Dot(n, p2) < Dot(n, q1), Dot(n, p2) < Dot(n, q2)
    PROVE  ~segmentsIntersect(p1, p2, q1, q2)
<1> DEFINE x1 == Dot(n, p1)
           x2 == Dot(n, p2)
           y1 == Dot(n, q1)
           y2 == Dot(n, q2)
<1>1. x1 \in Int /\ x2 \in Int /\ y1 \in Int /\ y2 \in Int /\ n[1] \in Int /\ n[2] \in Int
    BY DEF Dot, Point
<1>2. ASSUME NEW p \in Point, NEW e \in Point, NEW f \in Point, OnSegment(p, e, f),
             (Dot(n, p) < Dot(n, e) /\ Dot(n, p) < Dot(n, f)) \/ (Dot(n, p) > Dot(n, e) /\ Dot(n, p) > Dot(n, f))
      PROVE  FALSE
    <2> DEFINE g == n[1] * (e[1] - p[1]) + n[2] * (e[2] - p[2])
               h == n[1] * (f[1] - p[1]) + n[2] * (f[2] - p[2])
    <2>1. g * h <= 0
        BY <1>1, <1>2, PointParts
    <2>2. g = Dot(n, e) - Dot(n, p) /\ h = Dot(n, f) - Dot(n, p) /\ Dot(n, e) \in Int /\ Dot(n, f) \in Int /\ Dot(n, p) \in Int
        BY DEF Dot, Point
    <2> HIDE DEF g, h
    <2> QED
        BY <1>2, <2>1, <2>2, ProductSign
<1>3. ~OnSegment(p1, q1, q2) /\ ~OnSegment(p2, q1, q2) /\ ~OnSegment(q1, p1, p2) /\ ~OnSegment(q2, p1, p2)
    <2> HIDE DEF x1, x2, y1, y2
    <2>1. ~OnSegment(p1, q1, q2)
        BY <1>2
    <2>2. ~OnSegment(p2, q1, q2)
        BY <1>2
    <2>3. y1 > x1 /\ y1 > x2 /\ y2 > x1 /\ y2 > x2
        BY <1>1 DEF x1, x2, y1, y2
    <2>4. ~OnSegment(q1, p1, p2) /\ ~OnSegment(q2, p1, p2)
        BY <1>2, <2>3 DEF x1, x2, y1, y2
    <2> QED
        BY <2>1, <2>2, <2>4
<1>4. ASSUME Sign(cross(q1, q2, p1)) * Sign(cross(q1, q2, p2)) < 0,
             Sign(cross(p1, p2, q1)) * Sign(cross(p1, p2, q2)) < 0
      PROVE  FALSE
    <2> DEFINE a == cross(p1, p2, q1)
               b == cross(p1, p2, q2)
               c == cross(q1, q2, p1)
               d == cross(q1, q2, p2)
    <2>1. a \in Int /\ b \in Int /\ c \in Int /\ d \in Int
        BY CrossAt
    <2>2. c - d = b - a
        BY DEF cross, Point
    <2>3. \A i \in 1..2 : b * q1[i] - a * q2[i] = c * p2[i] - d * p1[i]
        BY DEF cross, Point
    <2>4. ((a < 0 /\ b > 0) \/ (a > 0 /\ b < 0)) /\ ((c < 0 /\ d > 0) \/ (c > 0 /\ d < 0))
        BY <1>4, <2>1, SignProduct
    <2> HIDE DEF a, b, c, d
    <2>5. b * y1 - a * y2 = c * x2 - d * x1
        <3>1. /\ b * y1 - a * y2 = n[1] * (b * q1[1] - a * q2[1]) + n[2] * (b * q1[2] - a * q2[2])
              /\ c * x2 - d * x1 = n[1] * (c * p2[1] - d * p1[1]) + n[2] * (c * p2[2] - d * p1[2])
            BY <2>1 DEF Dot, Point
        <3> QED
            BY <2>3, <3>1
    <2> HIDE DEF x1, x2, y1, y2
    <2>6. x1 < y1 /\ x1 < y2 /\ x2 < y1 /\ x2 < y2
        BY DEF x1, x2, y1, y2
    <2>7. CASE c > 0 /\ d < 0
        BY <1>1, <2>1, <2>2, <2>4, <2>5, <2>6, <2>7, CrossingNotApart
    <2>8. CASE c < 0 /\ d > 0
        <3> DEFINE ma == -a
                   mb == -b
                   mc == -c
                   md == -d
        <3>1. /\ ma \in Int /\ mb \in Int /\ mc \in Int /\ md \in Int
              /\ mc - md = mb - ma /\ mc > 0 /\ md < 0 /\ ((ma < 0 /\ mb > 0) \/ (ma > 0 /\ mb < 0))
              /\ mb * y1 - ma * y2 = mc * x2 - md * x1
            BY <1>1, <2>1, <2>2, <2>4, <2>5, <2>8
        <3> HIDE DEF ma, mb, mc, md
        <3> QED
            BY <1>1, <2>6, <3>1, CrossingNotApart
    <2> QED
        BY <2>4, <2>7, <2>8
<1> QED
    BY <1>3, <1>4 DEF segmentsIntersect

-----------------------------------------------------------------------------
(* Boxes as the geometry takes them. *)
Box == [centre : Point, l : Nat \ {0}, w : Nat \ {0}, u : Point]

(* A quarter turn to the left. *)
Left(v) == <<-v[2], v[1]>>

(* The operations on points return points and numbers. *)
LEMMA PointOps ==
    ASSUME NEW p \in Point, NEW q \in Point, NEW k \in Int
    PROVE  Plus(p, q) \in Point /\ Minus(p, q) \in Point /\ Times(k, p) \in Point /\ Dot(p, q) \in Int
  BY DEF Point, Plus, Minus, Times, Dot


(* Multiples and quarter turns of a vector. *)
LEMMA Lengths ==
    ASSUME NEW k \in Int, NEW v \in Point
    PROVE  /\ Dot(Times(k, v), Times(k, v)) = k * k * Dot(v, v)
           /\ Dot(Left(v), Left(v)) = Dot(v, v)
           /\ Left(v) \in Point
           /\ Dot(v, Left(v)) = 0
  BY DEF Dot, Times, Left, Point

(* The corners of a box and its edges. *)
LEMMA BoxEdges ==
    ASSUME NEW o \in Box, Dot(o.u, o.u) = 625
    PROVE  /\ \A i \in 1..4 : boxCorners(o)[i] \in Point
           /\ \A i \in 1..4 : \E e \in Edges(o) : e.a = boxCorners(o)[i]
           /\ \A e \in Edges(o) :
                 /\ \E i, j \in 1..4 : e.a = boxCorners(o)[i] /\ e.b = boxCorners(o)[j]
                 /\ IsLength(e.length, e.a, e.b)
<1> DEFINE c == boxCorners(o)
           A == Times(o.l, o.u)
           B == Times(o.w, Left(o.u))
<1>1. o.l \in Nat \ {0} /\ o.w \in Nat \ {0} /\ o.u \in Point /\ o.centre \in Point /\ Left(o.u) \in Point
    BY DEF Box, Left, Point
<1>2. A \in Point /\ B \in Point
    BY <1>1, PointOps
<1>3. c = <<Plus(Plus(o.centre, A), B), Minus(Plus(o.centre, A), B), Minus(Minus(o.centre, A), B), Plus(Minus(o.centre, A), B)>>
    BY DEF boxCorners, boxAxes, Left
<1>4. Dot(A, A) = o.l * o.l * 625 /\ Dot(B, B) = o.w * o.w * 625
    <2>1. Dot(A, A) = o.l * o.l * Dot(o.u, o.u)
        BY <1>1, Lengths
    <2>2. Dot(B, B) = o.w * o.w * Dot(Left(o.u), Left(o.u))
        <3> DEFINE v == Left(o.u)
        <3> HIDE DEF v
        <3>1. v \in Point
            BY <1>1 DEF v
        <3>2. Dot(Times(o.w, v), Times(o.w, v)) = o.w * o.w * Dot(v, v)
            BY <1>1, <3>1, Lengths
        <3> QED
            BY <3>2 DEF v
    <2>3. Dot(Left(o.u), Left(o.u)) = Dot(o.u, o.u)
        BY <1>1 DEF Dot, Left, Point
    <2> QED
        BY <2>1, <2>2, <2>3
<1> HIDE DEF A, B
<1>5. /\ c[1] \in Point /\ c[2] \in Point /\ c[3] \in Point /\ c[4] \in Point
    BY <1>1, <1>2, <1>3, PointOps
<1>6. /\ Dot(Minus(c[2], c[1]), Minus(c[2], c[1])) = 4 * Dot(B, B)
      /\ Dot(Minus(c[3], c[2]), Minus(c[3], c[2])) = 4 * Dot(A, A)
      /\ Dot(Minus(c[4], c[3]), Minus(c[4], c[3])) = 4 * Dot(B, B)
      /\ Dot(Minus(c[1], c[4]), Minus(c[1], c[4])) = 4 * Dot(A, A)
    <2>1. c[1] = Plus(Plus(o.centre, A), B) /\ c[2] = Minus(Plus(o.centre, A), B)
            /\ c[3] = Minus(Minus(o.centre, A), B) /\ c[4] = Plus(Minus(o.centre, A), B)
        BY <1>3
    <2>2. Dot(Minus(c[2], c[1]), Minus(c[2], c[1])) = 4 * Dot(B, B)
        BY <1>1, <1>2, <2>1 DEF Dot, Minus, Plus, Point
    <2>3. Dot(Minus(c[3], c[2]), Minus(c[3], c[2])) = 4 * Dot(A, A)
        BY <1>1, <1>2, <2>1 DEF Dot, Minus, Plus, Point
    <2>4. Dot(Minus(c[4], c[3]), Minus(c[4], c[3])) = 4 * Dot(B, B)
        BY <1>1, <1>2, <2>1 DEF Dot, Minus, Plus, Point
    <2>5. Dot(Minus(c[1], c[4]), Minus(c[1], c[4])) = 4 * Dot(A, A)
        BY <1>1, <1>2, <2>1 DEF Dot, Minus, Plus, Point
    <2> QED
        BY <2>2, <2>3, <2>4, <2>5
<1>7. (Scale * o.l) * (Scale * o.l) = 4 * Dot(A, A) /\ (Scale * o.w) * (Scale * o.w) = 4 * Dot(B, B)
        /\ Scale * o.l \in Nat /\ Scale * o.w \in Nat
    BY <1>1, <1>4 DEF Scale
<1>8. Edges(o) = {[a |-> c[i], b |-> c[1 + (i % 4)], length |-> Scale * (IF i % 2 = 1 THEN o.w ELSE o.l)] : i \in 1..4}
    BY DEF Edges
<1> HIDE DEF c
<1>9. ASSUME NEW e \in Edges(o)
      PROVE  /\ \E i, j \in 1..4 : e.a = c[i] /\ e.b = c[j]
             /\ IsLength(e.length, e.a, e.b)
    <2>1. PICK i \in 1..4 : e = [a |-> c[i], b |-> c[1 + (i % 4)], length |-> Scale * (IF i % 2 = 1 THEN o.w ELSE o.l)]
        BY <1>8
    <2>2. CASE i = 1
        <3>1. e.a = c[1] /\ e.b = c[2] /\ e.length = Scale * o.w
            BY <2>1, <2>2
        <3> QED
            BY <1>6, <1>7, <3>1 DEF IsLength
    <2>3. CASE i = 2
        <3>1. e.a = c[2] /\ e.b = c[3] /\ e.length = Scale * o.l
            BY <2>1, <2>3
        <3> QED
            BY <1>6, <1>7, <3>1 DEF IsLength
    <2>4. CASE i = 3
        <3>1. e.a = c[3] /\ e.b = c[4] /\ e.length = Scale * o.w
            BY <2>1, <2>4
        <3> QED
            BY <1>6, <1>7, <3>1 DEF IsLength
    <2>5. CASE i = 4
        <3>1. e.a = c[4] /\ e.b = c[1] /\ e.length = Scale * o.l
            BY <2>1, <2>5
        <3> QED
            BY <1>6, <1>7, <3>1 DEF IsLength
    <2> QED
        BY <2>2, <2>3, <2>4, <2>5
<1>10. ASSUME NEW i \in 1..4
       PROVE  \E e \in Edges(o) : e.a = c[i]
    <2> DEFINE e == [a |-> c[i], b |-> c[1 + (i % 4)], length |-> Scale * (IF i % 2 = 1 THEN o.w ELSE o.l)]
    <2>1. e \in Edges(o)
        BY <1>8
    <2>2. e.a = c[i]
        OBVIOUS
    <2> HIDE DEF e
    <2> QED
        BY <2>1, <2>2
<1>11. \A i \in 1..4 : c[i] \in Point
    BY <1>5
<1> QED
    BY <1>9, <1>10, <1>11 DEF c

(* Boxes with two corners nearer than limit metres have a smaller gap. *)
LEMMA NearCorners ==
    ASSUME NEW a \in Box, NEW b \in Box, Dot(a.u, a.u) = 625, Dot(b.u, b.u) = 625, NEW limit \in Nat,
           NEW i \in 1..4, NEW j \in 1..4,
           Dot(Minus(boxCorners(a)[i], boxCorners(b)[j]), Minus(boxCorners(a)[i], boxCorners(b)[j]))
               < (Scale * limit) * (Scale * limit)
    PROVE  GapBelow(a, b, limit)
<1>1. PICK e \in Edges(a) : e.a = boxCorners(a)[i]
    BY BoxEdges
<1>2. PICK f \in Edges(b) : f.a = boxCorners(b)[j]
    BY BoxEdges
<1>3. e.a \in Point /\ f.a \in Point /\ f.b \in Point
    BY <1>1, <1>2, BoxEdges
<1>4. IsLength(f.length, f.a, f.b)
    BY BoxEdges
<1>5. Scale * limit \in Nat
    BY DEF Scale
<1>6. PointCloser(e.a, f.a, f.b, f.length, Scale * limit)
    BY <1>1, <1>2, <1>3, <1>4, <1>5, CloserToEnd
<1> QED
    BY <1>6 DEF GapBelow, EdgesCloser

(* Boxes whose corners lie on two sides of a strip of the given width have *)
(* edges no closer than that.                                              *)
LEMMA FarCorners ==
    ASSUME NEW a \in Box, NEW b \in Box, Dot(a.u, a.u) = 625, Dot(b.u, b.u) = 625,
           NEW n \in Point, NEW D \in Nat \ {0}, NEW limit \in Nat,
           Spans(D, n, limit),
           \A i, j \in 1..4 : Dot(n, Minus(boxCorners(b)[j], boxCorners(a)[i])) >= D,
           NEW e \in Edges(a), NEW f \in Edges(b)
    PROVE  ~EdgesCloser(e, f, limit)
<1>1. e.a \in Point /\ e.b \in Point /\ f.a \in Point /\ f.b \in Point
    BY BoxEdges
<1>2. IsLength(e.length, e.a, e.b) /\ IsLength(f.length, f.a, f.b)
    BY BoxEdges
<1>3. \A p \in {e.a, e.b}, q \in {f.a, f.b} : Dot(n, Minus(q, p)) >= D
    <2>1. \A p \in {e.a, e.b} : \E i \in 1..4 : p = boxCorners(a)[i]
        BY BoxEdges
    <2>2. \A q \in {f.a, f.b} : \E j \in 1..4 : q = boxCorners(b)[j]
        BY BoxEdges
    <2> QED
        BY <2>1, <2>2
<1>4. ~PointCloser(e.a, f.a, f.b, f.length, limit) /\ ~PointCloser(e.b, f.a, f.b, f.length, limit)
    BY <1>1, <1>2, <1>3, FarFromSegment
<1>5. ~PointCloser(f.a, e.a, e.b, e.length, limit) /\ ~PointCloser(f.b, e.a, e.b, e.length, limit)
    <2> DEFINE m == Times(-1, n)
    <2>1. m \in Point /\ Dot(m, m) = Dot(n, n)
        BY DEF Times, Point, Dot
    <2>2. \A p, q \in Point : Dot(m, Minus(p, q)) = Dot(n, Minus(q, p))
        BY DEF Times, Point, Dot, Minus
    <2> HIDE DEF m
    <2>3. Spans(D, m, limit)
        BY <2>1 DEF Spans
    <2>4. \A p \in {e.a, e.b}, q \in {f.a, f.b} : Dot(m, Minus(p, q)) >= D
        BY <1>1, <1>3, <2>2
    <2> QED
        BY <1>1, <1>2, <2>1, <2>3, <2>4, FarFromSegment
<1>6. ~segmentsIntersect(e.a, e.b, f.a, f.b)
    <2>1. \A p, q \in Point : Dot(n, p) \in Int /\ Dot(n, q) \in Int /\ Dot(n, Minus(q, p)) = Dot(n, q) - Dot(n, p)
        BY DEF Dot, Minus, Point
    <2>2. ASSUME NEW p \in {e.a, e.b}, NEW q \in {f.a, f.b}
          PROVE  Dot(n, p) < Dot(n, q)
        <3>1. p \in Point /\ q \in Point /\ Dot(n, Minus(q, p)) >= D
            BY <1>1, <1>3
        <3> QED
            BY <2>1, <3>1
    <2> QED
        BY <1>1, <2>2, ApartDontMeet
<1> QED
    BY <1>4, <1>5, <1>6 DEF EdgesCloser
=============================================================================
