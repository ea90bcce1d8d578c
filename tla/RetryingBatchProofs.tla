------------------------ MODULE RetryingBatchProofs ------------------------
(***************************************************************************)
(* Lemmas about the scheduler's steps, for both modules that extend it,    *)
(* and about the list selections of Positions they are made of.            *)
(***************************************************************************)
EXTENDS RetryingBatch, FiniteSetTheorems, TLAPS

-----------------------------------------------------------------------------
(* What the list selections of Positions return, for all lists and sets. *)

(* The rank of an element is a number between 1 and the size of the set. *)
LEMMA RankRange ==
    ASSUME NEW S \in SUBSET Nat, IsFiniteSet(S), NEW i \in S
    PROVE  RankIn(S, i) \in 1..Cardinality(S)
<1> DEFINE T == {j \in S : j <= i}
<1>1. IsFiniteSet(T) /\ Cardinality(T) \in Nat /\ Cardinality(S) \in Nat
      /\ Cardinality(T) <= Cardinality(S)
    BY FS_Subset, FS_CardinalityType
<1>2. Cardinality(T) # 0
    <2>1. i \in T
        OBVIOUS
    <2> QED BY <2>1, <1>1, FS_EmptySet
<1> QED BY <1>1, <1>2 DEF RankIn

(* Ranks are strictly increasing. *)
LEMMA RankIncreases ==
    ASSUME NEW S \in SUBSET Nat, IsFiniteSet(S), NEW i \in S, NEW j \in S, i < j
    PROVE  RankIn(S, i) < RankIn(S, j)
<1> DEFINE A == {k \in S : k <= i}
           B == {k \in S : k <= j}
<1>1. IsFiniteSet(B)
    BY FS_Subset
<1>2. A \subseteq B \ {j}
    <2>1. \A k \in S : k <= i => k <= j /\ k # j
        OBVIOUS
    <2> QED BY <2>1
<1>3. j \in B
    OBVIOUS
<1>4. IsFiniteSet(B \ {j}) /\ Cardinality(B \ {j}) = Cardinality(B) - 1
    BY <1>1, <1>3, FS_RemoveElement
<1>5. Cardinality(A) <= Cardinality(B \ {j})
    BY <1>2, <1>4, FS_Subset
<1>6. Cardinality(A) \in Nat /\ Cardinality(B) \in Nat
    BY <1>1, <1>2, <1>4, FS_Subset, FS_CardinalityType
<1> QED BY <1>4, <1>5, <1>6 DEF RankIn

(* Different elements have different ranks. *)
LEMMA RankInjective ==
    ASSUME NEW S \in SUBSET Nat, IsFiniteSet(S), NEW i \in S, NEW j \in S,
           RankIn(S, i) = RankIn(S, j)
    PROVE  i = j
<1>1. RankIn(S, i) \in Nat /\ RankIn(S, j) \in Nat
    BY RankRange, FS_CardinalityType
<1>2. ~(i < j) /\ ~(j < i)
    BY <1>1, RankIncreases
<1> QED BY <1>2

(* Every rank up to the size of the set is taken: Nth returns an element. *)
LEMMA NthIn ==
    ASSUME NEW S \in SUBSET Nat, IsFiniteSet(S), NEW n \in 1..Cardinality(S)
    PROVE  Nth(S, n) \in S /\ RankIn(S, Nth(S, n)) = n
<1> DEFINE f == [i \in S |-> RankIn(S, i)]
           m == Cardinality(S)
<1>1. m \in Nat
    BY FS_CardinalityType
<1>2. f \in Injection(S, 1..m)
    BY RankRange, RankInjective DEF Injection, IsInjective
<1>3. IsFiniteSet(1..m) /\ Cardinality(1..m) = m
    BY <1>1, FS_Interval
<1>4. f \in Surjection(S, 1..m)
    BY <1>2, <1>3, FS_Injection
<1>5. PICK i \in S : RankIn(S, i) = n
    BY <1>4 DEF Surjection
<1> QED BY <1>5 DEF Nth

(* The element of a rank is the only one of that rank. *)
LEMMA NthOfRank ==
    ASSUME NEW S \in SUBSET Nat, IsFiniteSet(S), NEW i \in S
    PROVE  RankIn(S, i) \in 1..Cardinality(S) /\ Nth(S, RankIn(S, i)) = i
<1>1. RankIn(S, i) \in 1..Cardinality(S)
    BY RankRange
<1> DEFINE k == Nth(S, RankIn(S, i))
<1>2. k \in S /\ RankIn(S, k) = RankIn(S, i)
    BY <1>1, NthIn
<1> HIDE DEF k
<1>3. k = i
    BY <1>2, RankInjective
<1> QED BY <1>1, <1>3 DEF k

(* The elements are read off in ascending order. *)
LEMMA NthIncreases ==
    ASSUME NEW S \in SUBSET Nat, IsFiniteSet(S),
           NEW m \in 1..Cardinality(S), NEW n \in 1..Cardinality(S), m < n
    PROVE  Nth(S, m) < Nth(S, n)
<1>1. /\ Nth(S, m) \in S /\ RankIn(S, Nth(S, m)) = m
      /\ Nth(S, n) \in S /\ RankIn(S, Nth(S, n)) = n
    BY NthIn
<1>2. Cardinality(S) \in Nat
    BY FS_CardinalityType
<1>3. ~(Nth(S, n) < Nth(S, m))
    <2> SUFFICES ASSUME Nth(S, n) < Nth(S, m) PROVE FALSE
        OBVIOUS
    <2>1. RankIn(S, Nth(S, n)) < RankIn(S, Nth(S, m))
        BY <1>1, RankIncreases
    <2> QED BY <1>1, <1>2, <2>1
<1>4. Nth(S, m) # Nth(S, n)
    BY <1>1, <1>2
<1>5. Nth(S, m) \in Nat /\ Nth(S, n) \in Nat
    BY <1>1
<1> QED BY <1>3, <1>4, <1>5

(* The first m elements of a set are at most m. *)
LEMMA FirstCount ==
    ASSUME NEW S \in SUBSET Nat, IsFiniteSet(S), NEW m \in Nat
    PROVE  Cardinality({i \in S : RankIn(S, i) <= m}) <= m
<1> DEFINE T == {i \in S : RankIn(S, i) <= m}
           f == [i \in T |-> RankIn(S, i)]
<1>1. \A i \in T : RankIn(S, i) \in 1..m
    BY RankRange, FS_CardinalityType
<1>2. f \in Injection(T, 1..m)
    BY <1>1, RankInjective DEF Injection, IsInjective
<1>3. IsFiniteSet(1..m) /\ Cardinality(1..m) = m
    BY FS_Interval
<1> QED BY <1>2, <1>3, FS_Injection

(* A selection from a list is a list of the same kind, one element per      *)
(* position, each of them found in the list.                                *)
LEMMA AtIsList ==
    ASSUME NEW T, NEW s \in Seq(T), NEW S \in SUBSET (DOMAIN s)
    PROVE  /\ At(s, S) \in Seq(T)
           /\ Len(At(s, S)) = Cardinality(S)
           /\ IsFiniteSet(S)
           /\ Cardinality(S) \in Nat
           /\ \A n \in 1..Cardinality(S) : Nth(S, n) \in S /\ At(s, S)[n] = s[Nth(S, n)]
<1>1. DOMAIN s = 1..Len(s) /\ Len(s) \in Nat
    OBVIOUS
<1>2. IsFiniteSet(S) /\ S \in SUBSET Nat
    <2>1. S \subseteq 1..Len(s)
        BY <1>1
    <2>2. IsFiniteSet(1..Len(s))
        BY <1>1, FS_Interval
    <2>3. IsFiniteSet(S)
        BY <2>1, <2>2, FS_Subset
    <2> QED BY <2>1, <2>3
<1>3. Cardinality(S) \in Nat
    BY <1>2, FS_CardinalityType
<1>4. \A n \in 1..Cardinality(S) : Nth(S, n) \in S
    BY <1>2, NthIn
<1>5. \A n \in 1..Cardinality(S) : s[Nth(S, n)] \in T
    BY <1>4, <1>1
<1> QED BY <1>2, <1>3, <1>4, <1>5 DEF At

(* The positions and the elements of a list. *)
LEMMA ListElements ==
    ASSUME NEW T, NEW s \in Seq(T)
    PROVE  /\ DOMAIN s = 1..Len(s)
           /\ Len(s) \in Nat
           /\ s = [i \in 1..Len(s) |-> s[i]]
           /\ \A i \in DOMAIN s : s[i] \in T
OBVIOUS

(* A function on 1..n into T is a list over T. *)
LEMMA ListOf ==
    ASSUME NEW T, NEW n \in Nat, NEW s, s = [i \in 1..n |-> s[i]], \A i \in 1..n : s[i] \in T
    PROVE  s \in Seq(T)
OBVIOUS

(* A selection has one element per position, whatever it selects from. *)
LEMMA AtLength ==
    ASSUME NEW s, NEW S, IsFiniteSet(S)
    PROVE  Len(At(s, S)) = Cardinality(S) /\ Len(At(s, S)) \in Nat
BY FS_CardinalityType DEF At

-----------------------------------------------------------------------------
(* The scheduler. *)

(* The state in which the scheduler's operators make sense. *)
SchedulerOK ==
    /\ attemptBudget \in Nat
    /\ attemptsUsed \in Nat
    /\ pending \in Seq([job : Nat, retry : 0..MaxFlakeRetries])
    /\ wave \in [DOMAIN wave -> Outcome \union {"running", "appending"}]
    /\ DOMAIN wave \subseteq DOMAIN pending

USE WorkersAssumption, RetriesAssumption
USE DEF Outcome

(* The domains of pending and wave are finite sets of positions. *)
LEMMA FiniteDomains ==
    ASSUME SchedulerOK
    PROVE  /\ DOMAIN pending = 1..Len(pending)
           /\ Len(pending) \in Nat
           /\ IsFiniteSet(DOMAIN pending)
           /\ IsFiniteSet(DOMAIN wave)
           /\ Cardinality(DOMAIN wave) \in Nat
<1>1. DOMAIN pending = 1..Len(pending) /\ Len(pending) \in Nat
    BY DEF SchedulerOK
<1>2. IsFiniteSet(DOMAIN pending)
    BY <1>1, FS_Interval
<1>3. IsFiniteSet(DOMAIN wave) /\ Cardinality(DOMAIN wave) \in Nat
    BY <1>2, FS_Subset, FS_CardinalityType DEF SchedulerOK
<1> QED BY <1>1, <1>2, <1>3

(* A wave takes no more than its capacity, from the pending items, and one *)
(* item per individual.                                                    *)
LEMMA SelectedFits ==
    ASSUME SchedulerOK, attemptsUsed < attemptBudget
    PROVE  /\ Selected \subseteq DOMAIN pending
           /\ Cardinality(Selected) <= attemptBudget - attemptsUsed
           /\ \A i, k \in Selected : IndividualAt(i) = IndividualAt(k) => i = k
<1> DEFINE first == {i \in DOMAIN pending : FirstOfItsIndividual(i)}
<1>1. first \in SUBSET Nat /\ IsFiniteSet(first)
    BY FiniteDomains, FS_Subset
<1>2. Capacity \in Nat /\ Capacity <= attemptBudget - attemptsUsed
    BY DEF Capacity, MinOf, SchedulerOK
<1>3. Selected = {i \in first : RankIn(first, i) <= Capacity}
    BY DEF Selected
<1>4. Cardinality(Selected) <= Capacity
    BY <1>1, <1>2, <1>3, FirstCount
<1>5. Cardinality(Selected) \in Nat
    BY <1>1, <1>3, FS_Subset, FS_CardinalityType
<1>6. ASSUME NEW i \in first, NEW k \in first, IndividualAt(i) = IndividualAt(k)
      PROVE  i = k
    <2>1. i \in Nat \ {0} /\ k \in Nat \ {0}
        BY FiniteDomains
    <2>2. ~(i < k)
        BY <2>1, <1>6 DEF FirstOfItsIndividual
    <2>3. ~(k < i)
        BY <2>1, <1>6 DEF FirstOfItsIndividual
    <2> QED BY <2>1, <2>2, <2>3
<1> QED BY <1>2, <1>3, <1>4, <1>5, <1>6, FiniteDomains DEF SchedulerOK

(* The scan takes the foremost items that are the first of their           *)
(* individual, and while the loop goes on it takes at least one.           *)
LEMMA SelectedForemost ==
    ASSUME SchedulerOK, attemptsUsed < attemptBudget
    PROVE  /\ \A k \in Selected : FirstOfItsIndividual(k)
           /\ \A k \in Selected : \A i \in DOMAIN pending :
                 i < k /\ FirstOfItsIndividual(i) => i \in Selected
           /\ pending # <<>> => Selected # {}
<1> DEFINE first == {i \in DOMAIN pending : FirstOfItsIndividual(i)}
<1>1. first \in SUBSET Nat /\ IsFiniteSet(first) /\ Cardinality(first) \in Nat
    BY FiniteDomains, FS_Subset, FS_CardinalityType
<1>2. Capacity \in Nat /\ Capacity >= 1
    BY DEF Capacity, MinOf, SchedulerOK
<1>3. Selected = {i \in first : RankIn(first, i) <= Capacity}
    BY DEF Selected
<1>4. ASSUME NEW k \in Selected, NEW i \in first, i < k
      PROVE  i \in Selected
    <2>1. k \in first /\ RankIn(first, k) <= Capacity
        BY <1>3
    <2>2. RankIn(first, i) < RankIn(first, k)
        BY <1>1, <1>4, <2>1, RankIncreases
    <2>3. RankIn(first, i) \in Nat /\ RankIn(first, k) \in Nat
        BY <1>1, <2>1, RankRange
    <2> QED BY <1>2, <1>3, <2>1, <2>2, <2>3
<1>5. ASSUME pending # <<>>
      PROVE  Selected # {}
    <2>1. 1 \in DOMAIN pending
        BY <1>5 DEF SchedulerOK
    <2>2. 1 \in first
        BY <2>1 DEF FirstOfItsIndividual
    <2>3. {j \in first : j <= 1} = {1}
        BY <2>2, FiniteDomains
    <2>4. RankIn(first, 1) = 1
        BY <2>3, FS_Singleton DEF RankIn
    <2> QED BY <1>2, <1>3, <2>2, <2>4
<1> QED BY <1>3, <1>4, <1>5

(* What is left pending after a wave is again a list of items: flaked      *)
(* items with their retry count raised, but not past the limit, then the   *)
(* items that were not taken.                                              *)
LEMMA PendingAfterWave ==
    ASSUME NEW J, pending \in Seq([job : J, retry : 0..MaxFlakeRetries]),
           DOMAIN wave \subseteq DOMAIN pending
    PROVE  Retries \o Deferred \in Seq([job : J, retry : 0..MaxFlakeRetries])
<1> DEFINE item == [job : J, retry : 0..MaxFlakeRetries]
           again == {i \in DOMAIN wave : wave[i] = "FLAKE" /\ pending[i].retry < MaxFlakeRetries}
           raised == [i \in DOMAIN pending |-> [pending[i] EXCEPT !.retry = @ + 1]]
<1>0. /\ DOMAIN pending = 1..Len(pending) /\ Len(pending) \in Nat
      /\ \A i \in DOMAIN pending : pending[i] \in item
    <2> HIDE DEF item
    <2>1. pending \in Seq(item)
        BY DEF item
    <2> QED BY <2>1, ListElements
<1>1. Deferred \in Seq(item)
    <2> HIDE DEF item
    <2>1. pending \in Seq(item) /\ DOMAIN pending \ DOMAIN wave \in SUBSET (DOMAIN pending)
        BY DEF item
    <2> QED BY <2>1, AtIsList DEF Deferred
<1>2. Retries = At(raised, again)
    BY DEF Retries
<1>3. again \subseteq DOMAIN pending /\ DOMAIN raised = DOMAIN pending
    OBVIOUS
<1>4. raised \in Seq([job : J, retry : Nat])
    <2> DEFINE loose == [job : J, retry : Nat]
    <2>1. \A i \in DOMAIN pending : raised[i] \in loose
        <3> SUFFICES ASSUME NEW i \in DOMAIN pending PROVE raised[i] \in loose
            OBVIOUS
        <3>1. pending[i] \in item
            BY <1>0
        <3>2. pending[i].retry + 1 \in Nat
            BY <3>1
        <3> QED BY <3>1, <3>2
    <2>2. raised = [i \in 1..Len(pending) |-> raised[i]]
        BY <1>0
    <2> HIDE DEF loose, raised
    <2>3. raised \in Seq(loose)
        BY <2>1, <2>2, <1>0, ListOf
    <2> QED BY <2>3 DEF loose
<1>5. \A i \in again : raised[i] \in item
    <2> SUFFICES ASSUME NEW i \in again PROVE raised[i] \in item
        OBVIOUS
    <2>1. pending[i] \in item /\ pending[i].retry < MaxFlakeRetries
        BY <1>0, <1>3
    <2>2. raised[i] = [pending[i] EXCEPT !.retry = @ + 1]
        BY <1>3
    <2>3. pending[i].retry + 1 \in 0..MaxFlakeRetries
        BY <2>1
    <2> QED BY <2>1, <2>2, <2>3
<1>6. At(raised, again) \in Seq(item)
    <2> HIDE DEF raised, again, item
    <2>1. again \in SUBSET (DOMAIN raised)
        BY <1>3
    <2>2. /\ Cardinality(again) \in Nat
          /\ \A n \in 1..Cardinality(again) : Nth(again, n) \in again
        BY <2>1, <1>4, AtIsList
    <2>3. \A n \in 1..Cardinality(again) : raised[Nth(again, n)] \in item
        BY <2>2, <1>5
    <2>4. At(raised, again) = [n \in 1..Cardinality(again) |-> raised[Nth(again, n)]]
        BY DEF At
    <2> QED BY <2>2, <2>3, <2>4
<1> HIDE DEF item
<1>7. Retries \o Deferred \in Seq(item)
    BY <1>1, <1>2, <1>6
<1> QED BY <1>7 DEF item

(* The items of the wave that flaked and may be tried again, and the items *)
(* that were not taken.                                                    *)
Again == {i \in DOMAIN wave : wave[i] = "FLAKE" /\ pending[i].retry < MaxFlakeRetries}
Rest == DOMAIN pending \ DOMAIN wave

(* A flaked item with its retry count raised. *)
Raised(i) == [pending[i] EXCEPT !.retry = @ + 1]

(* Where the items of the next pending list come from: `origin` gives the  *)
(* old position of each.  Every retry and every item left over is there    *)
(* once, the retries come first, and both keep their order.                *)
IsOrigin(origin, list) ==
    /\ origin \in [DOMAIN list -> Again \union Rest]
    /\ \A i \in Again \union Rest : \E n \in DOMAIN list : origin[n] = i
    /\ \A n \in DOMAIN list : list[n] = IF origin[n] \in Again THEN Raised(origin[n]) ELSE pending[origin[n]]
    /\ \A m, n \in DOMAIN list : m < n =>
          \/ origin[m] \in Again /\ origin[n] \in Rest
          \/ (origin[m] \in Again <=> origin[n] \in Again) /\ origin[m] < origin[n]

(* The list after a wave has such an origin. *)
LEMMA OriginOfPending ==
    ASSUME SchedulerOK
    PROVE  /\ DOMAIN (Retries \o Deferred) \subseteq Nat
           /\ \E origin : IsOrigin(origin, Retries \o Deferred)
<1> DEFINE raised == [i \in DOMAIN pending |-> Raised(i)]
           a == Cardinality(Again)
           b == Cardinality(Rest)
           list == Retries \o Deferred
           origin == [n \in 1..(a + b) |-> IF n <= a THEN Nth(Again, n) ELSE Nth(Rest, n - a)]
<1>1. /\ DOMAIN pending = 1..Len(pending) /\ Len(pending) \in Nat
      /\ IsFiniteSet(DOMAIN pending)
    BY FiniteDomains
<1>2. /\ Again \in SUBSET Nat /\ IsFiniteSet(Again)
      /\ Rest \in SUBSET Nat /\ IsFiniteSet(Rest)
      /\ Again \subseteq DOMAIN pending
      /\ Again \cap Rest = {}
    <2>1. Again \subseteq DOMAIN pending /\ Rest \subseteq DOMAIN pending /\ Again \cap Rest = {}
        BY DEF Again, Rest, SchedulerOK
    <2> QED BY <2>1, <1>1, FS_Subset
<1>3. a \in Nat /\ b \in Nat
    BY <1>2, FS_CardinalityType
<1>4. /\ Retries = [n \in 1..a |-> raised[Nth(Again, n)]]
      /\ Deferred = [n \in 1..b |-> pending[Nth(Rest, n)]]
    BY DEF Retries, Deferred, At, Again, Rest, Raised
<1>5. /\ \A n \in 1..a : Nth(Again, n) \in Again
      /\ \A n \in 1..b : Nth(Rest, n) \in Rest
    BY <1>2, NthIn
<1>6. /\ DOMAIN list = 1..(a + b)
      /\ \A n \in 1..a : list[n] = raised[Nth(Again, n)]
      /\ \A n \in (a + 1)..(a + b) : list[n] = pending[Nth(Rest, n - a)]
    <2>1. Retries \in Seq({raised[i] : i \in Again}) /\ Len(Retries) = a
        BY <1>3, <1>4, <1>5
    <2>2. Deferred \in Seq({pending[i] : i \in Rest}) /\ Len(Deferred) = b
        BY <1>3, <1>4, <1>5
    <2> HIDE DEF raised, a, b
    <2> QED BY <1>3, <1>4, <2>1, <2>2
<1> HIDE DEF a, b, list
<1>7. origin \in [DOMAIN list -> Again \union Rest]
    <2> SUFFICES ASSUME NEW n \in 1..(a + b) PROVE origin[n] \in Again \union Rest
        BY <1>6
    <2>1. CASE n <= a
        BY <2>1, <1>3, <1>5
    <2>2. CASE ~(n <= a)
        <3>1. n - a \in 1..b
            BY <2>2, <1>3
        <3> QED BY <2>2, <3>1, <1>5
    <2> QED BY <2>1, <2>2
<1>8. ASSUME NEW i \in Again \union Rest
      PROVE  \E n \in DOMAIN list : origin[n] = i
    <2>1. CASE i \in Again
        <3>1. RankIn(Again, i) \in 1..a /\ Nth(Again, RankIn(Again, i)) = i
            BY <2>1, <1>2, NthOfRank DEF a
        <3>2. RankIn(Again, i) \in 1..(a + b) /\ RankIn(Again, i) <= a
            BY <3>1, <1>3
        <3> QED BY <3>1, <3>2, <1>6
    <2>2. CASE i \in Rest
        <3>1. RankIn(Rest, i) \in 1..b /\ Nth(Rest, RankIn(Rest, i)) = i
            BY <2>2, <1>2, NthOfRank DEF b
        <3> DEFINE n == a + RankIn(Rest, i)
        <3>2. n \in 1..(a + b) /\ ~(n <= a) /\ n - a = RankIn(Rest, i)
            BY <3>1, <1>3
        <3> QED BY <3>1, <3>2, <1>6
    <2> QED BY <2>1, <2>2
<1>9. ASSUME NEW n \in DOMAIN list
      PROVE  list[n] = IF origin[n] \in Again THEN Raised(origin[n]) ELSE pending[origin[n]]
    <2>1. CASE n <= a
        <3>1. n \in 1..a /\ origin[n] = Nth(Again, n) /\ origin[n] \in Again
            BY <2>1, <1>3, <1>5, <1>6
        <3>2. raised[origin[n]] = Raised(origin[n])
            BY <3>1, <1>2
        <3> QED BY <3>1, <3>2, <1>6
    <2>2. CASE ~(n <= a)
        <3>1. n \in (a + 1)..(a + b) /\ n - a \in 1..b /\ origin[n] = Nth(Rest, n - a)
            BY <2>2, <1>3, <1>6
        <3>2. origin[n] \in Rest /\ origin[n] \notin Again
            BY <3>1, <1>5, <1>2
        <3> QED BY <3>1, <3>2, <1>6
    <2> QED BY <2>1, <2>2
<1>10. ASSUME NEW m \in DOMAIN list, NEW n \in DOMAIN list, m < n
       PROVE  \/ origin[m] \in Again /\ origin[n] \in Rest
              \/ (origin[m] \in Again <=> origin[n] \in Again) /\ origin[m] < origin[n]
    <2>1. m \in 1..(a + b) /\ n \in 1..(a + b)
        BY <1>6
    <2>2. CASE n <= a
        <3>1. m \in 1..a /\ n \in 1..a /\ origin[m] = Nth(Again, m) /\ origin[n] = Nth(Again, n)
            BY <2>1, <2>2, <1>3, <1>10
        <3>2. Nth(Again, m) < Nth(Again, n)
            BY <3>1, <1>2, <1>10, NthIncreases DEF a
        <3> QED BY <3>1, <3>2, <1>5
    <2>3. CASE m <= a /\ ~(n <= a)
        <3>1. /\ m \in 1..a /\ n - a \in 1..b
              /\ origin[m] = Nth(Again, m) /\ origin[n] = Nth(Rest, n - a)
            BY <2>1, <2>3, <1>3
        <3> QED BY <3>1, <1>5
    <2>4. CASE ~(m <= a)
        <3>1. /\ m - a \in 1..b /\ n - a \in 1..b /\ m - a < n - a
              /\ origin[m] = Nth(Rest, m - a) /\ origin[n] = Nth(Rest, n - a)
            BY <2>1, <2>4, <1>3, <1>10
        <3>2. Nth(Rest, m - a) < Nth(Rest, n - a)
            BY <3>1, <1>2, NthIncreases DEF b
        <3>3. origin[m] \in Rest /\ origin[n] \in Rest
            BY <3>1, <1>5
        <3> QED BY <3>1, <3>2, <3>3, <1>2
    <2> QED BY <2>2, <2>3, <2>4
<1> HIDE DEF origin
<1>11. IsOrigin(origin, list)
    BY <1>7, <1>8, <1>9, <1>10 DEF IsOrigin
<1>12. DOMAIN list \subseteq Nat
    BY <1>3, <1>6
<1> QED BY <1>11, <1>12 DEF list
=============================================================================
