------------------------------ MODULE Campaign ------------------------------
(***************************************************************************)
(* GeneticGenerator.generate (snippets/geneticAlgorithm/generator.py): the *)
(* whole search.  Discovery evaluates the free slots of the population,    *)
(* breeds a new generation when none is free and gives up on layouts that  *)
(* keep failing; refinement reruns the layouts that would be submitted;    *)
(* what refinement leaves over goes back to discovery; a suite is selected *)
(* at the end.  Every simulation goes through runRetryingBatch, whose      *)
(* steps (RetryingBatch) interleave here with the attempts of its workers. *)
(*                                                                         *)
(* Individuals are objects: `heap` holds their fields and the other        *)
(* variables hold references, the index of an individual in heap.          *)
(***************************************************************************)
EXTENDS RetryingBatch, Scoring

CONSTANTS
    Budget,           \* generate's argument
    PopSize,          \* cfg.popSize
    GatePercent,      \* 100 * cfg.gateShare
    RefinePercent,    \* 100 * cfg.refineFraction
    TopK,             \* cfg.topK
    NReruns,          \* cfg.nReruns
    MaxRetries,       \* cfg.maxRetries
    MaxRunFailures,   \* cfg.maxRunFailures
    ElitePerNiche,    \* cfg.elitePerNiche
    RerunElites,      \* cfg.rerunElites
    Evolve,           \* cfg.evolve
    Isolated,         \* is_isolated_execution(): docker or k8s agent
    Legal,            \* niche -> can a fresh seed be legal, be illegal
    Flights,          \* the flights a simulation may end with: [d, t, goal]
    WallClock,        \* how long a simulation may take
    MinTimeout,       \* cfg.minTimeout
    TimeoutTenths,    \* 10 * cfg.timeoutMul
    RefineThreshold   \* cfg.refineThreshold, in centimetres

Niche == {1, 2}

ASSUME BudgetAssumption == Budget \in Nat \ {0}
ASSUME PopAssumption == PopSize \in Nat \ {0} /\ GatePercent \in 0..100
ASSUME RefineAssumption == RefinePercent \in 0..100 /\ NReruns \in Nat
ASSUME LimitsAssumption ==
    /\ TopK \in Nat \ {0}
    /\ MaxRetries \in Nat
    /\ MaxRunFailures \in Nat \ {0}
    /\ ElitePerNiche \in Nat
ASSUME SwitchesAssumption == {RerunElites, Evolve, Isolated} \subseteq BOOLEAN
(* generate falls back to one worker when the agent is not isolated. *)
ASSUME LocalIsSequential == Isolated \/ ParallelWorkers = 1
ASSUME LegalAssumption == Legal \in [Niche -> {{TRUE}, {FALSE}, BOOLEAN}]
ASSUME SimulatorAssumption ==
    /\ Flights \subseteq [d : Nat, t : Nat \ {0}, goal : BOOLEAN]
    /\ WallClock \subseteq Nat
    /\ MinTimeout \in Nat \ {0}
    /\ {TimeoutTenths, RefineThreshold} \subseteq Nat

-----------------------------------------------------------------------------
(* Sizes and budgets, fixed when generate starts. *)

(* Python's round(n / d): ties go to the even neighbour. *)
RoundHalfEven(n, d) ==
    LET q == n \div d
        r == 2 * (n % d)
    IN  IF r > d \/ (r = d /\ q % 2 = 1) THEN q + 1 ELSE q

(* round(math.sqrt(n)): how many k have k - 1/2 <= sqrt(n).  4 * n is never  *)
(* an odd square, so there are no ties.                                     *)
RoundedRoot(n) == Cardinality({k \in 1..n : (2 * k - 1) * (2 * k - 1) <= 4 * n})

(* A budget below popSize shrinks the population. *)
PopulationSize == IF Budget < PopSize THEN MaxOf(2, RoundedRoot(Budget)) ELSE PopSize

Slot == 1..PopulationSize

(* obstacleCountSchedule: the niche of every slot, gates spread evenly. *)
Counts ==
    LET gates == RoundHalfEven(PopulationSize * GatePercent, 100)
    IN  [k \in Slot |->
            IF (k * gates) \div PopulationSize > ((k - 1) * gates) \div PopulationSize THEN 2 ELSE 1]

Phase1Budget == MinOf(Budget, MaxOf(PopulationSize, ((100 - RefinePercent) * Budget) \div 100))
Phase2Budget == Budget - Phase1Budget

NoProgressLimit == MaxOf(3, MaxRetries)

-----------------------------------------------------------------------------
VARIABLES
    heap,                \* the individuals created so far
    pop,                 \* slot -> individual
    evaluated,           \* the individuals measured so far, in order
    pc,                  \* where generate is
    phase,               \* 1: first runDiscovery, 2: the returned budget
    discoveryBudget,     \* runDiscovery's argument
    discoveryUsed,       \* runDiscovery's attemptsUsed
    noProgressRounds,
    candidates,          \* the slots evaluated in this round
    killAfter,
    maxGoodDuration,
    promising,
    discoveryAttempts,
    refinementAttempts,
    suite,               \* the individuals whose test cases are returned
    simulations,         \* history: simulator runs finished
    slowestGood,         \* history: the slowest run that reached the goal
    carried              \* history: the elites the last generation kept

searchVars == <<pop, evaluated, phase, discoveryBudget, discoveryUsed, noProgressRounds,
                candidates, killAfter, maxGoodDuration, promising, discoveryAttempts,
                refinementAttempts, suite, carried>>
vars == <<batchVars, searchVars, heap, pc, simulations, slowestGood>>

-----------------------------------------------------------------------------
(* Individuals. *)

(* A new Individual; an illegal one marks a slot nothing legal was found for. *)
NewIndividual(niche, legal) ==
    [niche    |-> niche,
     fits     |-> legal,                       \* ~invalidLayout(obstacles)
     illegal  |-> ~legal,
     valid    |-> FALSE,
     stuck    |-> FALSE,
     attempts |-> 0,
     duration |-> 0,
     runs     |-> <<>>,                        \* distances, flightDurations
     score    |-> [n |-> 0, stuck |-> FALSE]]  \* the runs the scores are of

(* The runs behind the stored officialScore and fitness. *)
ScoredRuns(x) == SubSeq(x.runs, 1, x.score.n)

(* rescore: both scores from all of the runs. *)
Rescored(x) == [x EXCEPT !.score = [n |-> Len(x.runs), stuck |-> x.stuck]]

OfficialScore(x) == officialTestScore(ScoredRuns(x), x.niche)

(* Mutant: the minus sign is lost. *)
FitnessNotNegated(x) ==
    IF x.score.n = 0 THEN Infinity ELSE searchTestScore(ScoredRuns(x), x.niche, x.score.stuck)

(* ind.fitness, the negated search score; inf until a run is scored. *)
Fitness(x) ==
    LET s == searchTestScore(ScoredRuns(x), x.niche, x.score.stuck)
    IN  IF x.score.n = 0 THEN Infinity ELSE <<0 - s[1], s[2]>>

searchSelectionKey(x) == <<Fitness(x), <<x.niche, 1>>, MeanDistance(x.runs), MeanDuration(x.runs)>>

officialRank(x) == <<<<0 - OfficialScore(x)[1], OfficialScore(x)[2]>>, MeanDistance(x.runs)>>

(* The slots whose layout still has to be evaluated. *)
FreeSlots == {k \in Slot : ~heap[pop[k]].valid /\ ~heap[pop[k]].illegal}

(* What pop becomes when the slots in S get new individuals, in slot order. *)
WithFresh(p, S) == [k \in Slot |-> IF k \in S THEN Len(heap) + RankIn(S, k) ELSE p[k]]

(* The new individuals of the slots in S, each of its niche and legal or not. *)
Fresh(S, niche, legal) ==
    [n \in 1..Cardinality(S) |-> NewIndividual(niche[Nth(S, n)], legal[Nth(S, n)])]

(* freshIndividual: a seed is legal unless every one of its draws fails. *)
FreshChoices(S, niche) == {f \in [S -> BOOLEAN] : \A k \in S : f[k] \in Legal[niche[k]]}

-----------------------------------------------------------------------------
Init ==
    /\ pop = [k \in Slot |-> k]
    /\ \E legal \in FreshChoices(Slot, Counts) : heap = Fresh(Slot, Counts, legal)
    /\ evaluated = <<>>
    /\ pc = "round"
    /\ phase = 1
    /\ discoveryBudget = Phase1Budget
    /\ discoveryUsed = 0
    /\ noProgressRounds = 0
    /\ candidates = {}
    /\ killAfter = 0
    /\ maxGoodDuration = 0
    /\ promising = <<>>
    /\ discoveryAttempts = 0
    /\ refinementAttempts = 0
    /\ suite = <<>>
    /\ simulations = 0
    /\ slowestGood = 0
    /\ carried = {}
    /\ jobs = <<>> /\ attemptBudget = 0 /\ pending = <<>> /\ wave = <<>>
    /\ attemptsUsed = 0 /\ bpc = "idle"

-----------------------------------------------------------------------------
(* One simulator attempt, and what it does to its individual. *)

(* An exception on the way: no flight to measure. *)
Crash == [failed |-> TRUE]

(* The watchdog is armed for local runs only. *)
Killed(w) == ~Isolated /\ w >= killAfter

(* isFlakeRun: missed the goal, never within 5 m of an obstacle. *)
IsFlake(flight) == ~flight.goal /\ flight.d > 500

(* What an attempt writes to its individual. *)
Timed(x, w)     == [x EXCEPT !.duration = w]
Tried(x, w)     == [Timed(x, w) EXCEPT !.attempts = @ + 1]
Unmeasured(x)   == [x EXCEPT !.valid = FALSE, !.score.n = 0]
Unusable(x)     == [Unmeasured(x) EXCEPT !.illegal = TRUE]
MarkedStuck(x)  == [x EXCEPT !.stuck = TRUE]
WithRun(x, run) == [x EXCEPT !.runs = Append(@, run)]
Flown(x, run)   == IF run.goal THEN WithRun(x, run) ELSE MarkedStuck(WithRun(x, run))
Measured(x)     == [Rescored(x) EXCEPT !.valid = TRUE]

Result(outcome, x) == [outcome |-> outcome, ind |-> x]

(* evaluate: the outcome and the individual after it. *)
EvaluateResult(x, run, w) ==
    CASE ~x.fits                                   -> Result("SKIPPED", Unusable(x))
      [] x.fits /\ Killed(w)                       -> Result("CONSUMED", MarkedStuck(Unmeasured(Tried(x, w))))
      [] x.fits /\ ~Killed(w) /\ run = Crash       -> Result("CONSUMED", Unmeasured(Tried(x, w)))
      [] x.fits /\ ~Killed(w) /\ run # Crash       ->
            IF IsFlake(run)
            THEN Result("FLAKE", Tried(x, w))
            ELSE Result("CONSUMED", Measured(Flown(Tried(x, w), run)))

(* The record of a failed rerun: the sentinel and the watchdog's ceiling. *)
FAIL_SENTINEL == 500
FailSentinel == [d |-> FAIL_SENTINEL, t |-> MaxOf(killAfter, 1), goal |-> FALSE]

(* rerun: every outcome but a flake adds a run; the scores are left alone. *)
RerunResult(x, run, w) ==
    CASE Killed(w)                  -> Result("CONSUMED", MarkedStuck(WithRun(Timed(x, w), FailSentinel)))
      [] ~Killed(w) /\ run = Crash  -> Result("CONSUMED", WithRun(Timed(x, w), FailSentinel))
      [] ~Killed(w) /\ run # Crash  ->
            IF IsFlake(run)
            THEN Result("FLAKE", Timed(x, w))
            ELSE Result("CONSUMED", Flown(Timed(x, w), run))

(* A worker's operation returns. *)
Attempt(i, result, run, w) ==
    /\ Settle(i, result.outcome)
    /\ heap' = [heap EXCEPT ![IndividualAt(i)] = result.ind]
    /\ simulations' = simulations + (IF result.outcome = "SKIPPED" THEN 0 ELSE 1)
    /\ slowestGood' = IF run # Crash /\ ~Killed(w) /\ run.goal THEN MaxOf(slowestGood, w) ELSE slowestGood
    /\ UNCHANGED <<searchVars, pc>>

Evaluate ==
    /\ pc = "evaluate"
    /\ \E i \in DOMAIN wave, run \in Flights \union {Crash}, w \in WallClock :
          Attempt(i, EvaluateResult(heap[IndividualAt(i)], run, w), run, w)

Rerun ==
    /\ pc \in {"elites", "refine"}
    /\ \E i \in DOMAIN wave, run \in Flights \union {Crash}, w \in WallClock :
          Attempt(i, RerunResult(heap[IndividualAt(i)], run, w), run, w)

(* The scheduler's own steps, in whichever batch is running. *)
StartBatchWave == StartWave /\ UNCHANGED <<searchVars, heap, pc, simulations, slowestGood>>
EndBatchWave   == EndWave   /\ UNCHANGED <<searchVars, heap, pc, simulations, slowestGood>>

-----------------------------------------------------------------------------
(* Breeding: nextGeneration. *)

NicheSlots(niche) == {k \in Slot : Counts[k] = niche}

(* The slots whose individual is of the niche. *)
PoolOf(niche) == {k \in Slot : heap[pop[k]].niche = niche}

(* One slot of a niche is always left to explore with. *)
EliteCount(niche) ==
    MinOf(MinOf(ElitePerNiche, Cardinality(PoolOf(niche))), MaxOf(0, Cardinality(NicheSlots(niche)) - 1))

(* The stable sort of a pool by searchSelectionKey. *)
SortsBefore(j, k) ==
    LET p == searchSelectionKey(heap[pop[j]])
        q == searchSelectionKey(heap[pop[k]])
    IN  KeyBelow(p, q) \/ (~KeyBelow(q, p) /\ j < k)

Elite(niche, n) ==
    CHOOSE k \in PoolOf(niche) : Cardinality({j \in PoolOf(niche) : SortsBefore(j, k)}) = n - 1

(* The slots of the next generation that elites take: the first of their niche. *)
EliteSlots ==
    {k \in Slot : Evolve /\ RankIn(NicheSlots(Counts[k]), k) <= EliteCount(Counts[k])}

EliteFor(k) == pop[Elite(Counts[k], RankIn(NicheSlots(Counts[k]), k))]

(* The pool tournament draws parents from, one niche at a time. *)
Parents(niche) == {k \in PoolOf(niche) : ~heap[pop[k]].illegal}

(* nicheChild: a legal child of parents in the niche, or a fresh seed. *)
ChildChoices(S) ==
    {f \in [S -> BOOLEAN] : \A k \in S :
        \/ f[k] \in Legal[Counts[k]]
        \/ f[k] /\ Evolve /\ Parents(Counts[k]) # {}}

(* runDiscovery's loop test. *)
Discovering ==
    /\ discoveryUsed < discoveryBudget
    /\ noProgressRounds < NoProgressLimit

(* No slot is free: the next generation. *)
Breed ==
    /\ pc = "round" /\ Discovering
    /\ FreeSlots = {}
    /\ \E legal \in ChildChoices(Slot \ EliteSlots) :
          heap' = heap \o Fresh(Slot \ EliteSlots, Counts, legal)
    /\ pop' = WithFresh([k \in Slot |-> IF k \in EliteSlots THEN EliteFor(k) ELSE pop[k]], Slot \ EliteSlots)
    /\ carried' = {EliteFor(k) : k \in EliteSlots}
    /\ pc' = "launch"
    /\ UNCHANGED <<batchVars, evaluated, phase, discoveryBudget, discoveryUsed, noProgressRounds,
                   candidates, killAfter, maxGoodDuration, promising, discoveryAttempts,
                   refinementAttempts, suite, simulations, slowestGood>>

-----------------------------------------------------------------------------
(* Discovery: runDiscovery. *)

(* `slots[:n]` of an ascending list of slots. *)
FirstSlots(S, n) == {k \in S : RankIn(S, k) <= n}

CurrentKillAfter == MaxOf(MinTimeout, (TimeoutTenths * maxGoodDuration) \div 10)

(* `elites`: the valid members of pop, when confirmation is switched on. *)
ValidSlots == {k \in Slot : RerunElites /\ heap[pop[k]].valid}

(* Fix the round's candidates and start its first batch. *)
Launch ==
    /\ \/ pc = "launch"
       \/ pc = "round" /\ Discovering /\ FreeSlots # {}
    /\ LET remaining == discoveryBudget - discoveryUsed
       IN  /\ candidates' = FirstSlots(FreeSlots, remaining)
           /\ IF ValidSlots # {} /\ remaining > Cardinality(ValidSlots)
              THEN /\ Call(At(pop, ValidSlots), Cardinality(ValidSlots))
                   /\ pc' = "elites"
              ELSE /\ Call(At(pop, candidates'), remaining)
                   /\ pc' = "evaluate"
    /\ killAfter' = CurrentKillAfter
    /\ UNCHANGED <<heap, pop, evaluated, phase, discoveryBudget, discoveryUsed, noProgressRounds,
                   maxGoodDuration, promising, discoveryAttempts, refinementAttempts, suite,
                   simulations, slowestGood, carried>>

(* attemptsUsed of runDiscovery after a batch. *)
Charged == discoveryUsed + attemptsUsed

(* The elite batch is back: charge it, rescore, evaluate what still fits. *)
ElitesConfirmed ==
    /\ pc = "elites"
    /\ Returning
    /\ discoveryUsed' = Charged
    /\ heap' = [x \in DOMAIN heap |-> IF x \in Range(jobs) THEN Rescored(heap[x]) ELSE heap[x]]
    /\ LET remaining == discoveryBudget - discoveryUsed'
       IN  /\ candidates' = FirstSlots(candidates, remaining)
           /\ Call(At(pop, candidates'), remaining)
    /\ pc' = "evaluate"
    /\ UNCHANGED <<pop, evaluated, phase, discoveryBudget, noProgressRounds, killAfter,
                   maxGoodDuration, promising, discoveryAttempts, refinementAttempts, suite,
                   simulations, slowestGood, carried>>

(* Mutant: stuck layouts are left out. *)
NewlyValidNotStuck ==
    {k \in candidates : heap[pop[k]].valid /\ ~heap[pop[k]].stuck /\ pop[k] \notin Range(evaluated)}

(* The candidates that turned valid in this round. *)
NewlyValid == {k \in candidates : heap[pop[k]].valid /\ pop[k] \notin Range(evaluated)}

(* Mutant: one attempt more. *)
GivenUpLate ==
    {k \in candidates : LET x == heap[pop[k]]
                        IN  ~x.valid /\ ~x.illegal /\ x.attempts > MaxRunFailures}

(* The candidates that are given up on: too many attempts without a result. *)
GivenUp ==
    {k \in candidates : LET x == heap[pop[k]]
                        IN  ~x.valid /\ ~x.illegal /\ x.attempts >= MaxRunFailures}

(* Mutant: a slot is always reseeded with a single wall. *)
SingleWalls == [k \in Slot |-> 1]

(* A given-up slot is reseeded with nicheOf its old individual. *)
NicheOfSlot == [k \in Slot |-> heap[pop[k]].niche]

(* Largest of a set of numbers, at least low. *)
MaxOver(S, low) == CHOOSE m \in S \union {low} : \A n \in S \union {low} : n <= m

(* The durations that may feed the watchdog's threshold in this round. *)
GoodDurations == {heap[pop[k]].duration : k \in {j \in NewlyValid : ~heap[pop[j]].stuck}}

(* Mutant: only this round counts. *)
SlowestOfRound == MaxOver(GoodDurations, 0)

SlowestGoodSoFar == MaxOver(GoodDurations, maxGoodDuration)

(* The evaluate batch is back: account for the round. *)
RoundDone ==
    /\ pc = "evaluate"
    /\ Returning
    /\ discoveryUsed' = Charged
    /\ evaluated' = evaluated \o At(pop, NewlyValid)
    /\ maxGoodDuration' = SlowestGoodSoFar
    /\ \E legal \in FreshChoices(GivenUp, NicheOfSlot) :
          heap' = heap \o Fresh(GivenUp, NicheOfSlot, legal)
    /\ pop' = WithFresh(pop, GivenUp)
    /\ noProgressRounds' = IF attemptsUsed = 0 THEN noProgressRounds + 1 ELSE 0
    /\ pc' = "round"
    /\ bpc' = "idle"
    /\ UNCHANGED <<jobs, attemptBudget, pending, wave, attemptsUsed, phase, discoveryBudget,
                   candidates, killAfter, promising, discoveryAttempts, refinementAttempts,
                   suite, simulations, slowestGood, carried>>

-----------------------------------------------------------------------------
(* Selection and refinement. *)

(* Mutant: stuck layouts may be submitted. *)
EligibleStuckToo ==
    {n \in DOMAIN evaluated : LET x == heap[evaluated[n]]
                              IN  x.valid /\ OfficialScore(x)[1] > 0}

(* What selectSuite considers: valid, never stuck, with a positive score. *)
Eligible ==
    {n \in DOMAIN evaluated : LET x == heap[evaluated[n]]
                              IN  x.valid /\ ~x.stuck /\ OfficialScore(x)[1] > 0}

RanksBefore(m, n) ==
    LET p == officialRank(heap[evaluated[m]])
        q == officialRank(heap[evaluated[n]])
    IN  KeyBelow(p, q) \/ (~KeyBelow(q, p) /\ m < n)

(* The individuals at the positions S of evaluated, best first. *)
BestFirst(S) ==
    [r \in 1..Cardinality(S) |->
        evaluated[CHOOSE n \in S : Cardinality({m \in S : RanksBefore(m, n)}) = r - 1]]

(* selectSuite: the best one (or the best gate, with keepBestGate) and up  *)
(* to topK - 1 others whose flights differ enough; which ones do is left   *)
(* open here and modelled in Suite.                                        *)
Suites ==
    LET eligible == Eligible
    IN  {BestFirst(S) : S \in {T \in SUBSET eligible :
            /\ Cardinality(T) <= TopK
            /\ eligible # {} => T # {}}}

(* The provisional tests whose first run came close enough. *)
PromisingIn(s) == At(s, {n \in DOMAIN s : heap[s[n]].runs # <<>> /\ heap[s[n]].runs[1].d < RefineThreshold})

(* Round-robin over the rerun indices, cut off at the refinement budget. *)
RerunJobs(s) ==
    LET due(r) == {n \in DOMAIN s : Len(heap[s[n]].runs) - 1 <= r}
        rounds[r \in 0..NReruns] == IF r = 0 THEN <<>> ELSE rounds[r - 1] \o At(s, due(r - 1))
    IN  Prefix(rounds[NReruns], Phase2Budget)

(* Mutant: `=` where the code has `+=`. *)
DiscoveryTotalNotAdded == discoveryUsed

(* discoveryAttempts after a call of runDiscovery. *)
DiscoveryTotal == discoveryAttempts + discoveryUsed

(* The first runDiscovery returns; refinement starts. *)
StartRefinement ==
    /\ pc = "round" /\ ~Discovering /\ phase = 1
    /\ discoveryAttempts' = DiscoveryTotal
    /\ \E s \in Suites : promising' = PromisingIn(s)
    /\ Call(RerunJobs(promising'), Phase2Budget)
    /\ killAfter' = CurrentKillAfter
    /\ pc' = "refine"
    /\ UNCHANGED <<heap, pop, evaluated, phase, discoveryBudget, discoveryUsed, noProgressRounds,
                   candidates, maxGoodDuration, refinementAttempts, suite, simulations,
                   slowestGood, carried>>

(* Mutant: a layout with a single rerun keeps its old score. *)
RefinedTwice(x) == x \in Range(promising) /\ Len(heap[x].runs) > 2

(* The layouts rescored after refinement. *)
Refined(x) == x \in Range(promising) /\ Len(heap[x].runs) > 1

(* Mutant: discovery is taken to have used all of its budget. *)
UnspentByRefinement == Phase2Budget - attemptsUsed

(* What refinement returns to discovery. *)
Unspent == Budget - (discoveryAttempts + attemptsUsed)

(* The reruns are back: rescore, then discover with what is left, if any. *)
RefinementDone ==
    /\ pc = "refine"
    /\ Returning
    /\ refinementAttempts' = attemptsUsed
    /\ heap' = [x \in DOMAIN heap |-> IF Refined(x) THEN Rescored(heap[x]) ELSE heap[x]]
    /\ IF Unspent > 0
       THEN /\ phase' = 2
            /\ discoveryBudget' = Unspent
            /\ discoveryUsed' = 0
            /\ noProgressRounds' = 0
            /\ pc' = "round"
       ELSE /\ pc' = "select"
            /\ UNCHANGED <<phase, discoveryBudget, discoveryUsed, noProgressRounds>>
    /\ bpc' = "idle"
    /\ UNCHANGED <<jobs, attemptBudget, pending, wave, attemptsUsed, pop, evaluated, candidates,
                   killAfter, maxGoodDuration, promising, discoveryAttempts, suite, simulations,
                   slowestGood, carried>>

(* The second runDiscovery returns. *)
ReturnedBudgetDone ==
    /\ pc = "round" /\ ~Discovering /\ phase = 2
    /\ discoveryAttempts' = DiscoveryTotal
    /\ pc' = "select"
    /\ UNCHANGED <<batchVars, heap, pop, evaluated, phase, discoveryBudget, discoveryUsed,
                   noProgressRounds, candidates, killAfter, maxGoodDuration, promising,
                   refinementAttempts, suite, simulations, slowestGood, carried>>

(* The final selection; generate returns. *)
Select ==
    /\ pc = "select"
    /\ suite' \in Suites
    /\ pc' = "done"
    /\ UNCHANGED <<batchVars, heap, pop, evaluated, phase, discoveryBudget, discoveryUsed,
                   noProgressRounds, candidates, killAfter, maxGoodDuration, promising,
                   discoveryAttempts, refinementAttempts, simulations, slowestGood, carried>>

-----------------------------------------------------------------------------
Next ==
    \/ Breed
    \/ Launch
    \/ StartBatchWave
    \/ Evaluate
    \/ Rerun
    \/ EndBatchWave
    \/ ElitesConfirmed
    \/ RoundDone
    \/ StartRefinement
    \/ RefinementDone
    \/ ReturnedBudgetDone
    \/ Select

(* generate is one thread that runs on, and every simulation ends. *)
Spec == Init /\ [][Next]_vars /\ WF_vars(Next)

-----------------------------------------------------------------------------
(***************************************************************************)
(* Properties.                                                             *)
(***************************************************************************)
Run == [d : Nat, t : Nat \ {0}, goal : BOOLEAN]

IndividualRecord ==
    [niche : Niche, fits : BOOLEAN, illegal : BOOLEAN, valid : BOOLEAN, stuck : BOOLEAN,
     attempts : Nat, duration : Nat, runs : Seq(Run), score : [n : Nat, stuck : BOOLEAN]]

(* Types of the search's state. *)
TypeOK ==
    /\ heap \in Seq(IndividualRecord)
    /\ pop \in [Slot -> DOMAIN heap]
    /\ evaluated \in Seq(DOMAIN heap)
    /\ pc \in {"round", "launch", "elites", "evaluate", "refine", "select", "done"}
    /\ phase \in {1, 2}
    /\ {discoveryBudget, discoveryUsed, noProgressRounds, killAfter, maxGoodDuration,
        discoveryAttempts, refinementAttempts, simulations, slowestGood} \subseteq Nat
    /\ candidates \subseteq Slot
    /\ promising \in Seq(DOMAIN heap)
    /\ suite \in Seq(DOMAIN heap)
    /\ carried \subseteq DOMAIN heap
    /\ jobs \in Seq(DOMAIN heap)

(* "The same global ledger keeps total attempts <= budget": the simulations *)
(* finished and in flight never pass generate's budget, over both discovery *)
(* phases, elite confirmation, refinement and every flake retry.            *)
InFlight == {i \in DOMAIN wave : wave[i] = "running"}
BudgetKept == simulations + Cardinality(InFlight) <= Budget

(* When the suite is selected the ledger is exact: the attempts the log     *)
(* reports are the simulations that were run.                               *)
LedgerExact == pc \in {"select", "done"} => discoveryAttempts + refinementAttempts = simulations

(* Budget is left unspent only when discovery gave up after                 *)
(* noProgressLimit rounds in which nothing legal could be run.              *)
BudgetUsedUp == pc = "done" /\ simulations < Budget => noProgressRounds >= NoProgressLimit

(* The niche protection: through breeding, elites and reseeding every slot  *)
(* keeps the obstacle count obstacleCountSchedule gave it.                  *)
NicheQuota == \A k \in Slot : heap[pop[k]].niche = Counts[k]

(* No layout eats the budget: an individual is attempted at most            *)
(* maxRunFailures + maxFlakeRetries times, however its attempts mix         *)
(* flakes, failures and batches cut short by their budget; and without      *)
(* elite confirmation it is measured at most 1 + nReruns times, the number  *)
(* of executions the official score averages.                               *)
EffortBounded ==
    \A x \in DOMAIN heap :
        /\ heap[x].attempts <= MaxRunFailures + MaxFlakeRetries
        /\ ~RerunElites => Len(heap[x].runs) <= 1 + NReruns

(* No measured layout is lost: between rounds the layouts with a valid      *)
(* measurement are the evaluated ones, each listed once.                    *)
MeasuredAreEvaluated ==
    pc \in {"round", "select"} =>
        /\ {x \in DOMAIN heap : heap[x].valid} = Range(evaluated)
        /\ IsInjective(evaluated)

(* The scores that selection and breeding read are never stale: they cover  *)
(* all runs of the layout and its current stuck flag.                       *)
ScoresFresh ==
    pc \in {"round", "launch", "select"} =>
        \A x \in Range(evaluated) :
            heap[x].score = [n |-> Len(heap[x].runs), stuck |-> heap[x].stuck]

(* A submitted test flew to the goal in every run that was measured, and    *)
(* all of its runs together score points; no test is submitted twice.       *)
SuiteSound ==
    /\ Len(suite) <= TopK
    /\ IsInjective(suite)
    /\ \A n \in DOMAIN suite :
          LET x == heap[suite[n]]
          IN  /\ \A r \in DOMAIN x.runs : x.runs[r].goal \/ x.runs[r].d = FAIL_SENTINEL
              /\ \E r \in DOMAIN x.runs : tierPoints(x.runs[r].d) > 0

(* The watchdog never kills a run that is no slower than one which reached  *)
(* the goal before, whichever batch that run was in.                        *)
GoodPaceSurvives == ~Isolated /\ bpc = "wave" => slowestGood < killAfter

(* Elitism per niche: breeding keeps a layout that no other of its niche    *)
(* outscores on all of its runs, in every niche of two slots or more, even  *)
(* when the other niche scores higher.                                      *)
SearchScore(x) == searchTestScore(x.runs, x.niche, x.stuck)
BestSurvives ==
    [][pc = "round" /\ pc' = "launch" /\ Evolve /\ ElitePerNiche > 0 => \A niche \in Niche :
          Cardinality(NicheSlots(niche)) >= 2 =>
              \E k \in PoolOf(niche) :
                  /\ pop[k] \in Range(pop')
                  /\ \A j \in PoolOf(niche) :
                        ~Below(SearchScore(heap[pop[k]]), SearchScore(heap[pop[j]]))]_vars

(* generate returns, also when a niche or the whole mission has no legal    *)
(* layout at all.                                                           *)
Terminates == <>(pc = "done")

-----------------------------------------------------------------------------
(***************************************************************************)
(* Claims of the repository that the code does not keep.                   *)
(***************************************************************************)

(* GAConfig.rerunElites: "Give each niche's elite one more run at the start *)
(* of every generation"; the tests: elite confirmation spends its runs "on  *)
(* the elites and on nothing else".                                         *)
OnlyElitesConfirmed == pc = "elites" => Range(jobs) \subseteq carried

(* GAConfig.goalTol: "drone is "stuck" if its final trajectory point is     *)
(* farther than goalTol from the last mission waypoint".                    *)
StuckMissedTheGoal ==
    \A x \in DOMAIN heap : heap[x].valid /\ heap[x].stuck =>
        \E r \in DOMAIN heap[x].runs : ~heap[x].runs[r].goal

(* GAConfig.timeoutMul: the watchdog's limit is "timeoutMul * (slowest      *)
(* reached-goal run so far)".                                               *)
ThresholdTracksSlowestGood == pc = "round" => maxGoodDuration = slowestGood

(* generate: "Round-robin ordering gives every provisional result a second  *)
(* run before any result gets a third."                                     *)
SecondRunBeforeThird ==
    pc = "refine" => \A x, y \in Range(promising) :
        Len(heap[x].runs) >= 3 => Len(heap[y].runs) >= 2
=============================================================================
