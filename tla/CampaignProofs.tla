--------------------------- MODULE CampaignProofs ---------------------------
(***************************************************************************)
(* The safety properties of generate, for every budget, population, number *)
(* of workers and retry limit, with or without elite confirmation, whatever*)
(* the simulator answers: the budget, the niches and the elites of the     *)
(* population, the kill limit, the results and their scores, the suite     *)
(* that is returned, and the effort spent on one layout.                   *)
(***************************************************************************)
EXTENDS Campaign, RetryingBatchProofs, OperatorProofs

(* The attempts of the wave in flight that are over. *)
Finished == {i \in DOMAIN wave : wave[i] \in {"FLAKE", "CONSUMED"}}

(* The scheduler's part: its state is sound and within its own budget. *)
SchedulerInv ==
    /\ SchedulerOK
    /\ bpc # "wave" => wave = <<>>
    /\ attemptsUsed + Cardinality(DOMAIN wave) <= attemptBudget

(* The state of generate's ledger, without what each place in it means. *)
BooksOK ==
    /\ pc \in {"round", "launch", "elites", "evaluate", "refine", "select", "done"}
    /\ discoveryAttempts \in Nat
    /\ refinementAttempts \in Nat
    /\ discoveryBudget \in Nat
    /\ discoveryUsed \in Nat
    /\ simulations \in Nat
    /\ discoveryUsed <= discoveryBudget
    /\ candidates \subseteq Slot

InDiscovery == pc \in {"round", "launch", "elites", "evaluate"}

(* A discovery call may use what the earlier calls left of the budget, and *)
(* the first one only its phase's share.                                   *)
ShareInv ==
    InDiscovery =>
        /\ discoveryAttempts + refinementAttempts + discoveryBudget <= Budget
        /\ phase = 1 => discoveryAttempts = 0 /\ refinementAttempts = 0 /\ discoveryBudget = Phase1Budget

(* Outside the batches the ledger is the number of simulations; inside one *)
(* the batch's own ledger and finished attempts come on top.               *)
RestInv ==
    pc \in {"round", "launch"} =>
        bpc = "idle" /\ simulations = discoveryAttempts + refinementAttempts + discoveryUsed
BatchInv ==
    pc \in {"elites", "evaluate"} =>
        /\ attemptBudget <= discoveryBudget - discoveryUsed
        /\ simulations = discoveryAttempts + refinementAttempts + discoveryUsed
                         + attemptsUsed + Cardinality(Finished)
RefineInv ==
    pc = "refine" =>
        /\ discoveryAttempts <= Phase1Budget
        /\ refinementAttempts = 0
        /\ attemptBudget = Phase2Budget
        /\ simulations = discoveryAttempts + attemptsUsed + Cardinality(Finished)
EndInv ==
    pc \in {"select", "done"} =>
        /\ bpc = "idle"
        /\ simulations = discoveryAttempts + refinementAttempts
        /\ simulations <= Budget

(* The inductive invariant. *)
BudgetInv == SchedulerInv /\ BooksOK /\ ShareInv /\ RestInv /\ BatchInv /\ RefineInv /\ EndInv

USE BudgetAssumption, PopAssumption, RefineAssumption, WorkersAssumption, RetriesAssumption
USE DEF Outcome

-----------------------------------------------------------------------------
(* The population's size and the two phases' budgets. *)
LEMMA Sizes ==
    /\ PopulationSize \in Nat
    /\ Phase1Budget \in Nat
    /\ Phase2Budget \in Nat
    /\ Phase1Budget + Phase2Budget = Budget
    /\ IsFiniteSet(Slot)
    /\ Slot \subseteq Nat
<1>1. RoundedRoot(Budget) \in Nat
    <2> DEFINE below == {k \in 1..Budget : (2 * k - 1) * (2 * k - 1) <= 4 * Budget}
    <2>1. IsFiniteSet(1..Budget) /\ below \subseteq 1..Budget
        BY FS_Interval
    <2> HIDE DEF below
    <2>2. Cardinality(below) \in Nat
        BY <2>1, FS_Subset, FS_CardinalityType
    <2> QED BY <2>2 DEF RoundedRoot, below
<1>2. PopulationSize \in Nat
    BY <1>1 DEF PopulationSize, MaxOf
<1>3. (100 - RefinePercent) * Budget \in Nat
    OBVIOUS
<1>4. ((100 - RefinePercent) * Budget) \div 100 \in Nat
    BY <1>3
<1>5. Phase1Budget \in Nat /\ Phase1Budget <= Budget
    BY <1>2, <1>4 DEF Phase1Budget, MinOf, MaxOf
<1>6. IsFiniteSet(Slot) /\ Slot \subseteq Nat
    BY <1>2, FS_Interval DEF Slot
<1> QED BY <1>2, <1>5, <1>6 DEF Phase2Budget

(* Every set of slots is finite. *)
LEMMA SlotSets ==
    ASSUME NEW S \in SUBSET Slot
    PROVE  IsFiniteSet(S) /\ Cardinality(S) \in Nat
BY Sizes, FS_Subset, FS_CardinalityType

(* A call with any list and a budget leaves the scheduler in a sound state. *)
LEMMA CallSound ==
    ASSUME NEW js, Len(js) \in Nat, NEW b \in Nat, Call(js, b)
    PROVE  /\ SchedulerInv'
           /\ attemptsUsed' = 0
           /\ attemptBudget' = b
           /\ Finished' = {}
           /\ bpc' = "loop"
<1> DEFINE item == [job : Nat, retry : 0..MaxFlakeRetries]
<1>1. /\ pending' = [j \in 1..Len(js) |-> [job |-> j, retry |-> 0]]
      /\ wave' = <<>> /\ attemptsUsed' = 0 /\ attemptBudget' = b /\ bpc' = "loop"
    BY DEF Call
<1>2. \A j \in 1..Len(js) : pending'[j] \in item
    <2> SUFFICES ASSUME NEW j \in 1..Len(js) PROVE pending'[j] \in item
        OBVIOUS
    <2>1. pending'[j] = [job |-> j, retry |-> 0]
        BY <1>1
    <2>2. j \in Nat /\ 0 \in 0..MaxFlakeRetries
        OBVIOUS
    <2> QED BY <2>1, <2>2
<1>3. pending' = [j \in 1..Len(js) |-> pending'[j]]
    BY <1>1
<1>4. pending' \in Seq(item)
    <2> HIDE DEF item
    <2> QED BY <1>2, <1>3, ListOf
<1>5. DOMAIN wave' = {} /\ wave' \in [DOMAIN wave' -> Outcome \union {"running", "appending"}]
    BY <1>1
<1>6. Finished' = {} /\ Cardinality(DOMAIN wave') = 0
    BY <1>5, FS_EmptySet DEF Finished
<1>7. SchedulerOK'
    BY <1>1, <1>4, <1>5 DEF SchedulerOK
<1> QED BY <1>1, <1>6, <1>7 DEF SchedulerInv

(* While no wave is in flight nothing of the batch is unaccounted for. *)
LEMMA NoWave ==
    ASSUME SchedulerInv, bpc # "wave"
    PROVE  /\ Finished = {} /\ Cardinality(Finished) = 0
           /\ attemptsUsed \in Nat /\ attemptBudget \in Nat /\ attemptsUsed <= attemptBudget
<1>1. DOMAIN wave = {}
    BY DEF SchedulerInv
<1>2. Finished = {} /\ Cardinality(Finished) = 0 /\ Cardinality(DOMAIN wave) = 0
    BY <1>1, FS_EmptySet DEF Finished
<1> QED BY <1>2 DEF SchedulerInv, SchedulerOK

(* An attempt returns one of the three outcomes. *)
LEMMA OutcomeOfEvaluate ==
    ASSUME NEW x, NEW run, NEW w
    PROVE  EvaluateResult(x, run, w).outcome \in Outcome
<1>1. CASE ~x.fits
    BY <1>1 DEF EvaluateResult, Result
<1>2. CASE x.fits /\ Killed(w)
    BY <1>2 DEF EvaluateResult, Result
<1>3. CASE x.fits /\ ~Killed(w) /\ run = Crash
    BY <1>3 DEF EvaluateResult, Result
<1>4. CASE x.fits /\ ~Killed(w) /\ run # Crash
    BY <1>4 DEF EvaluateResult, Result
<1> QED BY <1>1, <1>2, <1>3, <1>4

(* A rerun answers with one of the outcomes of an attempt. *)
LEMMA OutcomeOfRerun ==
    ASSUME NEW x, NEW run, NEW w
    PROVE  RerunResult(x, run, w).outcome \in Outcome
<1>1. CASE Killed(w)
    BY <1>1 DEF RerunResult, Result
<1>2. CASE ~Killed(w) /\ run = Crash
    BY <1>2 DEF RerunResult, Result
<1>3. CASE ~Killed(w) /\ run # Crash
    BY <1>3 DEF RerunResult, Result
<1> QED BY <1>1, <1>2, <1>3

-----------------------------------------------------------------------------
(* The initial states satisfy the invariant. *)
LEMMA InitInv == Init => BudgetInv
<1> SUFFICES ASSUME Init PROVE BudgetInv
    OBVIOUS
<1>1. /\ pc = "round" /\ phase = 1 /\ bpc = "idle" /\ candidates = {}
      /\ discoveryBudget = Phase1Budget /\ discoveryUsed = 0
      /\ discoveryAttempts = 0 /\ refinementAttempts = 0 /\ simulations = 0
      /\ attemptBudget = 0 /\ attemptsUsed = 0 /\ pending = <<>> /\ wave = <<>>
    BY DEF Init
<1>2. SchedulerInv
    <2>1. DOMAIN wave = {} /\ wave \in [DOMAIN wave -> Outcome \union {"running", "appending"}]
        BY <1>1
    <2>2. Cardinality(DOMAIN wave) = 0
        BY <2>1, FS_EmptySet
    <2> DEFINE item == [job : Nat, retry : 0..MaxFlakeRetries]
    <2>3. pending \in Seq(item)
        <3> HIDE DEF item
        <3> QED BY <1>1
    <2> QED BY <1>1, <2>1, <2>2, <2>3 DEF SchedulerInv, SchedulerOK
<1>3. BooksOK /\ ShareInv /\ RestInv
    BY <1>1, Sizes DEF BooksOK, ShareInv, RestInv
<1>4. BatchInv /\ RefineInv /\ EndInv
    BY <1>1 DEF BatchInv, RefineInv, EndInv
<1> QED BY <1>2, <1>3, <1>4 DEF BudgetInv

(* Breeding touches neither ledger nor scheduler. *)
LEMMA BreedInv == BudgetInv /\ Breed => BudgetInv'
<1> SUFFICES ASSUME BudgetInv, Breed PROVE BudgetInv'
    OBVIOUS
<1>1. /\ pc = "round" /\ pc' = "launch"
      /\ UNCHANGED <<jobs, attemptBudget, pending, wave, attemptsUsed, bpc>>
      /\ UNCHANGED <<phase, discoveryBudget, discoveryUsed, candidates, discoveryAttempts,
                     refinementAttempts, simulations>>
    BY DEF Breed, batchVars
<1>2. SchedulerInv'
    BY <1>1 DEF BudgetInv, SchedulerInv, SchedulerOK
<1>3. BooksOK' /\ ShareInv' /\ RestInv'
    BY <1>1 DEF BudgetInv, BooksOK, ShareInv, RestInv, InDiscovery
<1>4. BatchInv' /\ RefineInv' /\ EndInv'
    BY <1>1 DEF BatchInv, RefineInv, EndInv
<1> QED BY <1>2, <1>3, <1>4 DEF BudgetInv

(* A discovery batch starts within what is left of the discovery call. *)
LEMMA BatchStarts ==
    ASSUME NEW js, Len(js) \in Nat, NEW b \in Nat, Call(js, b),
           pc' \in {"elites", "evaluate"},
           BooksOK', ShareInv',
           b <= discoveryBudget' - discoveryUsed',
           simulations' = discoveryAttempts' + refinementAttempts' + discoveryUsed'
    PROVE  BudgetInv'
<1>1. SchedulerInv' /\ attemptsUsed' = 0 /\ attemptBudget' = b /\ Finished' = {}
    BY CallSound
<1>2. Cardinality(Finished') = 0
    BY <1>1, FS_EmptySet
<1>3. BatchInv'
    <2>1. /\ discoveryAttempts' \in Nat /\ refinementAttempts' \in Nat /\ discoveryUsed' \in Nat
        BY DEF BooksOK
    <2>2. simulations' = discoveryAttempts' + refinementAttempts' + discoveryUsed' + attemptsUsed' + Cardinality(Finished')
        BY <1>1, <1>2, <2>1
    <2> QED BY <1>1, <2>2 DEF BatchInv
<1>4. RestInv' /\ RefineInv' /\ EndInv'
    BY DEF RestInv, RefineInv, EndInv
<1> QED BY <1>1, <1>3, <1>4 DEF BudgetInv

(* The first batch of a round. *)
LEMMA LaunchInv == BudgetInv /\ Launch => BudgetInv'
<1> SUFFICES ASSUME BudgetInv, Launch PROVE BudgetInv'
    OBVIOUS
<1> DEFINE remaining == discoveryBudget - discoveryUsed
<1>1. /\ pc \in {"round", "launch"} /\ pc' \in {"elites", "evaluate"}
      /\ UNCHANGED <<phase, discoveryBudget, discoveryUsed, discoveryAttempts,
                     refinementAttempts, simulations>>
      /\ candidates' = FirstSlots(FreeSlots, remaining)
    BY DEF Launch
<1>2. candidates' \subseteq Slot
    BY <1>1 DEF FirstSlots, FreeSlots
<1>3. remaining \in Nat
    BY DEF BudgetInv, BooksOK
<1>4. BooksOK' /\ ShareInv'
    BY <1>1, <1>2 DEF BudgetInv, BooksOK, ShareInv, InDiscovery
<1>5. simulations' = discoveryAttempts' + refinementAttempts' + discoveryUsed'
    BY <1>1 DEF BudgetInv, RestInv
<1>6. CASE ValidSlots # {} /\ remaining > Cardinality(ValidSlots)
    <2>1. Call(At(pop, ValidSlots), Cardinality(ValidSlots))
        BY <1>6 DEF Launch
    <2>2. IsFiniteSet(ValidSlots) /\ Cardinality(ValidSlots) \in Nat
        BY SlotSets DEF ValidSlots
    <2>3. Len(At(pop, ValidSlots)) \in Nat
        BY <2>2, AtLength
    <2>4. Cardinality(ValidSlots) <= discoveryBudget' - discoveryUsed'
        BY <1>1, <1>3, <1>6, <2>2
    <2> QED BY <1>1, <1>4, <1>5, <2>1, <2>2, <2>3, <2>4, BatchStarts
<1>7. CASE ~(ValidSlots # {} /\ remaining > Cardinality(ValidSlots))
    <2>1. Call(At(pop, candidates'), remaining)
        BY <1>7 DEF Launch
    <2>2. Len(At(pop, candidates')) \in Nat
        BY <1>2, SlotSets, AtLength
    <2>3. remaining <= discoveryBudget' - discoveryUsed'
        BY <1>1, <1>3
    <2> QED BY <1>1, <1>3, <1>4, <1>5, <2>1, <2>2, <2>3, BatchStarts
<1> QED BY <1>6, <1>7

(* The evaluate batch after elite confirmation. *)
LEMMA ElitesInv == BudgetInv /\ ElitesConfirmed => BudgetInv'
<1> SUFFICES ASSUME BudgetInv, ElitesConfirmed PROVE BudgetInv'
    OBVIOUS
<1> DEFINE remaining == discoveryBudget - discoveryUsed'
<1>1. /\ pc = "elites" /\ pc' = "evaluate" /\ bpc = "loop"
      /\ discoveryUsed' = discoveryUsed + attemptsUsed
      /\ candidates' = FirstSlots(candidates, remaining)
      /\ Call(At(pop, candidates'), remaining)
      /\ UNCHANGED <<phase, discoveryBudget, discoveryAttempts, refinementAttempts, simulations>>
    BY DEF ElitesConfirmed, Returning, Charged
<1>2. /\ Cardinality(Finished) = 0 /\ attemptsUsed \in Nat /\ attemptBudget \in Nat
      /\ attemptsUsed <= attemptBudget
    BY <1>1, NoWave DEF BudgetInv
<1>3. /\ simulations = discoveryAttempts + refinementAttempts + discoveryUsed + attemptsUsed
      /\ attemptBudget <= discoveryBudget - discoveryUsed
    BY <1>1, <1>2 DEF BudgetInv, BatchInv, BooksOK
<1>4. candidates' \subseteq Slot
    BY <1>1 DEF FirstSlots, BudgetInv, BooksOK
<1>5. BooksOK' /\ ShareInv' /\ remaining \in Nat
    BY <1>1, <1>2, <1>3, <1>4 DEF BudgetInv, BooksOK, ShareInv, InDiscovery
<1>6. simulations' = discoveryAttempts' + refinementAttempts' + discoveryUsed'
    BY <1>1, <1>2, <1>3 DEF BudgetInv, BooksOK
<1>7. Len(At(pop, candidates')) \in Nat
    BY <1>4, SlotSets, AtLength
<1> QED BY <1>1, <1>5, <1>6, <1>7, BatchStarts

(* The end of a discovery round. *)
LEMMA RoundInv == BudgetInv /\ RoundDone => BudgetInv'
<1> SUFFICES ASSUME BudgetInv, RoundDone PROVE BudgetInv'
    OBVIOUS
<1>1. /\ pc = "evaluate" /\ pc' = "round" /\ bpc = "loop" /\ bpc' = "idle"
      /\ discoveryUsed' = discoveryUsed + attemptsUsed
      /\ UNCHANGED <<jobs, attemptBudget, pending, wave, attemptsUsed>>
      /\ UNCHANGED <<phase, discoveryBudget, candidates, discoveryAttempts, refinementAttempts,
                     simulations>>
    BY DEF RoundDone, Returning, Charged
<1>2. /\ Cardinality(Finished) = 0 /\ attemptsUsed \in Nat /\ attemptBudget \in Nat
      /\ attemptsUsed <= attemptBudget
    BY <1>1, NoWave DEF BudgetInv
<1>3. /\ simulations = discoveryAttempts + refinementAttempts + discoveryUsed + attemptsUsed
      /\ attemptBudget <= discoveryBudget - discoveryUsed
    BY <1>1, <1>2 DEF BudgetInv, BatchInv, BooksOK
<1>4. SchedulerInv'
    BY <1>1 DEF BudgetInv, SchedulerInv, SchedulerOK
<1>5. BooksOK' /\ ShareInv' /\ RestInv'
    BY <1>1, <1>2, <1>3 DEF BudgetInv, BooksOK, ShareInv, RestInv, InDiscovery
<1>6. BatchInv' /\ RefineInv' /\ EndInv'
    BY <1>1 DEF BatchInv, RefineInv, EndInv
<1> QED BY <1>4, <1>5, <1>6 DEF BudgetInv

-----------------------------------------------------------------------------
(* The steps inside a batch change the scheduler's state and the number of *)
(* simulations, and nothing else of the ledger.                            *)
LEMMA InsideBatch ==
    ASSUME BudgetInv, bpc # "idle", bpc' # "idle",
           UNCHANGED <<attemptBudget, phase, discoveryBudget, discoveryUsed, candidates,
                       discoveryAttempts, refinementAttempts, pc>>,
           SchedulerInv', simulations' \in Nat,
           \A base \in Nat : simulations = base + attemptsUsed + Cardinality(Finished) =>
                             simulations' = base + attemptsUsed' + Cardinality(Finished')
    PROVE  BudgetInv'
<1>1. pc \in {"elites", "evaluate", "refine"}
    BY DEF BudgetInv, BooksOK, RestInv, EndInv
<1>2. BooksOK' /\ ShareInv'
    BY DEF BudgetInv, BooksOK, ShareInv, InDiscovery
<1>3. RestInv' /\ EndInv'
    BY <1>1 DEF RestInv, EndInv
<1>4. BatchInv'
    <2>1. ASSUME pc \in {"elites", "evaluate"}
          PROVE  simulations' = discoveryAttempts + refinementAttempts + discoveryUsed
                                + attemptsUsed' + Cardinality(Finished')
        <3> DEFINE base == discoveryAttempts + refinementAttempts + discoveryUsed
        <3>1. base \in Nat
            BY DEF BudgetInv, BooksOK
        <3>2. simulations = base + attemptsUsed + Cardinality(Finished)
            BY <2>1 DEF BudgetInv, BatchInv
        <3> HIDE DEF base
        <3>3. simulations' = base + attemptsUsed' + Cardinality(Finished')
            BY <3>1, <3>2
        <3> QED BY <3>3 DEF base
    <2> QED BY <2>1 DEF BudgetInv, BatchInv
<1>5. RefineInv'
    <2>1. ASSUME pc = "refine"
          PROVE  simulations' = discoveryAttempts + attemptsUsed' + Cardinality(Finished')
        <3>1. discoveryAttempts \in Nat
            BY DEF BudgetInv, BooksOK
        <3>2. simulations = discoveryAttempts + attemptsUsed + Cardinality(Finished)
            BY <2>1 DEF BudgetInv, RefineInv
        <3> QED BY <3>1, <3>2
    <2> QED BY <2>1 DEF BudgetInv, RefineInv
<1> QED BY <1>2, <1>3, <1>4, <1>5 DEF BudgetInv

(* A wave starts within the batch's budget. *)
LEMMA StartWaveInv == BudgetInv /\ StartBatchWave => BudgetInv'
<1> SUFFICES ASSUME BudgetInv, StartBatchWave PROVE BudgetInv'
    OBVIOUS
<1>1. /\ bpc = "loop" /\ bpc' = "wave"
      /\ wave' = [i \in Selected |-> "running"] /\ DOMAIN wave' = Selected
      /\ attemptsUsed < attemptBudget
      /\ UNCHANGED <<attemptBudget, pending, attemptsUsed>>
      /\ UNCHANGED <<phase, discoveryBudget, discoveryUsed, candidates, discoveryAttempts,
                     refinementAttempts, pc, simulations>>
    BY DEF StartBatchWave, StartWave, Looping, searchVars
<1>2. SchedulerOK /\ Finished = {}
    BY <1>1, NoWave DEF BudgetInv, SchedulerInv
<1>3. /\ Selected \subseteq DOMAIN pending
      /\ Cardinality(Selected) <= attemptBudget - attemptsUsed
    BY <1>1, <1>2, SelectedFits
<1>4. IsFiniteSet(Selected) /\ Cardinality(Selected) \in Nat
    BY <1>2, <1>3, FiniteDomains, FS_Subset, FS_CardinalityType
<1>5. wave' \in [DOMAIN wave' -> Outcome \union {"running", "appending"}]
    BY <1>1
<1>6. SchedulerOK'
    BY <1>1, <1>2, <1>3, <1>5 DEF SchedulerOK
<1>7. SchedulerInv'
    BY <1>1, <1>2, <1>3, <1>4, <1>6 DEF SchedulerInv, SchedulerOK
<1>8. Finished' = Finished
    BY <1>1, <1>2 DEF Finished
<1>9. simulations' \in Nat
    BY <1>1 DEF BudgetInv, BooksOK
<1> QED BY <1>1, <1>7, <1>8, <1>9, InsideBatch

(* An attempt ends: one simulation more and one finished attempt more,     *)
(* unless the layout was skipped.                                          *)
LEMMA AttemptInv ==
    ASSUME BudgetInv, NEW i \in DOMAIN wave, NEW result, NEW run, NEW w,
           result.outcome \in Outcome, Attempt(i, result, run, w)
    PROVE  BudgetInv'
<1> DEFINE o == result.outcome
<1>1. /\ bpc = "wave" /\ bpc' = "wave" /\ wave[i] = "running"
      /\ wave' = [wave EXCEPT ![i] = o]
      /\ UNCHANGED <<attemptBudget, pending, attemptsUsed>>
      /\ UNCHANGED <<phase, discoveryBudget, discoveryUsed, candidates, discoveryAttempts,
                     refinementAttempts, pc>>
      /\ simulations' = simulations + (IF o = "SKIPPED" THEN 0 ELSE 1)
    BY DEF Attempt, Settle, searchVars
<1> HIDE DEF o
<1>2. o \in Outcome /\ SchedulerOK /\ wave \in [DOMAIN wave -> Outcome \union {"running", "appending"}]
    BY DEF o, BudgetInv, SchedulerInv, SchedulerOK
<1>3. DOMAIN wave' = DOMAIN wave /\ wave' \in [DOMAIN wave' -> Outcome \union {"running", "appending"}]
    BY <1>1, <1>2
<1>4. SchedulerInv'
    BY <1>1, <1>2, <1>3 DEF BudgetInv, SchedulerInv, SchedulerOK
<1>5. IsFiniteSet(Finished) /\ Cardinality(Finished) \in Nat /\ i \notin Finished
    BY <1>1, <1>2, FiniteDomains, FS_Subset, FS_CardinalityType DEF Finished
<1>6. Finished' = IF o = "SKIPPED" THEN Finished ELSE Finished \union {i}
    BY <1>1, <1>2, <1>3 DEF Finished
<1>7. Cardinality(Finished') = Cardinality(Finished) + (IF o = "SKIPPED" THEN 0 ELSE 1)
    BY <1>5, <1>6, FS_AddElement
<1>8. simulations \in Nat /\ attemptsUsed \in Nat
    BY DEF BudgetInv, BooksOK, SchedulerInv, SchedulerOK
<1>9. /\ simulations' \in Nat
      /\ \A base \in Nat : simulations = base + attemptsUsed + Cardinality(Finished) =>
                           simulations' = base + attemptsUsed' + Cardinality(Finished')
    BY <1>1, <1>5, <1>7, <1>8
<1> QED BY <1>1, <1>4, <1>9, InsideBatch

(* The wave ends: its finished attempts are charged. *)
LEMMA EndWaveInv == BudgetInv /\ EndBatchWave => BudgetInv'
<1> SUFFICES ASSUME BudgetInv, EndBatchWave PROVE BudgetInv'
    OBVIOUS
<1> DEFINE charged == {i \in DOMAIN wave : wave[i] # "SKIPPED"}
<1>1. /\ bpc = "wave" /\ bpc' = "loop" /\ wave' = <<>>
      /\ \A i \in DOMAIN wave : wave[i] \in Outcome
      /\ attemptsUsed' = attemptsUsed + Cardinality(charged)
      /\ pending' = Retries \o Deferred
      /\ UNCHANGED <<attemptBudget, phase, discoveryBudget, discoveryUsed, candidates,
                     discoveryAttempts, refinementAttempts, pc, simulations>>
    BY DEF EndBatchWave, EndWave, searchVars
<1>2. SchedulerOK /\ attemptsUsed + Cardinality(DOMAIN wave) <= attemptBudget
    BY DEF BudgetInv, SchedulerInv
<1>3. charged = Finished
    BY <1>1 DEF Finished
<1> HIDE DEF charged
<1>4. /\ Cardinality(Finished) \in Nat /\ Cardinality(Finished) <= Cardinality(DOMAIN wave)
      /\ Cardinality(DOMAIN wave) \in Nat
    BY <1>2, FiniteDomains, FS_Subset, FS_CardinalityType DEF Finished
<1>5. DOMAIN wave' = {} /\ wave' \in [DOMAIN wave' -> Outcome \union {"running", "appending"}]
    BY <1>1
<1>6. Finished' = {} /\ Cardinality(Finished') = 0 /\ Cardinality(DOMAIN wave') = 0
    BY <1>5, FS_EmptySet DEF Finished
<1>7. /\ attemptsUsed' = attemptsUsed + Cardinality(Finished)
      /\ attemptsUsed \in Nat /\ attemptBudget \in Nat /\ attemptsUsed' \in Nat
      /\ attemptsUsed' <= attemptBudget
    BY <1>1, <1>2, <1>3, <1>4 DEF SchedulerOK
<1>8. pending' \in Seq([job : Nat, retry : 0..MaxFlakeRetries])
    BY <1>1, <1>2, PendingAfterWave DEF SchedulerOK
<1>9. SchedulerInv'
    <2>1. SchedulerOK'
        BY <1>1, <1>2, <1>5, <1>7, <1>8 DEF SchedulerOK
    <2> QED BY <1>1, <1>6, <1>7, <2>1 DEF SchedulerInv
<1>10. simulations' \in Nat /\ simulations' = simulations
    BY <1>1 DEF BudgetInv, BooksOK
<1>11. \A base \in Nat : simulations = base + attemptsUsed + Cardinality(Finished) =>
                            simulations' = base + attemptsUsed' + Cardinality(Finished')
    BY <1>4, <1>6, <1>7, <1>10
<1> QED BY <1>1, <1>9, <1>10, <1>11, InsideBatch

-----------------------------------------------------------------------------
(* Refinement starts with its own share of the budget. *)
LEMMA RefinementStartInv == BudgetInv /\ StartRefinement => BudgetInv'
<1> SUFFICES ASSUME BudgetInv, StartRefinement PROVE BudgetInv'
    OBVIOUS
<1>1. /\ pc = "round" /\ pc' = "refine" /\ phase = 1
      /\ discoveryAttempts' = discoveryAttempts + discoveryUsed
      /\ Call(RerunJobs(promising'), Phase2Budget)
      /\ UNCHANGED <<phase, discoveryBudget, discoveryUsed, candidates, refinementAttempts,
                     simulations>>
    BY DEF StartRefinement, DiscoveryTotal
<1>2. Len(RerunJobs(promising')) \in Nat
    <2>1. ASSUME NEW s PROVE Len(Prefix(s, Phase2Budget)) \in Nat
        <3> DEFINE S == {i \in 1..Phase2Budget : i \in DOMAIN s}
        <3>1. IsFiniteSet(1..Phase2Budget) /\ S \subseteq 1..Phase2Budget
            BY Sizes, FS_Interval
        <3> HIDE DEF S
        <3>2. IsFiniteSet(S)
            BY <3>1, FS_Subset
        <3>3. Len(At(s, S)) \in Nat
            BY <3>2, AtLength
        <3> QED BY <3>3 DEF Prefix, S
    <2> QED BY <2>1 DEF RerunJobs
<1>3. SchedulerInv' /\ attemptsUsed' = 0 /\ attemptBudget' = Phase2Budget /\ Finished' = {}
    BY <1>1, <1>2, Sizes, CallSound
<1>4. Cardinality(Finished') = 0
    BY <1>3, FS_EmptySet
<1>5. /\ discoveryAttempts = 0 /\ refinementAttempts = 0 /\ discoveryBudget = Phase1Budget
      /\ simulations = discoveryUsed
      /\ discoveryUsed \in Nat /\ discoveryUsed <= Phase1Budget
    BY <1>1 DEF BudgetInv, BooksOK, ShareInv, RestInv, InDiscovery
<1>6. BooksOK'
    BY <1>1, <1>5 DEF BudgetInv, BooksOK
<1>7. RefineInv'
    <2>1. simulations' = discoveryAttempts' + attemptsUsed' + Cardinality(Finished')
        BY <1>1, <1>3, <1>4, <1>5
    <2> QED BY <1>1, <1>3, <1>5, <2>1 DEF RefineInv
<1>8. ShareInv' /\ RestInv' /\ BatchInv' /\ EndInv'
    BY <1>1 DEF ShareInv, RestInv, BatchInv, EndInv, InDiscovery
<1> QED BY <1>3, <1>6, <1>7, <1>8 DEF BudgetInv

(* What refinement leaves over is what the second discovery may use. *)
LEMMA RefinementDoneInv == BudgetInv /\ RefinementDone => BudgetInv'
<1> SUFFICES ASSUME BudgetInv, RefinementDone PROVE BudgetInv'
    OBVIOUS
<1>1. /\ pc = "refine" /\ bpc = "loop" /\ bpc' = "idle"
      /\ refinementAttempts' = attemptsUsed
      /\ UNCHANGED <<attemptBudget, pending, wave, attemptsUsed>>
      /\ UNCHANGED <<candidates, discoveryAttempts, simulations>>
    BY DEF RefinementDone, Returning
<1>2. /\ Cardinality(Finished) = 0 /\ attemptsUsed \in Nat /\ attemptBudget \in Nat
      /\ attemptsUsed <= attemptBudget
    BY <1>1, NoWave DEF BudgetInv
<1>3. /\ simulations = discoveryAttempts + attemptsUsed
      /\ discoveryAttempts \in Nat
      /\ discoveryAttempts + attemptsUsed <= Budget
    BY <1>1, <1>2, Sizes DEF BudgetInv, BooksOK, RefineInv
<1>4. SchedulerInv'
    BY <1>1 DEF BudgetInv, SchedulerInv, SchedulerOK
<1>5. CASE Unspent > 0
    <2>1. /\ pc' = "round" /\ phase' = 2 /\ discoveryBudget' = Unspent /\ discoveryUsed' = 0
        BY <1>5 DEF RefinementDone
    <2>2. Unspent \in Nat /\ discoveryAttempts + attemptsUsed + Unspent = Budget
        BY <1>2, <1>3, <1>5 DEF Unspent
    <2>3. BooksOK' /\ ShareInv' /\ RestInv'
        BY <1>1, <1>2, <1>3, <2>1, <2>2 DEF BudgetInv, BooksOK, ShareInv, RestInv, InDiscovery
    <2>4. BatchInv' /\ RefineInv' /\ EndInv'
        BY <2>1 DEF BatchInv, RefineInv, EndInv
    <2> QED BY <1>4, <2>3, <2>4 DEF BudgetInv
<1>6. CASE ~(Unspent > 0)
    <2>1. pc' = "select" /\ UNCHANGED <<phase, discoveryBudget, discoveryUsed>>
        BY <1>6 DEF RefinementDone
    <2>2. BooksOK' /\ EndInv'
        BY <1>1, <1>2, <1>3, <2>1 DEF BudgetInv, BooksOK, EndInv
    <2>3. ShareInv' /\ RestInv' /\ BatchInv' /\ RefineInv'
        BY <2>1 DEF ShareInv, RestInv, BatchInv, RefineInv, InDiscovery
    <2> QED BY <1>4, <2>2, <2>3 DEF BudgetInv
<1> QED BY <1>5, <1>6

(* The second discovery is over. *)
LEMMA ReturnedInv == BudgetInv /\ ReturnedBudgetDone => BudgetInv'
<1> SUFFICES ASSUME BudgetInv, ReturnedBudgetDone PROVE BudgetInv'
    OBVIOUS
<1>1. /\ pc = "round" /\ pc' = "select"
      /\ discoveryAttempts' = discoveryAttempts + discoveryUsed
      /\ UNCHANGED <<attemptBudget, pending, wave, attemptsUsed, bpc>>
      /\ UNCHANGED <<phase, discoveryBudget, discoveryUsed, candidates, refinementAttempts,
                     simulations>>
    BY DEF ReturnedBudgetDone, DiscoveryTotal, batchVars
<1>2. SchedulerInv'
    BY <1>1 DEF BudgetInv, SchedulerInv, SchedulerOK
<1>3. BooksOK' /\ EndInv'
    BY <1>1 DEF BudgetInv, BooksOK, ShareInv, RestInv, EndInv, InDiscovery
<1>4. ShareInv' /\ RestInv' /\ BatchInv' /\ RefineInv'
    BY <1>1 DEF ShareInv, RestInv, BatchInv, RefineInv, InDiscovery
<1> QED BY <1>2, <1>3, <1>4 DEF BudgetInv

(* Selection leaves the ledger alone. *)
LEMMA SelectInv == BudgetInv /\ Select => BudgetInv'
<1> SUFFICES ASSUME BudgetInv, Select PROVE BudgetInv'
    OBVIOUS
<1>1. /\ pc = "select" /\ pc' = "done"
      /\ UNCHANGED <<attemptBudget, pending, wave, attemptsUsed, bpc>>
      /\ UNCHANGED <<phase, discoveryBudget, discoveryUsed, candidates, discoveryAttempts,
                     refinementAttempts, simulations>>
    BY DEF Select, batchVars
<1>2. SchedulerInv'
    BY <1>1 DEF BudgetInv, SchedulerInv, SchedulerOK
<1>3. BooksOK' /\ EndInv'
    BY <1>1 DEF BudgetInv, BooksOK, EndInv
<1>4. ShareInv' /\ RestInv' /\ BatchInv' /\ RefineInv'
    BY <1>1 DEF ShareInv, RestInv, BatchInv, RefineInv, InDiscovery
<1> QED BY <1>2, <1>3, <1>4 DEF BudgetInv

-----------------------------------------------------------------------------
(* Every step of the search, and stuttering, preserves the invariant. *)
LEMMA NextInv == BudgetInv /\ [Next]_vars => BudgetInv'
<1> SUFFICES ASSUME BudgetInv, [Next]_vars PROVE BudgetInv'
    OBVIOUS
<1>1. CASE Evaluate
    BY <1>1, AttemptInv, OutcomeOfEvaluate DEF Evaluate
<1>2. CASE Rerun
    BY <1>2, AttemptInv, OutcomeOfRerun DEF Rerun
<1>3. CASE UNCHANGED vars
    <2>1. /\ UNCHANGED <<attemptBudget, pending, wave, attemptsUsed, bpc>>
          /\ UNCHANGED <<phase, discoveryBudget, discoveryUsed, candidates, discoveryAttempts,
                         refinementAttempts, simulations, pc>>
        BY <1>3 DEF vars, batchVars, searchVars
    <2>2. SchedulerInv' /\ BooksOK' /\ ShareInv' /\ RestInv' /\ EndInv'
        BY <2>1 DEF BudgetInv, SchedulerInv, SchedulerOK, BooksOK, ShareInv, RestInv, EndInv, InDiscovery
    <2>3. Finished' = Finished
        BY <2>1 DEF Finished
    <2>4. BatchInv' /\ RefineInv'
        BY <2>1, <2>3 DEF BudgetInv, BatchInv, RefineInv
    <2> QED BY <2>2, <2>4 DEF BudgetInv
<1> QED
    BY <1>1, <1>2, <1>3, BreedInv, LaunchInv, StartWaveInv, EndWaveInv, ElitesInv, RoundInv,
       RefinementStartInv, RefinementDoneInv, ReturnedInv, SelectInv DEF Next

(* The ledger invariant of the whole search. *)
THEOREM CampaignInvariant == Spec => []BudgetInv
<1> QED BY InitInv, NextInv, PTL DEF Spec

(* The invariant bounds the simulations finished and in flight. *)
LEMMA InvKeepsBudget == BudgetInv => BudgetKept
<1> SUFFICES ASSUME BudgetInv PROVE BudgetKept
    OBVIOUS
<1>1. SchedulerOK /\ attemptsUsed + Cardinality(DOMAIN wave) <= attemptBudget
    BY DEF BudgetInv, SchedulerInv
<1>2. IsFiniteSet(DOMAIN wave) /\ Cardinality(DOMAIN wave) \in Nat
    BY <1>1, FiniteDomains
<1>3. /\ IsFiniteSet(InFlight) /\ Cardinality(InFlight) \in Nat
      /\ IsFiniteSet(Finished) /\ Cardinality(Finished) \in Nat
    BY <1>2, FS_Subset, FS_CardinalityType DEF InFlight, Finished
<1>4. Cardinality(Finished) + Cardinality(InFlight) <= Cardinality(DOMAIN wave)
    <2>1. Finished \cap InFlight = {} /\ Finished \union InFlight \subseteq DOMAIN wave
        BY DEF Finished, InFlight
    <2>2. Cardinality(Finished \union InFlight) = Cardinality(Finished) + Cardinality(InFlight)
        <3>1. Cardinality(Finished \cap InFlight) = 0
            BY <2>1, FS_EmptySet
        <3>2. Cardinality(Finished \union InFlight)
                  = Cardinality(Finished) + Cardinality(InFlight) - Cardinality(Finished \cap InFlight)
            BY <1>3, FS_Union
        <3> QED BY <1>3, <3>1, <3>2
    <2> QED BY <1>2, <2>1, <2>2, FS_Subset
<1>5. /\ attemptsUsed \in Nat /\ attemptBudget \in Nat /\ simulations \in Nat
      /\ discoveryAttempts \in Nat /\ refinementAttempts \in Nat
      /\ discoveryUsed \in Nat /\ discoveryBudget \in Nat /\ discoveryUsed <= discoveryBudget
    BY <1>1 DEF BudgetInv, BooksOK, SchedulerOK
<1>6. CASE pc \in {"elites", "evaluate"}
    <2>1. /\ discoveryAttempts + refinementAttempts + discoveryBudget <= Budget
          /\ attemptBudget <= discoveryBudget - discoveryUsed
          /\ simulations = discoveryAttempts + refinementAttempts + discoveryUsed
                           + attemptsUsed + Cardinality(Finished)
        BY <1>6 DEF BudgetInv, ShareInv, BatchInv, InDiscovery
    <2> QED BY <1>1, <1>2, <1>3, <1>4, <1>5, <2>1 DEF BudgetKept
<1>7. CASE pc = "refine"
    <2>1. /\ discoveryAttempts <= Phase1Budget /\ attemptBudget = Phase2Budget
          /\ simulations = discoveryAttempts + attemptsUsed + Cardinality(Finished)
        BY <1>7 DEF BudgetInv, RefineInv
    <2> QED BY <1>1, <1>2, <1>3, <1>4, <1>5, <2>1, Sizes DEF BudgetKept
<1>8. CASE pc \in {"round", "launch", "select", "done"}
    <2>1. bpc = "idle"
        BY <1>8 DEF BudgetInv, RestInv, EndInv
    <2>2. InFlight = {}
        BY <2>1 DEF BudgetInv, SchedulerInv, InFlight
    <2>3. Cardinality(InFlight) = 0
        BY <2>2, FS_EmptySet
    <2>4. simulations <= Budget
        BY <1>5, <1>8 DEF BudgetInv, ShareInv, RestInv, EndInv, InDiscovery
    <2> QED BY <1>5, <2>3, <2>4 DEF BudgetKept
<1> QED BY <1>6, <1>7, <1>8 DEF BudgetInv, BooksOK

(* "The same global ledger keeps total attempts <= budget": generate never *)
(* runs more simulations than its budget, those in flight included, over   *)
(* both discovery phases, elite confirmation, refinement and all retries.  *)
THEOREM CampaignBudget == Spec => []BudgetKept
<1> QED BY CampaignInvariant, InvKeepsBudget, PTL

(* The total that generate logs when it returns is the exact number of     *)
(* simulations that were run.                                              *)
THEOREM CampaignLedger == Spec => []LedgerExact
<1>1. BudgetInv => LedgerExact
    BY DEF BudgetInv, BooksOK, EndInv, LedgerExact
<1> QED BY CampaignInvariant, <1>1, PTL

-----------------------------------------------------------------------------
(***************************************************************************)
(* Sorting is written by counting what comes before an element.  Under a   *)
(* strict total order, given as a set of pairs, every count is taken once. *)
(***************************************************************************)

(* R orders S. *)
StrictTotalOrder(R, S) ==
    /\ \A n \in S : <<n, n>> \notin R
    /\ \A m, n \in S : m # n => <<m, n>> \in R \/ <<n, m>> \in R
    /\ \A k, m, n \in S : <<k, m>> \in R /\ <<m, n>> \in R => <<k, n>> \in R

(* What comes before n in S. *)
Before(R, S, n) == {m \in S : <<m, n>> \in R}

(* The further back an element is, the more come before it. *)
LEMMA OrderCounts ==
    ASSUME NEW S, IsFiniteSet(S), NEW R, StrictTotalOrder(R, S)
    PROVE  /\ Cardinality(S) \in Nat
           /\ \A n \in S : Cardinality(Before(R, S, n)) \in 0..(Cardinality(S) - 1)
           /\ \A m, n \in S : <<m, n>> \in R => Cardinality(Before(R, S, m)) < Cardinality(Before(R, S, n))
           /\ \A m, n \in S : Cardinality(Before(R, S, m)) = Cardinality(Before(R, S, n)) => m = n
<1>1. Cardinality(S) \in Nat
    BY FS_CardinalityType
<1>2. \A n \in S : IsFiniteSet(Before(R, S, n)) /\ Cardinality(Before(R, S, n)) \in Nat
    <2> TAKE n \in S
    <2>1. Before(R, S, n) \in SUBSET S
        BY DEF Before
    <2> QED BY <2>1, FS_Subset, FS_CardinalityType
<1>3. ASSUME NEW n \in S PROVE Cardinality(Before(R, S, n)) \in 0..(Cardinality(S) - 1)
    <2>1. Before(R, S, n) \in SUBSET (S \ {n})
        BY DEF Before, StrictTotalOrder
    <2>2. IsFiniteSet(S \ {n}) /\ Cardinality(S \ {n}) = Cardinality(S) - 1
        BY FS_RemoveElement
    <2>3. Cardinality(Before(R, S, n)) <= Cardinality(S \ {n})
        BY <2>1, <2>2, FS_Subset
    <2> QED BY <2>2, <2>3, <1>1, <1>2
<1>4. ASSUME NEW m \in S, NEW n \in S, <<m, n>> \in R
      PROVE  Cardinality(Before(R, S, m)) < Cardinality(Before(R, S, n))
    <2>1. m \in Before(R, S, n) /\ Before(R, S, m) \in SUBSET (Before(R, S, n) \ {m})
        BY <1>4 DEF Before, StrictTotalOrder
    <2>2. IsFiniteSet(Before(R, S, n) \ {m})
          /\ Cardinality(Before(R, S, n) \ {m}) = Cardinality(Before(R, S, n)) - 1
        BY <2>1, <1>2, FS_RemoveElement
    <2>3. Cardinality(Before(R, S, m)) <= Cardinality(Before(R, S, n) \ {m})
        BY <2>1, <2>2, FS_Subset
    <2> QED BY <2>2, <2>3, <1>2
<1>5. ASSUME NEW m \in S, NEW n \in S, Cardinality(Before(R, S, m)) = Cardinality(Before(R, S, n)), m # n
      PROVE  FALSE
    <2>1. <<m, n>> \in R \/ <<n, m>> \in R
        BY <1>5 DEF StrictTotalOrder
    <2> QED BY <2>1, <1>2, <1>4, <1>5
<1> QED BY <1>1, <1>3, <1>4, <1>5

(* Every place is taken. *)
LEMMA EveryPlace ==
    ASSUME NEW S, IsFiniteSet(S), NEW R, StrictTotalOrder(R, S), NEW r \in 1..Cardinality(S)
    PROVE  \E n \in S : Cardinality(Before(R, S, n)) = r - 1
<1> DEFINE c == Cardinality(S)
           f == [n \in S |-> Cardinality(Before(R, S, n)) + 1]
<1>1. c \in Nat /\ \A n \in S : Cardinality(Before(R, S, n)) \in 0..(c - 1)
    BY OrderCounts
<1>2. \A m, n \in S : Cardinality(Before(R, S, m)) = Cardinality(Before(R, S, n)) => m = n
    BY OrderCounts
<1>3. f \in Injection(S, 1..c)
    <2>1. f \in [S -> 1..c]
        BY <1>1
    <2>2. \A m, n \in S : f[m] = f[n] => m = n
        BY <1>1, <1>2
    <2> QED BY <2>1, <2>2 DEF Injection, IsInjective
<1>4. f \in Surjection(S, 1..c)
    <2>1. IsFiniteSet(1..c) /\ Cardinality(1..c) = c
        BY <1>1, FS_Interval
    <2> QED BY <2>1, <1>3, FS_Injection
<1>5. PICK n \in S : f[n] = r
    BY <1>4 DEF Surjection
<1>6. Cardinality(Before(R, S, n)) + 1 = r
    BY <1>5
<1> QED BY <1>1, <1>6

USE LimitsAssumption, SimulatorAssumption, SwitchesAssumption, LegalAssumption

-----------------------------------------------------------------------------
(***************************************************************************)
(* Where unspent budget may come from.                                     *)
(***************************************************************************)

(* The second discovery call may use all that is left, and generate is at  *)
(* its selection only when the budget is spent or discovery has given up.  *)
GaveUpInv ==
    /\ noProgressRounds \in Nat
    /\ phase \in {1, 2}
    /\ InDiscovery /\ phase = 2 => discoveryAttempts + refinementAttempts + discoveryBudget = Budget
    /\ pc \in {"select", "done"} => simulations >= Budget \/ noProgressRounds >= NoProgressLimit

(* The number of empty rounds after which the search gives up is a number. *)
LEMMA NoProgressLimitType == NoProgressLimit \in Nat
BY DEF NoProgressLimit, MaxOf

(* GaveUpInv holds when generate starts. *)
LEMMA GaveUpInit == Init => GaveUpInv
BY DEF Init, GaveUpInv

(* Every step keeps GaveUpInv. *)
LEMMA GaveUpNext == BudgetInv /\ GaveUpInv /\ [Next]_vars => GaveUpInv'
<1> SUFFICES ASSUME BudgetInv, GaveUpInv, [Next]_vars PROVE GaveUpInv'
    OBVIOUS
<1>1. CASE Breed \/ Launch
    <2>1. /\ pc \in {"round", "launch"} /\ pc' \in {"launch", "elites", "evaluate"}
          /\ UNCHANGED <<phase, discoveryBudget, noProgressRounds, discoveryAttempts,
                         refinementAttempts, simulations>>
        BY <1>1 DEF Breed, Launch
    <2> QED BY <2>1 DEF GaveUpInv, InDiscovery
<1>2. CASE StartBatchWave \/ EndBatchWave \/ Evaluate \/ Rerun
    <2>1. bpc = "wave" \/ bpc = "loop"
        BY <1>2 DEF StartBatchWave, EndBatchWave, Evaluate, Rerun, Attempt, Settle, StartWave, EndWave
    <2>2. pc \notin {"select", "done"}
        BY <2>1 DEF BudgetInv, EndInv
    <2>3. UNCHANGED <<pc, phase, discoveryBudget, noProgressRounds, discoveryAttempts, refinementAttempts>>
        BY <1>2 DEF StartBatchWave, EndBatchWave, Evaluate, Rerun, Attempt, searchVars
    <2> QED BY <2>2, <2>3 DEF GaveUpInv, InDiscovery
<1>3. CASE ElitesConfirmed
    <2>1. /\ pc = "elites" /\ pc' = "evaluate"
          /\ UNCHANGED <<phase, discoveryBudget, noProgressRounds, discoveryAttempts, refinementAttempts>>
        BY <1>3 DEF ElitesConfirmed
    <2> QED BY <2>1 DEF GaveUpInv, InDiscovery
<1>4. CASE RoundDone
    <2>1. /\ pc = "evaluate" /\ pc' = "round"
          /\ noProgressRounds' = IF attemptsUsed = 0 THEN noProgressRounds + 1 ELSE 0
          /\ UNCHANGED <<phase, discoveryBudget, discoveryAttempts, refinementAttempts>>
        BY <1>4 DEF RoundDone
    <2> QED BY <2>1 DEF GaveUpInv, InDiscovery
<1>5. CASE StartRefinement
    <2>1. pc' = "refine" /\ UNCHANGED <<phase, noProgressRounds>>
        BY <1>5 DEF StartRefinement
    <2> QED BY <2>1 DEF GaveUpInv, InDiscovery
<1>6. CASE RefinementDone
    <2>1. /\ pc = "refine" /\ bpc = "loop" /\ refinementAttempts' = attemptsUsed
          /\ UNCHANGED <<discoveryAttempts, simulations>>
          /\ \/ Unspent > 0 /\ pc' = "round" /\ phase' = 2 /\ discoveryBudget' = Unspent /\ noProgressRounds' = 0
             \/ ~(Unspent > 0) /\ pc' = "select" /\ UNCHANGED <<phase, noProgressRounds>>
        BY <1>6 DEF RefinementDone, Returning
    <2>2. /\ simulations = discoveryAttempts + attemptsUsed
          /\ discoveryAttempts \in Nat /\ attemptsUsed \in Nat
        BY <2>1, NoWave DEF BudgetInv, RefineInv, BooksOK
    <2>3. CASE Unspent > 0
        BY <2>1, <2>2, <2>3 DEF GaveUpInv, InDiscovery, Unspent
    <2>4. CASE ~(Unspent > 0)
        BY <2>1, <2>2, <2>4 DEF GaveUpInv, InDiscovery, Unspent
    <2> QED BY <2>3, <2>4
<1>7. CASE ReturnedBudgetDone
    <2>1. /\ pc = "round" /\ pc' = "select" /\ phase = 2 /\ ~Discovering
          /\ UNCHANGED <<phase, noProgressRounds, simulations>>
        BY <1>7 DEF ReturnedBudgetDone
    <2>2. /\ discoveryAttempts + refinementAttempts + discoveryBudget = Budget
          /\ simulations = discoveryAttempts + refinementAttempts + discoveryUsed
          /\ {discoveryAttempts, refinementAttempts, discoveryBudget, discoveryUsed} \subseteq Nat
        BY <2>1 DEF BudgetInv, BooksOK, RestInv, GaveUpInv, InDiscovery
    <2> QED BY <2>1, <2>2, NoProgressLimitType DEF GaveUpInv, InDiscovery, Discovering
<1>8. CASE Select
    <2>1. /\ pc = "select" /\ pc' = "done" /\ UNCHANGED <<phase, noProgressRounds, simulations>>
        BY <1>8 DEF Select
    <2> QED BY <2>1 DEF GaveUpInv, InDiscovery
<1>9. CASE UNCHANGED vars
    BY <1>9 DEF vars, searchVars, GaveUpInv, InDiscovery
<1> QED BY <1>1, <1>2, <1>3, <1>4, <1>5, <1>6, <1>7, <1>8, <1>9 DEF Next

(* Budget is left unspent only when discovery gave up after noProgressLimit *)
(* rounds in which nothing legal could be run.                              *)
THEOREM UnspentOnlyByGivingUp == Spec => []BudgetUsedUp
<1>1. BudgetInv /\ GaveUpInv => BudgetUsedUp
    BY DEF BudgetInv, BooksOK, GaveUpInv, BudgetUsedUp
<1> QED BY <1>1, InitInv, NextInv, GaveUpInit, GaveUpNext, PTL DEF Spec

-----------------------------------------------------------------------------
(***************************************************************************)
(* The watchdog's limit.                                                   *)
(***************************************************************************)

(* The limit in force never passes the one the next batch would get, and   *)
(* no completed run was slower than it.                                    *)
PaceInv ==
    /\ killAfter \in Nat /\ maxGoodDuration \in Nat /\ slowestGood \in Nat
    /\ killAfter <= CurrentKillAfter
    /\ bpc # "idle" => killAfter > 0
    /\ ~Isolated => slowestGood < MaxOf(killAfter, 1)

(* The limit is a positive number that grows with the slowest good run. *)
LEMMA LimitGrows ==
    ASSUME NEW a \in Nat, NEW b \in Nat, a <= b
    PROVE  /\ MaxOf(MinTimeout, (TimeoutTenths * a) \div 10) \in Nat \ {0}
           /\ MaxOf(MinTimeout, (TimeoutTenths * a) \div 10) <= MaxOf(MinTimeout, (TimeoutTenths * b) \div 10)
<1>1. TimeoutTenths * a \in Nat /\ TimeoutTenths * b \in Nat /\ TimeoutTenths * a <= TimeoutTenths * b
    <2>1. b - a \in Nat /\ TimeoutTenths \in Nat
        OBVIOUS
    <2>2. TimeoutTenths * (b - a) \in Nat /\ TimeoutTenths * a \in Nat /\ TimeoutTenths * b \in Nat
        BY <2>1
    <2>3. TimeoutTenths * b = TimeoutTenths * a + TimeoutTenths * (b - a)
        BY <2>1
    <2> QED BY <2>2, <2>3
<1> DEFINE p == TimeoutTenths * a
           q == TimeoutTenths * b
<1> HIDE DEF p, q
<1>2. p \div 10 \in Nat /\ q \div 10 \in Nat /\ p \div 10 <= q \div 10
    BY <1>1 DEF p, q
<1> QED BY <1>2 DEF MaxOf, p, q

(* The largest of a finite set of numbers and low. *)
LEMMA MaxOverFacts ==
    ASSUME NEW S, IsFiniteSet(S), S \subseteq Nat, NEW low \in Nat
    PROVE  MaxOver(S, low) \in Nat /\ MaxOver(S, low) >= low
<1> DEFINE T == S \union {low}
           R == {p \in T \X T : p[1] < p[2]}
<1>1. IsFiniteSet(T) /\ T \subseteq Nat /\ low \in T
    BY FS_AddElement
<1>2. StrictTotalOrder(R, T)
    BY <1>1 DEF StrictTotalOrder
<1>3. Cardinality(T) \in Nat /\ Cardinality(T) > 0
    BY <1>1, FS_CardinalityType, FS_EmptySet
<1> HIDE DEF R, T
<1>4. PICK m \in T : Cardinality(Before(R, T, m)) = Cardinality(T) - 1
    <2>1. Cardinality(T) \in 1..Cardinality(T)
        BY <1>3
    <2>2. \A r \in 1..Cardinality(T) : \E n \in T : Cardinality(Before(R, T, n)) = r - 1
        BY <1>1, <1>2, EveryPlace
    <2> QED BY <2>1, <2>2
<1>5. \A n \in T : n <= m
    <2> SUFFICES ASSUME NEW n \in T, ~(n <= m) PROVE FALSE
        OBVIOUS
    <2>1. <<m, n>> \in R
        BY <1>1 DEF R
    <2>2. /\ Cardinality(Before(R, T, m)) < Cardinality(Before(R, T, n))
          /\ Cardinality(Before(R, T, n)) \in 0..(Cardinality(T) - 1)
        BY <1>1, <1>2, <2>1, OrderCounts
    <2> QED BY <1>3, <1>4, <2>2
<1>6. MaxOver(S, low) \in T /\ \A n \in T : n <= MaxOver(S, low)
    BY <1>5 DEF MaxOver, T
<1> QED BY <1>1, <1>6

-----------------------------------------------------------------------------
(***************************************************************************)
(* Scores are fractions, and the sort keys made of them are in order.      *)
(***************************************************************************)

(* Fractions, and the infinite one. *)
Proper == Int \X (Nat \ {0})
Fraction == Proper \union {Infinity}

(* Sums over the runs of a layout. *)
LEMMA RunSums ==
    ASSUME NEW runs \in Seq(Run)
    PROVE  /\ SumOfTimes(runs) \in Nat
           /\ runs # <<>> => SumOfTimes(runs) > 0
           /\ SumFunction([r \in DOMAIN runs |-> runs[r].d]) \in Nat
           /\ SumFunction([r \in DOMAIN runs |-> tierPoints(runs[r].d)]) \in Nat
           /\ SumFunction([r \in DOMAIN runs |-> shapedPoints(runs[r].d)]) \in Nat
           /\ SumFunction([r \in DOMAIN runs |-> tierPoints(runs[r].d)]) > 0
                 => \E r \in DOMAIN runs : tierPoints(runs[r].d) > 0
<1>1. DOMAIN runs = 1..Len(runs) /\ Len(runs) \in Nat /\ IsFiniteSet(DOMAIN runs)
      /\ \A r \in DOMAIN runs : runs[r] \in Run
    BY ListElements, Initial
<1>2. \A r \in DOMAIN runs : runs[r].d \in Nat /\ runs[r].t \in Nat \ {0}
    BY <1>1 DEF Run
<1>3. \A r \in DOMAIN runs : tierPoints(runs[r].d) \in Nat /\ shapedPoints(runs[r].d) \in Nat
    BY <1>2, PointsType
<1> DEFINE f == [r \in DOMAIN runs |-> runs[r].t]
           g == [r \in DOMAIN runs |-> runs[r].d]
           h == [r \in DOMAIN runs |-> tierPoints(runs[r].d)]
           k == [r \in DOMAIN runs |-> shapedPoints(runs[r].d)]
<1>4. SumFunction(f) \in Nat /\ (SumFunction(f) = 0 <=> \A x \in DOMAIN f : f[x] = 0)
    <2>1. IsFiniteSet(DOMAIN f) /\ \A x \in DOMAIN f : f[x] \in Nat
        BY <1>1, <1>2
    <2> HIDE DEF f
    <2> QED BY <2>1, SumOfNaturals
<1>5. SumFunction(g) \in Nat
    <2>1. IsFiniteSet(DOMAIN g) /\ \A x \in DOMAIN g : g[x] \in Nat
        BY <1>1, <1>2
    <2> HIDE DEF g
    <2> QED BY <2>1, SumOfNaturals
<1>6. SumFunction(h) \in Nat /\ (SumFunction(h) = 0 <=> \A x \in DOMAIN h : h[x] = 0)
    <2>1. IsFiniteSet(DOMAIN h) /\ \A x \in DOMAIN h : h[x] \in Nat
        BY <1>1, <1>3
    <2> HIDE DEF h
    <2> QED BY <2>1, SumOfNaturals
<1>7. SumFunction(k) \in Nat
    <2>1. IsFiniteSet(DOMAIN k) /\ \A x \in DOMAIN k : k[x] \in Nat
        BY <1>1, <1>3
    <2> HIDE DEF k
    <2> QED BY <2>1, SumOfNaturals
<1>8. runs # <<>> => \E x \in DOMAIN f : f[x] # 0
    <2> SUFFICES ASSUME runs # <<>> PROVE \E x \in DOMAIN f : f[x] # 0
        OBVIOUS
    <2>1. 1 \in DOMAIN runs
        BY <1>1
    <2> QED BY <2>1, <1>2
<1>9. SumFunction(h) > 0 => \E r \in DOMAIN runs : tierPoints(runs[r].d) > 0
    BY <1>3, <1>6
<1>10. SumOfTimes(runs) = SumFunction(f)
    BY DEF SumOfTimes
<1> HIDE DEF f, g, h, k
<1>11. runs # <<>> => SumOfTimes(runs) > 0
    BY <1>4, <1>8, <1>10
<1>12. SumOfTimes(runs) \in Nat
    BY <1>4, <1>10
<1> QED BY <1>5, <1>6, <1>7, <1>9, <1>11, <1>12 DEF g, h, k

(* Both scores are proper fractions of natural numbers. *)
LEMMA ScoreType ==
    ASSUME NEW runs \in Seq(Run), NEW niche \in Niche, NEW stuck \in BOOLEAN
    PROVE  /\ officialTestScore(runs, niche) \in Nat \X (Nat \ {0})
           /\ searchTestScore(runs, niche, stuck) \in Nat \X (Nat \ {0})
<1>1. ASSUME NEW points \in Nat
      PROVE  scoreFromPoints(points, niche, runs) \in Nat \X (Nat \ {0})
    <2>1. CASE runs = <<>>
        BY <2>1 DEF scoreFromPoints
    <2>2. CASE runs # <<>>
        <3> DEFINE t == SumOfTimes(runs)
        <3>1. t \in Nat /\ t > 0
            BY <2>2, RunSums
        <3> HIDE DEF t
        <3>2. niche * niche \in {1, 4}
            BY DEF Niche
        <3>3. niche * niche * t \in Nat \ {0}
            BY <3>1, <3>2
        <3> QED BY <2>2, <3>3 DEF scoreFromPoints, t
    <2> QED BY <2>1, <2>2
<1>2. officialTestScore(runs, niche) \in Nat \X (Nat \ {0})
    <2> DEFINE p == SumFunction([r \in DOMAIN runs |-> tierPoints(runs[r].d)])
    <2>1. p \in Nat
        BY RunSums
    <2> HIDE DEF p
    <2>2. 1000 * p \in Nat
        BY <2>1
    <2> QED BY <2>2, <1>1 DEF officialTestScore, p
<1>3. searchTestScore(runs, niche, stuck) \in Nat \X (Nat \ {0})
    <2> DEFINE p == SumFunction([r \in DOMAIN runs |-> shapedPoints(runs[r].d)])
               s == scoreFromPoints(p, niche, runs)
    <2>1. p \in Nat
        BY RunSums
    <2> HIDE DEF p
    <2>2. s \in Nat \X (Nat \ {0})
        BY <2>1, <1>1
    <2>3. searchTestScore(runs, niche, stuck) = <<s[1], s[2] * (IF stuck THEN 4 ELSE 1)>>
        BY DEF searchTestScore, p
    <2> HIDE DEF s
    <2>4. s[1] \in Nat /\ s[2] * (IF stuck THEN 4 ELSE 1) \in Nat \ {0}
        BY <2>2
    <2> QED BY <2>3, <2>4
<1> QED BY <1>2, <1>3

(* Multiplying with a positive number keeps the order. *)
LEMMA Scaled ==
    ASSUME NEW x \in Int, NEW y \in Int, NEW z \in Nat \ {0}
    PROVE  x < y <=> x * z < y * z
<1>1. x < y => x * z < y * z
    <2> SUFFICES ASSUME x < y PROVE x * z < y * z
        OBVIOUS
    <2>1. y - x \in Nat \ {0}
        OBVIOUS
    <2>2. (y - x) * z \in Nat \ {0}
        BY <2>1
    <2>3. y * z = x * z + (y - x) * z
        BY <2>1
    <2>4. x * z \in Int /\ y * z \in Int
        OBVIOUS
    <2> QED BY <2>2, <2>3, <2>4
<1>2. y <= x => y * z <= x * z
    <2> SUFFICES ASSUME y <= x PROVE y * z <= x * z
        OBVIOUS
    <2>1. x - y \in Nat
        OBVIOUS
    <2>2. (x - y) * z \in Nat
        BY <2>1
    <2>3. x * z = y * z + (x - y) * z
        BY <2>1
    <2>4. x * z \in Int /\ y * z \in Int
        OBVIOUS
    <2> QED BY <2>2, <2>3, <2>4
<1>3. x * z \in Int /\ y * z \in Int
    OBVIOUS
<1> QED BY <1>1, <1>2, <1>3

(* Crosswise comparison of proper fractions: what lies between. *)
LEMMA Between ==
    ASSUME NEW a \in Int, NEW b \in Nat \ {0}, NEW c \in Int, NEW d \in Nat \ {0},
           NEW e \in Int, NEW f \in Nat \ {0},
           a * d < c * b
    PROVE  a * f < e * b \/ e * d < c * f
<1> SUFFICES ASSUME ~(a * f < e * b), ~(e * d < c * f) PROVE FALSE
    OBVIOUS
<1>1. /\ a * d \in Int /\ c * b \in Int /\ a * f \in Int /\ e * b \in Int
      /\ e * d \in Int /\ c * f \in Int
    OBVIOUS
<1>2. (a * d) * f < (c * b) * f
    BY <1>1, Scaled
<1>3. ~((a * f) * d < (e * b) * d)
    BY <1>1, Scaled
<1>4. ~((e * d) * b < (c * f) * b)
    BY <1>1, Scaled
<1>5. (a * d) * f = (a * f) * d /\ (e * b) * d = (e * d) * b /\ (c * b) * f = (c * f) * b
    OBVIOUS
<1>6. (a * f) * d \in Int /\ (e * d) * b \in Int /\ (c * f) * b \in Int
    BY <1>1
<1> QED BY <1>2, <1>3, <1>4, <1>5, <1>6

(* Fractions are ordered like numbers: what is below q is below r, or r is *)
(* below q.                                                                *)
LEMMA FractionsOrdered ==
    ASSUME NEW p \in Fraction, NEW q \in Fraction, NEW r \in Fraction
    PROVE  /\ ~Below(p, p)
           /\ Below(p, q) => ~Below(q, p)
           /\ Below(p, q) => Below(p, r) \/ Below(r, q)
<1>1. \A s \in Fraction : s[1] \in Int /\ s[2] \in Nat /\ (s[2] = 0 => s[1] = 1)
    BY DEF Fraction, Proper, Infinity
<1>2. ~Below(p, p) /\ (Below(p, q) => ~Below(q, p))
    <2> DEFINE u == p[1] * q[2]
               v == q[1] * p[2]
               w == p[1] * p[2]
    <2>1. u \in Int /\ v \in Int /\ w \in Int
        BY <1>1
    <2>2. /\ Below(p, p) <=> w < w
          /\ Below(p, q) <=> u < v
          /\ Below(q, p) <=> v < u
        BY DEF Below
    <2> HIDE DEF u, v, w
    <2> QED BY <2>1, <2>2
<1>3. ASSUME Below(p, q) PROVE Below(p, r) \/ Below(r, q)
    <2>1. p[2] # 0
        <3> SUFFICES ASSUME p[2] = 0 PROVE FALSE
            OBVIOUS
        <3>1. p[1] * q[2] < q[1] * p[2] /\ p[1] = 1
            BY <1>1, <1>3 DEF Below
        <3>2. q[2] \in Nat /\ q[1] \in Int
            BY <1>1
        <3>3. p[1] * q[2] = q[2] /\ q[1] * p[2] = 0
            BY <3>1, <3>2
        <3> QED BY <3>1, <3>2, <3>3
    <2>2. CASE r[2] = 0
        <3>1. r[1] = 1 /\ p[1] \in Int /\ p[2] \in Nat
            BY <2>2, <1>1
        <3>2. p[1] * r[2] = 0 /\ r[1] * p[2] = p[2]
            BY <2>2, <3>1
        <3> QED BY <2>1, <3>1, <3>2 DEF Below
    <2>3. CASE r[2] # 0 /\ q[2] = 0
        <3>1. q[1] = 1 /\ r[1] \in Int /\ r[2] \in Nat
            BY <2>3, <1>1
        <3>2. r[1] * q[2] = 0 /\ q[1] * r[2] = r[2]
            BY <2>3, <3>1
        <3> QED BY <2>3, <3>1, <3>2 DEF Below
    <2>4. CASE r[2] # 0 /\ q[2] # 0
        <3> DEFINE a == p[1]
                   b == p[2]
                   c == q[1]
                   d == q[2]
                   e == r[1]
                   f == r[2]
        <3>1. /\ a \in Int /\ c \in Int /\ e \in Int
              /\ b \in Nat \ {0} /\ d \in Nat \ {0} /\ f \in Nat \ {0}
            BY <1>1, <2>1, <2>4
        <3>2. a * d < c * b
            BY <1>3 DEF Below
        <3>3. /\ Below(p, r) <=> a * f < e * b
              /\ Below(r, q) <=> e * d < c * f
            BY DEF Below
        <3> HIDE DEF a, b, c, d, e, f
        <3> QED BY <3>1, <3>2, <3>3, Between
    <2> QED BY <2>2, <2>3, <2>4
<1> QED BY <1>2, <1>3

(* Sort keys of one length are ordered lexicographically. *)
Key(N) == [1..N -> Fraction]

(* Comparing keys part by part is a strict weak order, as a sort needs. *)
LEMMA KeysOrdered ==
    ASSUME NEW N \in Nat, NEW p \in Key(N), NEW q \in Key(N), NEW r \in Key(N)
    PROVE  /\ ~KeyBelow(p, p)
           /\ KeyBelow(p, q) => ~KeyBelow(q, p)
           /\ KeyBelow(p, q) => KeyBelow(p, r) \/ KeyBelow(r, q)
<1>1. /\ DOMAIN p = 1..N /\ DOMAIN q = 1..N /\ DOMAIN r = 1..N
      /\ \A n \in 1..N : p[n] \in Fraction /\ q[n] \in Fraction /\ r[n] \in Fraction
    BY DEF Key
<1>2. ~KeyBelow(p, p)
    BY <1>1, FractionsOrdered DEF KeyBelow
<1>3. ASSUME KeyBelow(p, q), KeyBelow(q, p) PROVE FALSE
    <2>1. PICK n \in 1..N : /\ Below(p[n], q[n])
                            /\ \A m \in 1..(n - 1) : ~Below(p[m], q[m]) /\ ~Below(q[m], p[m])
        BY <1>1, <1>3 DEF KeyBelow
    <2>2. PICK k \in 1..N : /\ Below(q[k], p[k])
                            /\ \A m \in 1..(k - 1) : ~Below(q[m], p[m]) /\ ~Below(p[m], q[m])
        BY <1>1, <1>3 DEF KeyBelow
    <2>3. CASE n = k
        BY <2>1, <2>2, <2>3, <1>1, FractionsOrdered
    <2>4. CASE n < k
        <3>1. n \in 1..(k - 1)
            BY <2>4
        <3> QED BY <3>1, <2>1, <2>2
    <2>5. CASE k < n
        <3>1. k \in 1..(n - 1)
            BY <2>5
        <3> QED BY <3>1, <2>1, <2>2
    <2> QED BY <2>3, <2>4, <2>5
<1>4. ASSUME KeyBelow(p, q) PROVE KeyBelow(p, r) \/ KeyBelow(r, q)
    <2>1. PICK n \in 1..N : /\ Below(p[n], q[n])
                            /\ \A m \in 1..(n - 1) : ~Below(p[m], q[m]) /\ ~Below(q[m], p[m])
        BY <1>1, <1>4 DEF KeyBelow
    <2> DEFINE differs(m) == \/ Below(p[m], r[m]) \/ Below(r[m], p[m])
                             \/ Below(r[m], q[m]) \/ Below(q[m], r[m])
               T == {m \in 1..n : differs(m)}
    <2>2. n \in T
        BY <2>1, <1>1, FractionsOrdered
    <2>3. PICK m \in T : \A k \in T : m <= k
        <3>1. T \in SUBSET Nat /\ T # {}
            BY <2>2
        <3> HIDE DEF T
        <3> QED BY <3>1, LeastNumber
    <2>4. m \in 1..N /\ m <= n /\ differs(m)
        BY <2>3
    <2>5. \A k \in 1..(m - 1) : ~differs(k)
        <3> SUFFICES ASSUME NEW k \in 1..(m - 1), differs(k) PROVE FALSE
            OBVIOUS
        <3>1. k \in T /\ k < m
            BY <2>4
        <3> QED BY <3>1, <2>3
    <2>6. Below(p[m], r[m]) \/ Below(r[m], q[m])
        <3>1. CASE m = n
            BY <3>1, <2>1, <1>1, FractionsOrdered
        <3>2. CASE m < n
            <4>1. m \in 1..(n - 1)
                BY <3>2, <2>4
            <4>2. ~Below(p[m], q[m]) /\ ~Below(q[m], p[m])
                BY <4>1, <2>1
            <4>3. Below(r[m], p[m]) => Below(r[m], q[m]) \/ Below(q[m], p[m])
                BY <2>4, <1>1, FractionsOrdered
            <4>4. Below(q[m], r[m]) => Below(q[m], p[m]) \/ Below(p[m], r[m])
                BY <2>4, <1>1, FractionsOrdered
            <4> QED BY <2>4, <4>2, <4>3, <4>4
        <3> QED BY <3>1, <3>2, <2>4
    <2>7. CASE Below(p[m], r[m])
        BY <2>7, <2>4, <2>5, <1>1 DEF KeyBelow
    <2>8. CASE Below(r[m], q[m])
        BY <2>8, <2>4, <2>5, <1>1 DEF KeyBelow
    <2> QED BY <2>6, <2>7, <2>8
<1> QED BY <1>2, <1>3, <1>4

(* With the position as the last criterion, a stable sort, the order is    *)
(* strict and total.                                                       *)
LEMMA StableOrder ==
    ASSUME NEW N \in Nat, NEW S \in SUBSET Nat, NEW key \in [S -> Key(N)]
    PROVE  StrictTotalOrder({x \in S \X S : KeyBelow(key[x[1]], key[x[2]])
                                \/ (~KeyBelow(key[x[2]], key[x[1]]) /\ x[1] < x[2])}, S)
<1> DEFINE before(i, j) == KeyBelow(key[i], key[j]) \/ (~KeyBelow(key[j], key[i]) /\ i < j)
           R == {x \in S \X S : before(x[1], x[2])}
<1>1. \A i, j, k \in S :
          /\ ~KeyBelow(key[i], key[i])
          /\ KeyBelow(key[i], key[j]) => ~KeyBelow(key[j], key[i])
          /\ KeyBelow(key[i], key[j]) => KeyBelow(key[i], key[k]) \/ KeyBelow(key[k], key[j])
    BY KeysOrdered
<1>2. \A i, j \in S : <<i, j>> \in R <=> before(i, j)
    OBVIOUS
<1>3. \A i \in S : ~before(i, i)
    BY <1>1
<1>4. \A i, j \in S : i # j => before(i, j) \/ before(j, i)
    BY <1>1
<1>5. ASSUME NEW i \in S, NEW j \in S, NEW k \in S, before(i, j), before(j, k)
      PROVE  before(i, k)
    <2> DEFINE a == KeyBelow(key[i], key[j])
               b == KeyBelow(key[j], key[k])
               c == KeyBelow(key[i], key[k])
               d == KeyBelow(key[j], key[i])
               e == KeyBelow(key[k], key[j])
               f == KeyBelow(key[k], key[i])
    <2>1. /\ a => ~d /\ (c \/ e)
          /\ b => ~e /\ (d \/ c)
          /\ c => ~f
          /\ f => e \/ d
        BY <1>1
    <2>2. a \/ (~d /\ i < j)
        BY <1>5
    <2>3. b \/ (~e /\ j < k)
        BY <1>5
    <2>4. i < j /\ j < k => i < k
        OBVIOUS
    <2> HIDE DEF a, b, c, d, e, f
    <2>5. c \/ (~f /\ i < k)
        BY <2>1, <2>2, <2>3, <2>4
    <2> QED BY <2>5 DEF c, f
<1> HIDE DEF before, R
<1>6. StrictTotalOrder(R, S)
    BY <1>2, <1>3, <1>4, <1>5 DEF StrictTotalOrder
<1> QED BY <1>6 DEF R, before

-----------------------------------------------------------------------------
(***************************************************************************)
(* The population: types, niches, one slot per individual.                 *)
(***************************************************************************)

(* Every slot has its own individual, of the niche the schedule gave it; a *)
(* score is never of more runs than there are; a pending job is one of the *)
(* call's.                                                                 *)
OwnSlots == \A j, k \in Slot : pop[j] = pop[k] => j = k
ScoresOfRuns == \A x \in DOMAIN heap : heap[x].score.n <= Len(heap[x].runs)
PendingJobs == \A i \in DOMAIN pending : pending[i].job \in DOMAIN jobs

PopulationInv == TypeOK /\ OwnSlots /\ NicheQuota /\ ScoresOfRuns /\ PendingJobs

(* Concatenation of lists. *)
LEMMA Joined ==
    ASSUME NEW T, NEW s \in Seq(T), NEW t \in Seq(T)
    PROVE  /\ s \o t \in Seq(T) /\ Len(s) \in Nat /\ Len(t) \in Nat
           /\ DOMAIN (s \o t) = 1..(Len(s) + Len(t))
           /\ \A i \in 1..Len(s) : (s \o t)[i] = s[i]
           /\ \A i \in 1..Len(t) : (s \o t)[Len(s) + i] = t[i]
OBVIOUS

(* The schedule gives every slot a niche. *)
LEMMA CountsType == Counts \in [Slot -> Niche]
BY DEF Counts, Niche

(* What an individual starts with. *)
LEMMA NewFacts ==
    ASSUME NEW niche \in Niche, NEW legal \in BOOLEAN
    PROVE  LET x == NewIndividual(niche, legal) IN
           /\ x \in IndividualRecord
           /\ x.niche = niche /\ x.fits = legal /\ x.illegal = ~legal /\ ~x.valid /\ ~x.stuck
           /\ x.attempts = 0 /\ x.duration = 0 /\ x.runs = <<>> /\ x.score.n = 0
<1>1. NewIndividual(niche, legal) \in IndividualRecord
    BY DEF NewIndividual, IndividualRecord
<1> QED BY <1>1 DEF NewIndividual

(* The heap with new individuals for the slots in S: the old ones stay,    *)
(* and the new one of slot k is found at Len(heap) + RankIn(S, k).         *)
Extended(h, S, niche, legal) ==
    /\ h \in Seq(IndividualRecord)
    /\ DOMAIN heap \subseteq DOMAIN h
    /\ \A x \in DOMAIN heap : h[x] = heap[x]
    /\ \A k \in S : LET x == Len(heap) + RankIn(S, k) IN
          x \in DOMAIN h \ DOMAIN heap /\ h[x] = NewIndividual(niche[k], legal[k])
    /\ \A x \in DOMAIN h \ DOMAIN heap : \E k \in S :
          x = Len(heap) + RankIn(S, k) /\ h[x] = NewIndividual(niche[k], legal[k])

(* Appending the new individuals keeps the old ones where they are. *)
LEMMA ExtendedHeap ==
    ASSUME heap \in Seq(IndividualRecord), NEW S \in SUBSET Slot,
           NEW niche, \A k \in S : niche[k] \in Niche,
           NEW legal, \A k \in S : legal[k] \in BOOLEAN
    PROVE  Extended(heap \o Fresh(S, niche, legal), S, niche, legal)
<1> DEFINE c == Cardinality(S)
           F == Fresh(S, niche, legal)
           h == heap \o F
<1>1. IsFiniteSet(S) /\ c \in Nat /\ S \in SUBSET Nat
    BY SlotSets, Sizes
<1>2. \A n \in 1..c : Nth(S, n) \in S
    BY <1>1, NthIn
<1>3. F = [n \in 1..c |-> NewIndividual(niche[Nth(S, n)], legal[Nth(S, n)])]
    BY DEF Fresh
<1>4. \A n \in 1..c : NewIndividual(niche[Nth(S, n)], legal[Nth(S, n)]) \in IndividualRecord
    BY <1>2, NewFacts
<1>5. F \in Seq(IndividualRecord) /\ Len(F) = c
    BY <1>1, <1>3, <1>4
<1>6. /\ heap = [i \in 1..Len(heap) |-> heap[i]] /\ Len(heap) \in Nat /\ DOMAIN heap = 1..Len(heap)
    BY ListElements
<1> HIDE DEF F, c
<1>7. /\ h \in Seq(IndividualRecord) /\ DOMAIN h = 1..(Len(heap) + c)
      /\ \A x \in 1..Len(heap) : h[x] = heap[x]
      /\ \A n \in 1..c : h[Len(heap) + n] = F[n]
    <2>1. heap \in Seq(IndividualRecord) /\ F \in Seq(IndividualRecord)
        BY <1>5
    <2>2. /\ heap \o F \in Seq(IndividualRecord) /\ DOMAIN (heap \o F) = 1..(Len(heap) + Len(F))
          /\ \A x \in 1..Len(heap) : (heap \o F)[x] = heap[x]
          /\ \A n \in 1..Len(F) : (heap \o F)[Len(heap) + n] = F[n]
        BY <2>1, Joined
    <2> QED BY <2>2, <1>5
<1> HIDE DEF h
<1>8. DOMAIN heap \subseteq DOMAIN h /\ \A x \in DOMAIN heap : h[x] = heap[x]
    BY <1>1, <1>6, <1>7
<1>9. ASSUME NEW k \in S
      PROVE  LET x == Len(heap) + RankIn(S, k) IN
             x \in DOMAIN h \ DOMAIN heap /\ h[x] = NewIndividual(niche[k], legal[k])
    <2>1. RankIn(S, k) \in 1..c /\ Nth(S, RankIn(S, k)) = k
        BY <1>1, NthOfRank DEF c
    <2> DEFINE n == RankIn(S, k)
    <2> HIDE DEF n
    <2>2. n \in 1..c /\ F[n] = NewIndividual(niche[k], legal[k])
        BY <1>3, <2>1 DEF n
    <2>3. Len(heap) + n \in DOMAIN h \ DOMAIN heap
        <3>1. Len(heap) \in Nat /\ c \in Nat
            BY <1>1, <1>6
        <3>2. Len(heap) + n \in 1..(Len(heap) + c) /\ Len(heap) + n \notin 1..Len(heap)
            BY <2>2, <3>1
        <3> QED BY <1>6, <1>7, <3>2
    <2> QED BY <1>7, <2>2, <2>3 DEF n
<1>10. ASSUME NEW x \in DOMAIN h \ DOMAIN heap
       PROVE  \E k \in S : x = Len(heap) + RankIn(S, k) /\ h[x] = NewIndividual(niche[k], legal[k])
    <2> DEFINE n == x - Len(heap)
    <2>1. n \in 1..c /\ x = Len(heap) + n
        BY <1>1, <1>6, <1>7
    <2>2. Nth(S, n) \in S /\ RankIn(S, Nth(S, n)) = n
        BY <1>1, <2>1, NthIn DEF c
    <2>3. h[x] = NewIndividual(niche[Nth(S, n)], legal[Nth(S, n)])
        BY <1>3, <1>7, <2>1
    <2> QED BY <2>1, <2>2, <2>3
<1> QED BY <1>7, <1>8, <1>9, <1>10 DEF Extended, h, F

(* A population q that takes the individuals of p for some slots and new   *)
(* ones for the slots in S.                                                *)
OneToOne(p, S) == \A j, k \in S : p[j] = p[k] => j = k

Renewed(q, p, S, h, niche, legal) ==
    /\ q \in [Slot -> DOMAIN h]
    /\ OneToOne(q, Slot)
    /\ \A k \in Slot \ S : q[k] = p[k] /\ h[q[k]] = heap[p[k]]
    /\ \A k \in S : q[k] \notin DOMAIN heap /\ h[q[k]] = NewIndividual(niche[k], legal[k])
    /\ \A x \in DOMAIN h \ DOMAIN heap : \E k \in S : x = q[k]

(* Filling the slots in S with new individuals gives every slot its own. *)
LEMMA NewPopulation ==
    ASSUME NEW S \in SUBSET Slot, NEW niche, NEW legal, NEW h, Extended(h, S, niche, legal),
           NEW p \in [Slot -> DOMAIN heap], heap \in Seq(IndividualRecord), OneToOne(p, Slot \ S)
    PROVE  Renewed(WithFresh(p, S), p, S, h, niche, legal)
<1> DEFINE q == WithFresh(p, S)
<1>1. IsFiniteSet(S) /\ S \in SUBSET Nat
    BY SlotSets, Sizes
<1>2. q = [k \in Slot |-> IF k \in S THEN Len(heap) + RankIn(S, k) ELSE p[k]]
    BY DEF WithFresh
<1> HIDE DEF q
<1>3. \A k \in S : q[k] = Len(heap) + RankIn(S, k) /\ q[k] \in DOMAIN h \ DOMAIN heap
                   /\ h[q[k]] = NewIndividual(niche[k], legal[k])
    BY <1>2 DEF Extended
<1>4. \A k \in Slot \ S : q[k] = p[k] /\ q[k] \in DOMAIN heap /\ h[q[k]] = heap[p[k]]
    BY <1>2 DEF Extended
<1>5. q \in [Slot -> DOMAIN h]
    <2>1. \A k \in Slot : q[k] \in DOMAIN h
        BY <1>3, <1>4 DEF Extended
    <2>2. q = [k \in Slot |-> q[k]]
        BY <1>2
    <2> QED BY <2>1, <2>2
<1>6. \A j, k \in S : q[j] = q[k] => j = k
    <2> SUFFICES ASSUME NEW j \in S, NEW k \in S, q[j] = q[k] PROVE j = k
        OBVIOUS
    <2>1. RankIn(S, j) \in Nat /\ RankIn(S, k) \in Nat /\ Len(heap) \in Nat
        <3>1. RankIn(S, j) \in 1..Cardinality(S) /\ RankIn(S, k) \in 1..Cardinality(S)
            BY <1>1, RankRange
        <3>2. Cardinality(S) \in Nat
            BY <1>1, FS_CardinalityType
        <3> QED BY <3>1, <3>2
    <2>2. RankIn(S, j) = RankIn(S, k)
        BY <1>3, <2>1
    <2> QED BY <1>1, <2>2, RankInjective
<1>7. OneToOne(q, Slot)
    BY <1>3, <1>4, <1>6 DEF OneToOne
<1>8. \A x \in DOMAIN h \ DOMAIN heap : \E k \in S : x = q[k]
    <2> TAKE x \in DOMAIN h \ DOMAIN heap
    <2>1. PICK k \in S : x = Len(heap) + RankIn(S, k)
        BY DEF Extended
    <2> QED BY <2>1, <1>3
<1> QED BY <1>3, <1>4, <1>5, <1>7, <1>8 DEF q, Renewed

-----------------------------------------------------------------------------
(* The elites of a niche. *)

(* The sort keys of an individual are keys of fractions. *)
LEMMA KeyType ==
    ASSUME NEW x \in IndividualRecord, x.score.n <= Len(x.runs)
    PROVE  /\ searchSelectionKey(x) \in Key(4)
           /\ officialRank(x) \in Key(2)
           /\ ScoredRuns(x) \in Seq(Run)
           /\ OfficialScore(x) \in Nat \X (Nat \ {0})
<1>1. /\ x.niche \in Niche /\ x.runs \in Seq(Run) /\ x.score.n \in Nat /\ x.score.stuck \in BOOLEAN
      /\ Len(x.runs) \in Nat
    BY DEF IndividualRecord
<1>2. ScoredRuns(x) \in Seq(Run)
    BY <1>1 DEF ScoredRuns
<1>3. Fitness(x) \in Fraction
    <2> DEFINE s == searchTestScore(ScoredRuns(x), x.niche, x.score.stuck)
    <2>1. s \in Nat \X (Nat \ {0})
        BY <1>1, <1>2, ScoreType
    <2>2. Fitness(x) = IF x.score.n = 0 THEN Infinity ELSE <<0 - s[1], s[2]>>
        BY DEF Fitness
    <2> HIDE DEF s
    <2>3. <<0 - s[1], s[2]>> \in Proper
        BY <2>1 DEF Proper
    <2> QED BY <2>2, <2>3 DEF Fraction
<1>4. <<x.niche, 1>> \in Fraction
    BY <1>1 DEF Fraction, Proper, Niche
<1>5. MeanDistance(x.runs) \in Fraction /\ MeanDuration(x.runs) \in Fraction
    <2>1. CASE x.runs = <<>>
        BY <2>1 DEF MeanDistance, MeanDuration, Fraction
    <2>2. CASE x.runs # <<>>
        <3>1. Len(x.runs) \in Nat \ {0}
            BY <1>1, <2>2
        <3> DEFINE t == SumOfTimes(x.runs)
                   d == SumFunction([r \in DOMAIN x.runs |-> x.runs[r].d])
        <3>2. t \in Nat /\ d \in Nat
            BY <1>1, RunSums
        <3>3. MeanDistance(x.runs) = <<d, Len(x.runs)>> /\ MeanDuration(x.runs) = <<t, Len(x.runs)>>
            BY <2>2 DEF MeanDistance, MeanDuration
        <3> HIDE DEF t, d
        <3> QED BY <3>1, <3>2, <3>3 DEF Fraction, Proper
    <2> QED BY <2>1, <2>2
<1>6. searchSelectionKey(x) \in Key(4)
    BY <1>3, <1>4, <1>5 DEF searchSelectionKey, Key
<1>7. OfficialScore(x) \in Nat \X (Nat \ {0})
    BY <1>1, <1>2, ScoreType DEF OfficialScore
<1>8. <<0 - OfficialScore(x)[1], OfficialScore(x)[2]>> \in Fraction
    BY <1>7 DEF Fraction, Proper
<1>9. officialRank(x) \in Key(2)
    BY <1>5, <1>8 DEF officialRank, Key
<1> QED BY <1>2, <1>6, <1>7, <1>9

(* The individual of a slot. *)
LEMMA SlotFacts ==
    ASSUME TypeOK, ScoresOfRuns, NEW k \in Slot
    PROVE  /\ pop[k] \in DOMAIN heap
           /\ heap[pop[k]] \in IndividualRecord
           /\ heap[pop[k]].score.n <= Len(heap[pop[k]].runs)
<1>1. pop[k] \in DOMAIN heap /\ heap \in Seq(IndividualRecord)
    BY DEF TypeOK
<1>2. heap[pop[k]] \in IndividualRecord
    BY <1>1, ListElements
<1> QED BY <1>1, <1>2 DEF ScoresOfRuns

SortOrder == {x \in Slot \X Slot : SortsBefore(x[1], x[2])}

(* The stable sort by searchSelectionKey orders every set of slots. *)
LEMMA SlotsSorted ==
    ASSUME TypeOK, ScoresOfRuns, NEW S \in SUBSET Slot
    PROVE  /\ IsFiniteSet(S)
           /\ StrictTotalOrder(SortOrder, S)
           /\ \A k \in S : Before(SortOrder, S, k) = {j \in S : SortsBefore(j, k)}
<1> DEFINE key == [k \in Slot |-> searchSelectionKey(heap[pop[k]])]
           before(i, j) == KeyBelow(key[i], key[j]) \/ (~KeyBelow(key[j], key[i]) /\ i < j)
           R == {x \in Slot \X Slot : before(x[1], x[2])}
<1>1. key \in [Slot -> Key(4)]
    BY SlotFacts, KeyType
<1>2. Slot \in SUBSET Nat /\ IsFiniteSet(S)
    BY Sizes, SlotSets
<1>3. R = SortOrder
    BY DEF SortOrder, SortsBefore
<1>4. StrictTotalOrder(R, Slot)
    <2> HIDE DEF key
    <2> QED BY <1>1, <1>2, StableOrder
<1>5. StrictTotalOrder(SortOrder, S)
    BY <1>3, <1>4 DEF StrictTotalOrder
<1>6. \A k \in S : Before(SortOrder, S, k) = {j \in S : SortsBefore(j, k)}
    BY DEF Before, SortOrder
<1> QED BY <1>2, <1>5, <1>6

(* The n-th elite of a niche is in its pool, and n - 1 of the pool sort    *)
(* before it.                                                              *)
LEMMA EliteFacts ==
    ASSUME TypeOK, ScoresOfRuns, NEW niche \in Niche, NEW n \in 1..Cardinality(PoolOf(niche))
    PROVE  /\ Elite(niche, n) \in PoolOf(niche)
           /\ Cardinality({j \in PoolOf(niche) : SortsBefore(j, Elite(niche, n))}) = n - 1
<1> DEFINE P == PoolOf(niche)
<1>1. P \in SUBSET Slot
    BY DEF PoolOf
<1> HIDE DEF P
<1>2. /\ IsFiniteSet(P) /\ StrictTotalOrder(SortOrder, P)
      /\ \A k \in P : Before(SortOrder, P, k) = {j \in P : SortsBefore(j, k)}
    BY <1>1, SlotsSorted
<1>3. n \in 1..Cardinality(P)
    BY DEF P
<1>4. PICK k \in P : Cardinality(Before(SortOrder, P, k)) = n - 1
    BY <1>2, <1>3, EveryPlace
<1>5. \E e \in P : Cardinality({j \in P : SortsBefore(j, e)}) = n - 1
    BY <1>2, <1>4
<1> QED BY <1>5 DEF Elite, P

(* The sets that count elites. *)
LEMMA NicheCounts ==
    ASSUME NEW niche \in Niche
    PROVE  /\ NicheSlots(niche) \in SUBSET Slot /\ Cardinality(NicheSlots(niche)) \in Nat
           /\ PoolOf(niche) \in SUBSET Slot /\ Cardinality(PoolOf(niche)) \in Nat
           /\ EliteCount(niche) \in Nat /\ EliteCount(niche) <= Cardinality(PoolOf(niche))
<1>1. NicheSlots(niche) \in SUBSET Slot /\ PoolOf(niche) \in SUBSET Slot
    BY DEF NicheSlots, PoolOf
<1>2. Cardinality(NicheSlots(niche)) \in Nat /\ Cardinality(PoolOf(niche)) \in Nat
    BY <1>1, SlotSets
<1> QED BY <1>1, <1>2 DEF EliteCount, MinOf, MaxOf

(* An elite is an individual of its new slot's niche, and no individual is *)
(* carried over twice.                                                     *)
LEMMA ElitesCarried ==
    ASSUME PopulationInv
    PROVE  /\ \A k \in EliteSlots : EliteFor(k) \in DOMAIN heap /\ heap[EliteFor(k)].niche = Counts[k]
           /\ \A k \in EliteSlots : \E j \in Slot : EliteFor(k) = pop[j]
           /\ \A j, k \in EliteSlots : EliteFor(j) = EliteFor(k) => j = k
<1> DEFINE rank(k) == RankIn(NicheSlots(Counts[k]), k)
           e(k) == Elite(Counts[k], rank(k))
<1>1. EliteSlots \subseteq Slot
    BY DEF EliteSlots
<1>2. ASSUME NEW k \in EliteSlots
      PROVE  /\ Counts[k] \in Niche
             /\ k \in NicheSlots(Counts[k])
             /\ rank(k) \in 1..Cardinality(PoolOf(Counts[k]))
             /\ e(k) \in PoolOf(Counts[k])
             /\ Cardinality({j \in PoolOf(Counts[k]) : SortsBefore(j, e(k))}) = rank(k) - 1
    <2>1. k \in Slot /\ rank(k) <= EliteCount(Counts[k])
        BY <1>1 DEF EliteSlots
    <2>2. Counts[k] \in Niche
        BY <2>1, CountsType
    <2>3. k \in NicheSlots(Counts[k])
        BY <2>1 DEF NicheSlots
    <2> DEFINE N == NicheSlots(Counts[k])
    <2>4. N \in SUBSET Nat /\ IsFiniteSet(N) /\ k \in N /\ Cardinality(N) \in Nat
        BY <2>2, <2>3, NicheCounts, SlotSets, Sizes
    <2>5. rank(k) \in 1..Cardinality(N)
        <3> HIDE DEF N
        <3>1. RankIn(N, k) \in 1..Cardinality(N)
            BY <2>4, RankRange
        <3> QED BY <3>1 DEF N
    <2>6. EliteCount(Counts[k]) \in Nat /\ EliteCount(Counts[k]) <= Cardinality(PoolOf(Counts[k]))
          /\ Cardinality(PoolOf(Counts[k])) \in Nat
        BY <2>2, NicheCounts
    <2> HIDE DEF rank
    <2>7. rank(k) \in 1..Cardinality(PoolOf(Counts[k]))
        BY <2>1, <2>4, <2>5, <2>6
    <2>8. TypeOK /\ ScoresOfRuns
        BY DEF PopulationInv
    <2> QED BY <2>2, <2>3, <2>7, <2>8, EliteFacts
<1>3. \A k \in EliteSlots : EliteFor(k) = pop[e(k)]
    BY DEF EliteFor
<1> HIDE DEF e, rank
<1>4. \A k \in EliteSlots : e(k) \in Slot /\ heap[pop[e(k)]].niche = Counts[k]
    BY <1>2 DEF PoolOf
<1>5. \A k \in EliteSlots : EliteFor(k) \in DOMAIN heap
    BY <1>3, <1>4 DEF PopulationInv, TypeOK
<1>6. ASSUME NEW j \in EliteSlots, NEW k \in EliteSlots, EliteFor(j) = EliteFor(k)
      PROVE  j = k
    <2>1. e(j) = e(k)
        BY <1>3, <1>4, <1>6 DEF PopulationInv, OwnSlots
    <2>2. Counts[j] = Counts[k]
        BY <1>4, <2>1
    <2>3. rank(j) - 1 = rank(k) - 1
        BY <1>2, <2>1, <2>2
    <2>4. rank(j) \in Int /\ rank(k) \in Int
        <3>1. /\ rank(j) \in 1..Cardinality(PoolOf(Counts[j]))
              /\ rank(k) \in 1..Cardinality(PoolOf(Counts[k]))
            BY <1>2
        <3>2. Cardinality(PoolOf(Counts[j])) \in Nat /\ Cardinality(PoolOf(Counts[k])) \in Nat
            BY <1>2, NicheCounts
        <3> QED BY <3>1, <3>2
    <2>5. rank(j) = rank(k)
        BY <2>3, <2>4
    <2> DEFINE N == NicheSlots(Counts[k])
    <2>6. N \in SUBSET Nat /\ IsFiniteSet(N) /\ j \in N /\ k \in N
        BY <1>2, <2>2, NicheCounts, SlotSets, Sizes
    <2>7. RankIn(N, j) = RankIn(N, k)
        BY <2>2, <2>5 DEF rank
    <2> HIDE DEF N
    <2> QED BY <2>6, <2>7, RankInjective
<1> QED BY <1>3, <1>4, <1>5, <1>6

-----------------------------------------------------------------------------
(* What an attempt writes, field by field. *)

Same(x, y) == /\ y.niche = x.niche /\ y.fits = x.fits
SameResult(x, y) == /\ y.illegal = x.illegal /\ y.valid = x.valid /\ y.stuck = x.stuck
                    /\ y.runs = x.runs /\ y.score = x.score

(* The types of the fields of an individual. *)
LEMMA RecordFields ==
    ASSUME NEW x \in IndividualRecord
    PROVE  /\ x.niche \in Niche /\ x.fits \in BOOLEAN /\ x.illegal \in BOOLEAN /\ x.valid \in BOOLEAN
           /\ x.stuck \in BOOLEAN /\ x.attempts \in Nat /\ x.duration \in Nat /\ x.runs \in Seq(Run)
           /\ x.score \in [n : Nat, stuck : BOOLEAN]
           /\ x.score.n \in Nat /\ x.score.stuck \in BOOLEAN /\ Len(x.runs) \in Nat
BY DEF IndividualRecord

(* Recording the duration of an attempt changes nothing else. *)
LEMMA TimedFacts ==
    ASSUME NEW x \in IndividualRecord, NEW w \in Nat
    PROVE  /\ Timed(x, w) \in IndividualRecord
           /\ Same(x, Timed(x, w)) /\ SameResult(x, Timed(x, w))
           /\ Timed(x, w).attempts = x.attempts /\ Timed(x, w).duration = w
BY DEF IndividualRecord, Timed, Same, SameResult

(* An evaluation counts as an attempt and records its duration. *)
LEMMA TriedFacts ==
    ASSUME NEW x \in IndividualRecord, NEW w \in Nat
    PROVE  /\ Tried(x, w) \in IndividualRecord
           /\ Same(x, Tried(x, w)) /\ SameResult(x, Tried(x, w))
           /\ Tried(x, w).attempts = x.attempts + 1 /\ Tried(x, w).duration = w
<1> DEFINE y == Timed(x, w)
<1>1. y \in IndividualRecord /\ Same(x, y) /\ SameResult(x, y) /\ y.attempts = x.attempts /\ y.duration = w
    BY TimedFacts
<1>2. Tried(x, w) = [y EXCEPT !.attempts = y.attempts + 1]
    BY DEF Tried
<1> HIDE DEF y
<1>3. y.attempts + 1 \in Nat
    BY <1>1, RecordFields
<1> DEFINE a == y.attempts + 1
           z == [y EXCEPT !.attempts = a]
<1>4. a \in Nat /\ a = x.attempts + 1
    BY <1>1, <1>3
<1> HIDE DEF a
<1>5. z \in IndividualRecord /\ Same(y, z) /\ SameResult(y, z) /\ z.attempts = a /\ z.duration = y.duration
    BY <1>1, <1>4 DEF IndividualRecord, Same, SameResult
<1>6. Tried(x, w) = z
    BY <1>2 DEF a
<1> HIDE DEF z
<1> QED BY <1>1, <1>4, <1>5, <1>6 DEF Same, SameResult

(* Clearing the results leaves an individual with no score. *)
LEMMA UnmeasuredFacts ==
    ASSUME NEW x \in IndividualRecord
    PROVE  LET y == Unmeasured(x) IN
           /\ y \in IndividualRecord /\ Same(x, y)
           /\ y.illegal = x.illegal /\ ~y.valid /\ y.stuck = x.stuck /\ y.runs = x.runs /\ y.score.n = 0
           /\ y.attempts = x.attempts /\ y.duration = x.duration
BY DEF IndividualRecord, Unmeasured, Same

(* A layout that cannot be placed is marked illegal and has no score. *)
LEMMA UnusableFacts ==
    ASSUME NEW x \in IndividualRecord
    PROVE  LET y == Unusable(x) IN
           /\ y \in IndividualRecord /\ Same(x, y)
           /\ y.illegal /\ ~y.valid /\ y.stuck = x.stuck /\ y.runs = x.runs /\ y.score.n = 0
           /\ y.attempts = x.attempts /\ y.duration = x.duration
<1> DEFINE z == Unmeasured(x)
<1>1. /\ z \in IndividualRecord /\ Same(x, z)
      /\ z.illegal = x.illegal /\ ~z.valid /\ z.stuck = x.stuck /\ z.runs = x.runs /\ z.score.n = 0
      /\ z.attempts = x.attempts /\ z.duration = x.duration
    BY UnmeasuredFacts
<1>2. Unusable(x) = [z EXCEPT !.illegal = TRUE]
    BY DEF Unusable
<1> HIDE DEF z
<1> QED BY <1>1, <1>2 DEF IndividualRecord, Same

(* A killed attempt sets stuck and nothing else. *)
LEMMA MarkedStuckFacts ==
    ASSUME NEW x \in IndividualRecord
    PROVE  LET y == MarkedStuck(x) IN
           /\ y \in IndividualRecord /\ Same(x, y)
           /\ y.illegal = x.illegal /\ y.valid = x.valid /\ y.stuck /\ y.runs = x.runs /\ y.score = x.score
           /\ y.attempts = x.attempts /\ y.duration = x.duration
BY DEF IndividualRecord, MarkedStuck, Same

(* Adding a run extends the runs and nothing else. *)
LEMMA WithRunFacts ==
    ASSUME NEW x \in IndividualRecord, NEW run \in Run
    PROVE  LET y == WithRun(x, run) IN
           /\ y \in IndividualRecord /\ Same(x, y)
           /\ y.illegal = x.illegal /\ y.valid = x.valid /\ y.stuck = x.stuck
           /\ y.runs = Append(x.runs, run) /\ y.score = x.score
           /\ y.attempts = x.attempts /\ y.duration = x.duration
<1>1. x.runs \in Seq(Run)
    BY RecordFields
<1>2. Append(x.runs, run) \in Seq(Run)
    BY <1>1
<1>3. WithRun(x, run) = [x EXCEPT !.runs = Append(x.runs, run)]
    BY DEF WithRun
<1> DEFINE rs == Append(x.runs, run)
<1> HIDE DEF rs
<1> QED BY <1>2, <1>3 DEF IndividualRecord, Same, rs

(* A completed flight adds its run, and sets stuck if it missed the goal. *)
LEMMA FlownFacts ==
    ASSUME NEW x \in IndividualRecord, NEW run \in Run
    PROVE  LET y == Flown(x, run) IN
           /\ y \in IndividualRecord /\ Same(x, y)
           /\ y.illegal = x.illegal /\ y.valid = x.valid /\ y.stuck = (x.stuck \/ ~run.goal)
           /\ y.runs = Append(x.runs, run) /\ y.score = x.score
           /\ y.attempts = x.attempts /\ y.duration = x.duration
<1> DEFINE z == WithRun(x, run)
<1>1. /\ z \in IndividualRecord /\ Same(x, z)
      /\ z.illegal = x.illegal /\ z.valid = x.valid /\ z.stuck = x.stuck
      /\ z.runs = Append(x.runs, run) /\ z.score = x.score
      /\ z.attempts = x.attempts /\ z.duration = x.duration
    BY WithRunFacts
<1>2. run.goal \in BOOLEAN /\ x.stuck \in BOOLEAN
    BY RecordFields DEF Run
<1>3. Flown(x, run) = IF run.goal THEN z ELSE MarkedStuck(z)
    BY DEF Flown
<1> HIDE DEF z
<1>4. CASE run.goal
    BY <1>1, <1>2, <1>3, <1>4 DEF Same
<1>5. CASE ~run.goal
    <2>1. /\ MarkedStuck(z) \in IndividualRecord /\ Same(z, MarkedStuck(z))
          /\ MarkedStuck(z).illegal = z.illegal /\ MarkedStuck(z).valid = z.valid /\ MarkedStuck(z).stuck
          /\ MarkedStuck(z).runs = z.runs /\ MarkedStuck(z).score = z.score
          /\ MarkedStuck(z).attempts = z.attempts /\ MarkedStuck(z).duration = z.duration
        BY <1>1, MarkedStuckFacts
    <2>2. MarkedStuck(z).stuck \in BOOLEAN
        BY <2>1, RecordFields
    <2> QED BY <1>1, <1>2, <1>3, <1>5, <2>1, <2>2 DEF Same
<1> QED BY <1>2, <1>4, <1>5

(* A score that covers all runs and the stuck flag. *)
Current(x) == x.score = [n |-> Len(x.runs), stuck |-> x.stuck]

(* Rescoring makes the score that of all the runs. *)
LEMMA RescoredFacts ==
    ASSUME NEW x \in IndividualRecord
    PROVE  LET y == Rescored(x) IN
           /\ y \in IndividualRecord /\ Same(x, y)
           /\ y.illegal = x.illegal /\ y.valid = x.valid /\ y.stuck = x.stuck /\ y.runs = x.runs
           /\ Current(y) /\ y.score.n = Len(y.runs)
           /\ y.attempts = x.attempts /\ y.duration = x.duration
<1>1. Len(x.runs) \in Nat
    BY RecordFields
<1> QED BY <1>1 DEF IndividualRecord, Rescored, Same, Current

(* A measured individual is valid and its score is that of all its runs. *)
LEMMA MeasuredFacts ==
    ASSUME NEW x \in IndividualRecord
    PROVE  LET y == Measured(x) IN
           /\ y \in IndividualRecord /\ Same(x, y)
           /\ y.illegal = x.illegal /\ y.valid /\ y.stuck = x.stuck /\ y.runs = x.runs
           /\ Current(y) /\ y.score.n = Len(y.runs)
           /\ y.attempts = x.attempts /\ y.duration = x.duration
<1> DEFINE z == Rescored(x)
<1>1. /\ z \in IndividualRecord /\ Same(x, z)
      /\ z.illegal = x.illegal /\ z.valid = x.valid /\ z.stuck = x.stuck /\ z.runs = x.runs
      /\ Current(z) /\ z.score.n = Len(z.runs)
      /\ z.attempts = x.attempts /\ z.duration = x.duration
    BY RescoredFacts
<1>2. Measured(x) = [z EXCEPT !.valid = TRUE]
    BY DEF Measured
<1> HIDE DEF z
<1> QED BY <1>1, <1>2 DEF IndividualRecord, Same, Current

(* What an evaluate attempt with outcome o makes of the individual x. *)
EvaluateStep(x, y, o) ==
    /\ y \in IndividualRecord /\ Same(x, y)
    /\ \/ /\ o = "SKIPPED" /\ ~x.fits
          /\ y.illegal /\ ~y.valid /\ y.stuck = x.stuck /\ y.runs = x.runs /\ y.score.n = 0
          /\ y.attempts = x.attempts
       \/ /\ o = "CONSUMED" /\ x.fits
          /\ y.illegal = x.illegal /\ ~y.valid /\ (x.stuck => y.stuck) /\ y.runs = x.runs /\ y.score.n = 0
          /\ y.attempts = x.attempts + 1
       \/ /\ o = "FLAKE" /\ x.fits /\ SameResult(x, y) /\ y.attempts = x.attempts + 1
       \/ /\ o = "CONSUMED" /\ x.fits
          /\ y.illegal = x.illegal /\ y.valid /\ Current(y) /\ y.score.n = Len(y.runs)
          /\ y.attempts = x.attempts + 1
          /\ \E run \in Run : y.runs = Append(x.runs, run) /\ y.stuck = (x.stuck \/ ~run.goal)

(* A flight that did not crash is a run. *)
LEMMA RunOfFlight ==
    ASSUME NEW run \in Flights \union {Crash}, run # Crash
    PROVE  run \in Run
BY DEF Run

(* What evaluate may do to an individual, and with which outcome. *)
LEMMA EvaluateFacts ==
    ASSUME NEW x \in IndividualRecord, NEW run \in Flights \union {Crash}, NEW w \in WallClock
    PROVE  EvaluateStep(x, EvaluateResult(x, run, w).ind, EvaluateResult(x, run, w).outcome)
<1> DEFINE t == Tried(x, w)
           u == Unmeasured(t)
<1>0. w \in Nat /\ x.fits \in BOOLEAN /\ x.stuck \in BOOLEAN
    BY RecordFields
<1>t. t \in IndividualRecord /\ Same(x, t) /\ SameResult(x, t) /\ t.attempts = x.attempts + 1
    BY <1>0, TriedFacts
<1>u. /\ u \in IndividualRecord /\ Same(t, u)
      /\ u.illegal = t.illegal /\ ~u.valid /\ u.stuck = t.stuck /\ u.runs = t.runs /\ u.score.n = 0
      /\ u.attempts = t.attempts
    BY <1>t, UnmeasuredFacts
<1>1. CASE ~x.fits
    <2> DEFINE y == Unusable(x)
    <2>1. EvaluateResult(x, run, w).ind = y /\ EvaluateResult(x, run, w).outcome = "SKIPPED"
        BY <1>1 DEF EvaluateResult, Result
    <2>2. /\ y \in IndividualRecord /\ Same(x, y)
          /\ y.illegal /\ ~y.valid /\ y.stuck = x.stuck /\ y.runs = x.runs /\ y.score.n = 0
          /\ y.attempts = x.attempts
        BY UnusableFacts
    <2> HIDE DEF y
    <2> QED BY <1>1, <2>1, <2>2 DEF EvaluateStep
<1>2. CASE x.fits /\ Killed(w)
    <2> DEFINE y == MarkedStuck(u)
    <2>1. EvaluateResult(x, run, w).ind = y /\ EvaluateResult(x, run, w).outcome = "CONSUMED"
        BY <1>2 DEF EvaluateResult, Result
    <2>2. /\ y \in IndividualRecord /\ Same(u, y)
          /\ y.illegal = u.illegal /\ y.valid = u.valid /\ y.stuck /\ y.runs = u.runs /\ y.score = u.score
          /\ y.attempts = u.attempts
        BY <1>u, MarkedStuckFacts
    <2> HIDE DEF y, u, t
    <2> QED BY <1>2, <1>t, <1>u, <2>1, <2>2 DEF EvaluateStep, Same, SameResult
<1>3. CASE x.fits /\ ~Killed(w) /\ run = Crash
    <2>1. EvaluateResult(x, run, w).ind = u /\ EvaluateResult(x, run, w).outcome = "CONSUMED"
        BY <1>3 DEF EvaluateResult, Result
    <2> HIDE DEF u, t
    <2> QED BY <1>3, <1>t, <1>u, <2>1 DEF EvaluateStep, Same, SameResult
<1>4. CASE x.fits /\ ~Killed(w) /\ run # Crash
    <2>0. run \in Run
        BY <1>4, RunOfFlight
    <2> DEFINE f == Flown(t, run)
               y == Measured(f)
    <2>1. EvaluateResult(x, run, w) = IF IsFlake(run) THEN Result("FLAKE", t) ELSE Result("CONSUMED", y)
        BY <1>4 DEF EvaluateResult
    <2>2. /\ f \in IndividualRecord /\ Same(t, f)
          /\ f.illegal = t.illegal /\ f.stuck = (t.stuck \/ ~run.goal)
          /\ f.runs = Append(t.runs, run) /\ f.attempts = t.attempts
        BY <1>t, <2>0, FlownFacts
    <2>3. /\ y \in IndividualRecord /\ Same(f, y)
          /\ y.illegal = f.illegal /\ y.valid /\ y.stuck = f.stuck /\ y.runs = f.runs
          /\ Current(y) /\ y.score.n = Len(y.runs) /\ y.attempts = f.attempts
        BY <2>2, MeasuredFacts
    <2> HIDE DEF y, f, t, u
    <2>4. CASE IsFlake(run)
        <3>1. EvaluateResult(x, run, w).ind = t /\ EvaluateResult(x, run, w).outcome = "FLAKE"
            BY <2>1, <2>4 DEF Result
        <3> QED BY <1>4, <1>t, <3>1 DEF EvaluateStep
    <2>5. CASE ~IsFlake(run)
        <3>1. EvaluateResult(x, run, w).ind = y /\ EvaluateResult(x, run, w).outcome = "CONSUMED"
            BY <2>1, <2>5 DEF Result
        <3>2. Same(x, y) /\ y.illegal = x.illegal /\ y.attempts = x.attempts + 1
              /\ y.runs = Append(x.runs, run) /\ y.stuck = (x.stuck \/ ~run.goal)
            BY <1>t, <2>2, <2>3 DEF Same, SameResult
        <3> QED BY <1>4, <2>0, <2>3, <3>1, <3>2 DEF EvaluateStep
    <2> QED BY <2>4, <2>5
<1> QED BY <1>0, <1>1, <1>2, <1>3, <1>4

(* What a rerun with outcome o makes of the individual x. *)
RerunStep(x, y, o) ==
    /\ y \in IndividualRecord /\ Same(x, y) /\ y.attempts = x.attempts
    /\ \/ o = "FLAKE" /\ SameResult(x, y)
       \/ /\ o = "CONSUMED"
          /\ y.illegal = x.illegal /\ y.valid = x.valid /\ y.score = x.score /\ (x.stuck => y.stuck)
          /\ \E run \in Run : y.runs = Append(x.runs, run) /\ (~y.stuck => run.goal \/ run.d = FAIL_SENTINEL)

(* What rerun may do to an individual, and with which outcome. *)
LEMMA RerunFacts ==
    ASSUME NEW x \in IndividualRecord, NEW run \in Flights \union {Crash}, NEW w \in WallClock,
           killAfter \in Nat
    PROVE  RerunStep(x, RerunResult(x, run, w).ind, RerunResult(x, run, w).outcome)
<1> DEFINE t == Timed(x, w)
           s == WithRun(t, FailSentinel)
<1>0. w \in Nat /\ x.stuck \in BOOLEAN
    BY RecordFields
<1>t. t \in IndividualRecord /\ Same(x, t) /\ SameResult(x, t) /\ t.attempts = x.attempts
    BY <1>0, TimedFacts
<1>f. FailSentinel \in Run /\ FailSentinel.d = FAIL_SENTINEL
    BY DEF FailSentinel, Run, FAIL_SENTINEL, MaxOf
<1>s. /\ s \in IndividualRecord /\ Same(t, s)
      /\ s.illegal = t.illegal /\ s.valid = t.valid /\ s.stuck = t.stuck
      /\ s.runs = Append(t.runs, FailSentinel) /\ s.score = t.score /\ s.attempts = t.attempts
    BY <1>t, <1>f, WithRunFacts
<1>1. CASE Killed(w)
    <2> DEFINE y == MarkedStuck(s)
    <2>1. RerunResult(x, run, w).ind = y /\ RerunResult(x, run, w).outcome = "CONSUMED"
        BY <1>1 DEF RerunResult, Result
    <2>2. /\ y \in IndividualRecord /\ Same(s, y)
          /\ y.illegal = s.illegal /\ y.valid = s.valid /\ y.stuck /\ y.runs = s.runs /\ y.score = s.score
          /\ y.attempts = s.attempts
        BY <1>s, MarkedStuckFacts
    <2> HIDE DEF y, s, t
    <2> QED BY <1>t, <1>f, <1>s, <2>1, <2>2 DEF RerunStep, Same, SameResult
<1>2. CASE ~Killed(w) /\ run = Crash
    <2>1. RerunResult(x, run, w).ind = s /\ RerunResult(x, run, w).outcome = "CONSUMED"
        BY <1>2 DEF RerunResult, Result
    <2> HIDE DEF s, t
    <2> QED BY <1>t, <1>f, <1>s, <2>1 DEF RerunStep, Same, SameResult
<1>3. CASE ~Killed(w) /\ run # Crash
    <2>0. run \in Run
        BY <1>3, RunOfFlight
    <2> DEFINE y == Flown(t, run)
    <2>1. RerunResult(x, run, w) = IF IsFlake(run) THEN Result("FLAKE", t) ELSE Result("CONSUMED", y)
        BY <1>3 DEF RerunResult
    <2>2. /\ y \in IndividualRecord /\ Same(t, y)
          /\ y.illegal = t.illegal /\ y.valid = t.valid /\ y.stuck = (t.stuck \/ ~run.goal)
          /\ y.runs = Append(t.runs, run) /\ y.score = t.score /\ y.attempts = t.attempts
        BY <1>t, <2>0, FlownFacts
    <2> HIDE DEF y, s, t
    <2>4. CASE IsFlake(run)
        <3>1. RerunResult(x, run, w).ind = t /\ RerunResult(x, run, w).outcome = "FLAKE"
            BY <2>1, <2>4 DEF Result
        <3> QED BY <1>t, <3>1 DEF RerunStep
    <2>5. CASE ~IsFlake(run)
        <3>1. RerunResult(x, run, w).ind = y /\ RerunResult(x, run, w).outcome = "CONSUMED"
            BY <2>1, <2>5 DEF Result
        <3>2. /\ Same(x, y) /\ y.attempts = x.attempts /\ y.illegal = x.illegal /\ y.valid = x.valid
              /\ y.score = x.score /\ y.runs = Append(x.runs, run) /\ y.stuck = (x.stuck \/ ~run.goal)
            BY <1>t, <2>2 DEF Same, SameResult
        <3>3. run.goal \in BOOLEAN
            BY <2>0 DEF Run
        <3> QED BY <1>0, <2>0, <2>2, <3>1, <3>2, <3>3 DEF RerunStep
    <2> QED BY <2>4, <2>5
<1> QED BY <1>1, <1>2, <1>3

-----------------------------------------------------------------------------
(* The lists generate makes of its population and of its results. *)

(* The population is a list of individuals. *)
LEMMA PopIsList ==
    ASSUME NEW D, NEW p \in [Slot -> D]
    PROVE  p \in Seq(D) /\ DOMAIN p = Slot
BY Sizes DEF Slot

(* A selection l of the elements of s at the positions S. *)
Selects(l, s, S) ==
    /\ DOMAIN l = 1..Cardinality(S) /\ Cardinality(S) \in Nat
    /\ \A n \in DOMAIN l : Nth(S, n) \in S /\ l[n] = s[Nth(S, n)]
    /\ \A i \in S : \E n \in DOMAIN l : l[n] = s[i]
    /\ Range(l) = {s[i] : i \in S}
    /\ (\A i, j \in S : s[i] = s[j] => i = j) => \A m, n \in DOMAIN l : l[m] = l[n] => m = n

(* The sublist at the positions S holds the elements at those positions,   *)
(* each once.                                                              *)
LEMMA AtMembers ==
    ASSUME NEW T, NEW s \in Seq(T), NEW S \in SUBSET (DOMAIN s)
    PROVE  At(s, S) \in Seq(T) /\ Selects(At(s, S), s, S)
<1>1. /\ At(s, S) \in Seq(T) /\ Len(At(s, S)) = Cardinality(S) /\ IsFiniteSet(S) /\ Cardinality(S) \in Nat
      /\ \A n \in 1..Cardinality(S) : Nth(S, n) \in S /\ At(s, S)[n] = s[Nth(S, n)]
    BY AtIsList
<1>2. DOMAIN At(s, S) = 1..Cardinality(S)
    BY DEF At
<1>3. S \in SUBSET Nat
    BY ListElements
<1>4. ASSUME NEW i \in S PROVE \E n \in DOMAIN At(s, S) : At(s, S)[n] = s[i]
    <2>1. RankIn(S, i) \in 1..Cardinality(S) /\ Nth(S, RankIn(S, i)) = i
        BY <1>1, <1>3, NthOfRank
    <2> QED BY <2>1, <1>1, <1>2
<1>5. Range(At(s, S)) = {s[i] : i \in S}
    BY <1>1, <1>2, <1>4 DEF Range
<1>6. ASSUME \A i, j \in S : s[i] = s[j] => i = j,
             NEW m \in DOMAIN At(s, S), NEW n \in DOMAIN At(s, S), At(s, S)[m] = At(s, S)[n]
      PROVE  m = n
    <2>1. Nth(S, m) = Nth(S, n)
        BY <1>1, <1>2, <1>6
    <2>2. RankIn(S, Nth(S, m)) = m /\ RankIn(S, Nth(S, n)) = n
        BY <1>1, <1>2, <1>3, NthIn
    <2> QED BY <2>1, <2>2
<1> QED BY <1>1, <1>2, <1>4, <1>5, <1>6 DEF Selects

(* The rounds of reruns: a list for every number of rounds. *)
IsRounds(f, N, A) == f = [r \in 0..N |-> IF r = 0 THEN <<>> ELSE f[r - 1] \o A[r - 1]]

(* The list of reruns that grows round by round exists, for every number   *)
(* of rounds.                                                              *)
LEMMA RoundsExist ==
    ASSUME NEW A, NEW N \in Nat
    PROVE  \E f : IsRounds(f, N, A)
<1> DEFINE T == {n \in Nat : \E f : IsRounds(f, n, A)}
<1>1. 0 \in T
    <2> DEFINE f == [r \in 0..0 |-> <<>>]
    <2>1. IsRounds(f, 0, A)
        BY DEF IsRounds
    <2> QED BY <2>1
<1>2. ASSUME NEW n \in T PROVE n + 1 \in T
    <2>1. n \in Nat
        OBVIOUS
    <2>2. PICK f : IsRounds(f, n, A)
        OBVIOUS
    <2> DEFINE g == [r \in 0..(n + 1) |-> IF r <= n THEN f[r] ELSE f[n] \o A[n]]
    <2>3. ASSUME NEW r \in 0..(n + 1)
          PROVE  g[r] = IF r = 0 THEN <<>> ELSE g[r - 1] \o A[r - 1]
        <3>1. CASE r <= n
            <4>1. r \in 0..n /\ g[r] = f[r]
                BY <2>1, <3>1
            <4>2. f[r] = IF r = 0 THEN <<>> ELSE f[r - 1] \o A[r - 1]
                BY <2>2, <4>1 DEF IsRounds
            <4>3. r # 0 => r - 1 \in 0..(n + 1) /\ r - 1 <= n
                BY <2>1, <4>1
            <4>4. r # 0 => g[r - 1] = f[r - 1]
                BY <4>3
            <4> HIDE DEF g
            <4> QED BY <4>1, <4>2, <4>4
        <3>2. CASE r = n + 1
            <4>1. r # 0 /\ r - 1 = n /\ n \in 0..(n + 1) /\ n <= n /\ ~(r <= n)
                BY <2>1, <3>2
            <4>2. g[n] = f[n] /\ g[r] = f[n] \o A[n]
                BY <4>1
            <4> HIDE DEF g
            <4> QED BY <4>1, <4>2
        <3> QED BY <2>1, <3>1, <3>2
    <2>4. DOMAIN g = 0..(n + 1) /\ g = [r \in 0..(n + 1) |-> g[r]]
        OBVIOUS
    <2> HIDE DEF g
    <2>5. IsRounds(g, n + 1, A)
        BY <2>3, <2>4 DEF IsRounds
    <2> QED BY <2>1, <2>5
<1>3. T = Nat
    <2> HIDE DEF T
    <2>1. T \in SUBSET Nat
        BY DEF T
    <2> QED BY <1>1, <1>2, <2>1, CountingUp
<1> QED BY <1>3

(* Which tests are due for a rerun in a round, and the jobs they make. *)
Due(s, r) == {n \in DOMAIN s : Len(heap[s[n]].runs) - 1 <= r}
RoundJobs(s) == [r \in 0..NReruns |-> At(s, Due(s, r))]

(* The jobs of refinement are the first Phase2Budget of those rounds. *)
LEMMA RerunRounds ==
    ASSUME NEW s
    PROVE  \E f : IsRounds(f, NReruns, RoundJobs(s)) /\ RerunJobs(s) = Prefix(f[NReruns], Phase2Budget)
<1> DEFINE due(r) == {n \in DOMAIN s : Len(heap[s[n]].runs) - 1 <= r}
           f == CHOOSE g : g = [r \in 0..NReruns |-> IF r = 0 THEN <<>> ELSE g[r - 1] \o At(s, due(r - 1))]
<1>1. RerunJobs(s) = Prefix(f[NReruns], Phase2Budget)
    BY DEF RerunJobs
<1>2. \A g : IsRounds(g, NReruns, RoundJobs(s)) <=>
             g = [r \in 0..NReruns |-> IF r = 0 THEN <<>> ELSE g[r - 1] \o At(s, due(r - 1))]
    <2> TAKE g
    <2>1. \A r \in 0..NReruns : r # 0 => RoundJobs(s)[r - 1] = At(s, due(r - 1))
        BY DEF RoundJobs, Due
    <2> HIDE DEF due
    <2> QED BY <2>1 DEF IsRounds
<1>3. \E g : IsRounds(g, NReruns, RoundJobs(s))
    BY RoundsExist
<1>4. IsRounds(f, NReruns, RoundJobs(s))
    BY <1>2, <1>3
<1> QED BY <1>1, <1>4

(* What the rounds keep from one to the next holds of the last. *)
LEMMA RoundsKeep ==
    ASSUME NEW N \in Nat, NEW T \in SUBSET Nat, \A r \in Nat : r > N => r \in T,
           0 \in T, \A r \in 0..(N - 1) : r \in T => r + 1 \in T
    PROVE  N \in T
<1>1. \A r \in T : r + 1 \in T
    <2> TAKE r \in T
    <2>1. r \in Nat /\ r + 1 \in Nat
        OBVIOUS
    <2>2. CASE r + 1 <= N
        BY <2>1, <2>2
    <2>3. CASE ~(r + 1 <= N)
        BY <2>1, <2>3
    <2> QED BY <2>2, <2>3
<1>2. T \in SUBSET Nat
    OBVIOUS
<1>3. T = Nat
    BY <1>1, <1>2, CountingUp
<1> QED BY <1>3

(* The rerun jobs are tests of the suite. *)
LEMMA RerunJobsType ==
    ASSUME NEW D, NEW s \in Seq(D)
    PROVE  RerunJobs(s) \in Seq(D)
<1>1. PICK f : IsRounds(f, NReruns, RoundJobs(s)) /\ RerunJobs(s) = Prefix(f[NReruns], Phase2Budget)
    BY RerunRounds
<1>2. \A r \in 0..NReruns : RoundJobs(s)[r] \in Seq(D)
    <2> TAKE r \in 0..NReruns
    <2>1. Due(s, r) \in SUBSET DOMAIN s
        BY DEF Due
    <2>2. At(s, Due(s, r)) \in Seq(D)
        BY <2>1, AtMembers
    <2> QED BY <2>2 DEF RoundJobs
<1> DEFINE T == {r \in Nat : r <= NReruns => f[r] \in Seq(D)}
<1>3. 0 \in T
    <2>1. f[0] = <<>> /\ <<>> \in Seq(D)
        BY <1>1 DEF IsRounds
    <2>2. f[0] \in Seq(D)
        BY <2>1
    <2> QED BY <2>2
<1>4. ASSUME NEW r \in 0..(NReruns - 1), r \in T PROVE r + 1 \in T
    <2>1. r + 1 \in 0..NReruns /\ r \in 0..NReruns /\ (r + 1) - 1 = r /\ r + 1 # 0
        OBVIOUS
    <2>2. f[r + 1] = f[r] \o RoundJobs(s)[r]
        BY <1>1, <2>1 DEF IsRounds
    <2>3. f[r] \in Seq(D) /\ RoundJobs(s)[r] \in Seq(D)
        BY <1>2, <1>4, <2>1
    <2> DEFINE a == f[r]
               b == RoundJobs(s)[r]
    <2>4. a \o b \in Seq(D)
        <3> HIDE DEF a, b
        <3>1. a \in Seq(D) /\ b \in Seq(D)
            BY <2>3 DEF a, b
        <3> QED BY <3>1, Joined
    <2>5. f[r + 1] \in Seq(D) /\ r + 1 \in Nat
        BY <2>1, <2>2, <2>4
    <2> HIDE DEF a, b
    <2> QED BY <2>5
<1>5. NReruns \in T
    <2>1. T \in SUBSET Nat /\ \A r \in Nat : r > NReruns => r \in T
        OBVIOUS
    <2> HIDE DEF T
    <2> QED BY <2>1, <1>3, <1>4, RoundsKeep
<1>6. f[NReruns] \in Seq(D)
    BY <1>5
<1> DEFINE l == f[NReruns]
           P == {i \in 1..Phase2Budget : i \in DOMAIN l}
<1> HIDE DEF l
<1>7. l \in Seq(D) /\ P \in SUBSET DOMAIN l
    BY <1>6 DEF l
<1>8. At(l, P) \in Seq(D)
    BY <1>7, AtMembers
<1> QED BY <1>1, <1>8 DEF Prefix, l

-----------------------------------------------------------------------------
(* The selected suite. *)

(* The evaluated list after a round: the old entries, then the newly valid *)
(* ones.                                                                   *)
LEMMA EvaluatedFacts ==
    ASSUME TypeOK, ScoresOfRuns, NEW n \in DOMAIN evaluated
    PROVE  /\ evaluated[n] \in DOMAIN heap
           /\ heap[evaluated[n]] \in IndividualRecord
           /\ heap[evaluated[n]].score.n <= Len(heap[evaluated[n]].runs)
<1>1. evaluated[n] \in DOMAIN heap /\ heap \in Seq(IndividualRecord)
    BY ListElements DEF TypeOK
<1>2. heap[evaluated[n]] \in IndividualRecord
    BY <1>1, ListElements
<1> QED BY <1>1, <1>2 DEF ScoresOfRuns

RankOrder == {x \in (DOMAIN evaluated) \X (DOMAIN evaluated) : RanksBefore(x[1], x[2])}

(* The stable sort by officialRank orders every part of evaluated. *)
LEMMA ResultsSorted ==
    ASSUME TypeOK, ScoresOfRuns, NEW S \in SUBSET DOMAIN evaluated
    PROVE  /\ IsFiniteSet(S)
           /\ StrictTotalOrder(RankOrder, S)
           /\ \A k \in S : Before(RankOrder, S, k) = {j \in S : RanksBefore(j, k)}
<1> DEFINE D == DOMAIN evaluated
           key == [k \in D |-> officialRank(heap[evaluated[k]])]
           before(i, j) == KeyBelow(key[i], key[j]) \/ (~KeyBelow(key[j], key[i]) /\ i < j)
           R == {x \in D \X D : before(x[1], x[2])}
<1>1. key \in [D -> Key(2)]
    BY EvaluatedFacts, KeyType
<1>2. D \in SUBSET Nat /\ IsFiniteSet(S)
    <2>1. D = 1..Len(evaluated) /\ Len(evaluated) \in Nat
        BY ListElements DEF TypeOK
    <2>2. IsFiniteSet(D)
        BY <2>1, FS_Interval
    <2> QED BY <2>1, <2>2, FS_Subset
<1>3. R = RankOrder
    <2>1. \A i, j \in D : before(i, j) <=> RanksBefore(i, j)
        BY DEF RanksBefore
    <2> HIDE DEF before, D
    <2>2. RankOrder = {x \in D \X D : RanksBefore(x[1], x[2])}
        BY DEF RankOrder, D
    <2>3. \A x \in D \X D : x[1] \in D /\ x[2] \in D
        OBVIOUS
    <2> QED BY <2>1, <2>2, <2>3
<1>4. StrictTotalOrder(R, D)
    <2> HIDE DEF key, D
    <2> QED BY <1>1, <1>2, StableOrder
<1>5. StrictTotalOrder(RankOrder, S)
    BY <1>3, <1>4 DEF StrictTotalOrder
<1>6. \A k \in S : Before(RankOrder, S, k) = {j \in S : RanksBefore(j, k)}
    <2> HIDE DEF D
    <2>1. RankOrder = {x \in D \X D : RanksBefore(x[1], x[2])} /\ S \subseteq D
        BY DEF RankOrder, D
    <2>2. \A j, k \in S : <<j, k>> \in RankOrder <=> RanksBefore(j, k)
        BY <2>1
    <2> QED BY <2>2 DEF Before
<1> QED BY <1>2, <1>5, <1>6

(* The list of a part of evaluated, best first: its elements, each once.   *)
LEMMA BestFirstFacts ==
    ASSUME TypeOK, ScoresOfRuns, NEW S \in SUBSET DOMAIN evaluated
    PROVE  /\ BestFirst(S) \in Seq(DOMAIN heap) /\ Len(BestFirst(S)) = Cardinality(S)
           /\ \A r \in DOMAIN BestFirst(S) : \E n \in S : BestFirst(S)[r] = evaluated[n]
           /\ (\A m, n \in S : evaluated[m] = evaluated[n] => m = n) =>
                  \A q, r \in DOMAIN BestFirst(S) : BestFirst(S)[q] = BestFirst(S)[r] => q = r
<1> DEFINE c == Cardinality(S)
           at(r) == CHOOSE n \in S : Cardinality({m \in S : RanksBefore(m, n)}) = r - 1
           b == BestFirst(S)
<1>1. /\ IsFiniteSet(S) /\ StrictTotalOrder(RankOrder, S)
      /\ \A k \in S : Before(RankOrder, S, k) = {j \in S : RanksBefore(j, k)}
    BY ResultsSorted
<1>2. c \in Nat
    BY <1>1, FS_CardinalityType
<1>3. ASSUME NEW r \in 1..c
      PROVE  at(r) \in S /\ Cardinality({m \in S : RanksBefore(m, at(r))}) = r - 1
    <2>1. PICK x \in S : Cardinality(Before(RankOrder, S, x)) = r - 1
        BY <1>1, EveryPlace
    <2>2. \E n \in S : Cardinality({m \in S : RanksBefore(m, n)}) = r - 1
        BY <1>1, <2>1
    <2> QED BY <2>2
<1>4. b = [r \in 1..c |-> evaluated[at(r)]]
    BY DEF BestFirst
<1> HIDE DEF b, at, c
<1>5. \A r \in 1..c : at(r) \in S /\ b[r] = evaluated[at(r)] /\ b[r] \in DOMAIN heap
    BY <1>3, <1>4, EvaluatedFacts
<1>6. b \in Seq(DOMAIN heap) /\ Len(b) = c /\ DOMAIN b = 1..c
    <2>1. b = [r \in 1..c |-> b[r]]
        BY <1>4
    <2> DEFINE D == DOMAIN heap
    <2> HIDE DEF D
    <2>2. \A r \in 1..c : b[r] \in D
        BY <1>5 DEF D
    <2>3. b \in Seq(D)
        BY <1>2, <2>1, <2>2, ListOf
    <2>4. DOMAIN b = 1..c
        BY <2>1
    <2>5. Len(b) = c
        BY <1>2, <2>3, <2>4
    <2> QED BY <2>3, <2>4, <2>5 DEF D
<1>7. ASSUME \A m, n \in S : evaluated[m] = evaluated[n] => m = n,
             NEW q \in 1..c, NEW r \in 1..c, b[q] = b[r]
      PROVE  q = r
    <2>1. at(q) = at(r)
        BY <1>5, <1>7
    <2>2. q - 1 = r - 1
        BY <1>3, <2>1
    <2> QED BY <1>2, <2>2
<1> QED BY <1>5, <1>6, <1>7 DEF b, c

(* What selectSuite may return. *)
LEMMA SuiteFacts ==
    ASSUME TypeOK, ScoresOfRuns, NEW s \in Suites
    PROVE  /\ s \in Seq(DOMAIN heap) /\ Len(s) <= TopK
           /\ \A r \in DOMAIN s : \E n \in Eligible : s[r] = evaluated[n]
           /\ (\A m, n \in DOMAIN evaluated : evaluated[m] = evaluated[n] => m = n) =>
                  \A q, r \in DOMAIN s : s[q] = s[r] => q = r
<1>1. PICK S \in SUBSET Eligible : Cardinality(S) <= TopK /\ s = BestFirst(S)
    BY DEF Suites
<1>2. S \in SUBSET DOMAIN evaluated
    BY DEF Eligible
<1>3. /\ BestFirst(S) \in Seq(DOMAIN heap) /\ Len(BestFirst(S)) = Cardinality(S)
      /\ \A r \in DOMAIN BestFirst(S) : \E n \in S : BestFirst(S)[r] = evaluated[n]
      /\ (\A m, n \in S : evaluated[m] = evaluated[n] => m = n) =>
             \A q, r \in DOMAIN BestFirst(S) : BestFirst(S)[q] = BestFirst(S)[r] => q = r
    BY <1>2, BestFirstFacts
<1> QED BY <1>1, <1>2, <1>3

(* The promising part of a suite. *)
LEMMA PromisingFacts ==
    ASSUME TypeOK, ScoresOfRuns, NEW s \in Suites
    PROVE  /\ PromisingIn(s) \in Seq(DOMAIN heap)
           /\ \A r \in DOMAIN PromisingIn(s) : \E n \in Eligible : PromisingIn(s)[r] = evaluated[n]
           /\ (\A m, n \in DOMAIN evaluated : evaluated[m] = evaluated[n] => m = n) =>
                  \A q, r \in DOMAIN PromisingIn(s) : PromisingIn(s)[q] = PromisingIn(s)[r] => q = r
<1> DEFINE S == {n \in DOMAIN s : heap[s[n]].runs # <<>> /\ heap[s[n]].runs[1].d < RefineThreshold}
<1>1. /\ s \in Seq(DOMAIN heap)
      /\ \A r \in DOMAIN s : \E n \in Eligible : s[r] = evaluated[n]
      /\ (\A m, n \in DOMAIN evaluated : evaluated[m] = evaluated[n] => m = n) =>
             \A q, r \in DOMAIN s : s[q] = s[r] => q = r
    BY SuiteFacts
<1>2. S \in SUBSET DOMAIN s /\ PromisingIn(s) = At(s, S)
    BY DEF PromisingIn
<1> HIDE DEF S
<1>3. /\ At(s, S) \in Seq(DOMAIN heap)
      /\ \A n \in DOMAIN At(s, S) : Nth(S, n) \in S /\ At(s, S)[n] = s[Nth(S, n)]
      /\ (\A i, j \in S : s[i] = s[j] => i = j) =>
             \A m, n \in DOMAIN At(s, S) : At(s, S)[m] = At(s, S)[n] => m = n
    BY <1>1, <1>2, AtMembers DEF Selects
<1>4. ASSUME NEW r \in DOMAIN At(s, S) PROVE \E n \in Eligible : At(s, S)[r] = evaluated[n]
    <2> DEFINE i == Nth(S, r)
    <2>1. i \in S /\ At(s, S)[r] = s[i]
        BY <1>3
    <2> HIDE DEF i
    <2>2. i \in DOMAIN s
        BY <1>2, <2>1
    <2>3. PICK n \in Eligible : s[i] = evaluated[n]
        BY <1>1, <2>2
    <2> QED BY <2>1, <2>3
<1> QED BY <1>1, <1>2, <1>3, <1>4

-----------------------------------------------------------------------------
(***************************************************************************)
(* What the steps do to the individuals.                                   *)
(***************************************************************************)

(* One individual is replaced. *)
LEMMA UpdatedHeap ==
    ASSUME heap \in Seq(IndividualRecord), NEW x \in DOMAIN heap, NEW y \in IndividualRecord,
           NEW h, h = [heap EXCEPT ![x] = y]
    PROVE  /\ h \in Seq(IndividualRecord) /\ DOMAIN h = DOMAIN heap /\ h[x] = y
           /\ \A z \in DOMAIN heap \ {x} : h[z] = heap[z]
<1> DEFINE R == IndividualRecord
<1>1. heap \in Seq(R) /\ y \in R
    OBVIOUS
<1> HIDE DEF R
<1>2. h \in Seq(R)
    BY <1>1
<1> QED BY <1>2 DEF R

(* The individuals of a set are rescored. *)
LEMMA RescoredHeap ==
    ASSUME heap \in Seq(IndividualRecord), NEW S, NEW h,
           h = [x \in DOMAIN heap |-> IF x \in S THEN Rescored(heap[x]) ELSE heap[x]]
    PROVE  /\ h \in Seq(IndividualRecord) /\ DOMAIN h = DOMAIN heap
           /\ \A x \in DOMAIN heap : x \in S => h[x] = Rescored(heap[x])
           /\ \A x \in DOMAIN heap : x \notin S => h[x] = heap[x]
<1> DEFINE R == IndividualRecord
           v(x) == IF x \in S THEN Rescored(heap[x]) ELSE heap[x]
<1>1. DOMAIN heap = 1..Len(heap) /\ Len(heap) \in Nat /\ \A x \in DOMAIN heap : heap[x] \in R
    BY ListElements
<1>2. \A x \in DOMAIN heap : v(x) \in R
    BY <1>1, RescoredFacts
<1>3. h = [x \in 1..Len(heap) |-> v(x)]
    BY <1>1
<1> HIDE DEF R, v
<1>4. \A x \in 1..Len(heap) : h[x] = v(x) /\ h[x] \in R
    BY <1>1, <1>2, <1>3
<1>5. h = [x \in 1..Len(heap) |-> h[x]]
    BY <1>3
<1>6. h \in Seq(R)
    BY <1>1, <1>4, <1>5, ListOf
<1>7. DOMAIN h = DOMAIN heap
    BY <1>1, <1>3
<1> QED BY <1>1, <1>4, <1>6, <1>7 DEF R, v

(* A step that creates individuals for the slots in S: the old ones stay,  *)
(* and every new one is of its slot's niche and fits or is illegal.        *)
Grown(S) ==
    /\ heap' \in Seq(IndividualRecord)
    /\ DOMAIN heap \subseteq DOMAIN heap'
    /\ \A x \in DOMAIN heap : heap'[x] = heap[x]
    /\ \A x \in DOMAIN heap' \ DOMAIN heap : \E k \in S : x = pop'[k]
    /\ \A k \in S : /\ pop'[k] \notin DOMAIN heap
                    /\ \E legal \in BOOLEAN : heap'[pop'[k]] = NewIndividual(Counts[k], legal)
    /\ pop' \in [Slot -> DOMAIN heap']
    /\ \A j, k \in Slot : pop'[j] = pop'[k] => j = k

Scheduled(niche) == \A k \in Slot : niche[k] = Counts[k]

(* Breeding and replacing grow the population as Grown says. *)
LEMMA GrownFacts ==
    ASSUME heap \in Seq(IndividualRecord), NEW S \in SUBSET Slot,
           NEW legal \in [S -> BOOLEAN], NEW niche, Scheduled(niche),
           heap' = heap \o Fresh(S, niche, legal),
           NEW p \in [Slot -> DOMAIN heap], OneToOne(p, Slot \ S),
           pop' = WithFresh(p, S)
    PROVE  Grown(S) /\ \A k \in Slot \ S : pop'[k] = p[k]
<1>1. \A k \in Slot : niche[k] \in Niche
    BY CountsType DEF Scheduled
<1>2. Extended(heap \o Fresh(S, niche, legal), S, niche, legal)
    BY <1>1, ExtendedHeap
<1> DEFINE h == heap \o Fresh(S, niche, legal)
           q == WithFresh(p, S)
<1>3. h = heap' /\ q = pop'
    OBVIOUS
<1>4. Extended(h, S, niche, legal)
    BY <1>2
<1> HIDE DEF h, q
<1>5. /\ q \in [Slot -> DOMAIN h]
      /\ \A j, k \in Slot : q[j] = q[k] => j = k
      /\ \A k \in Slot \ S : q[k] = p[k] /\ h[q[k]] = heap[p[k]]
      /\ \A k \in S : q[k] \notin DOMAIN heap /\ h[q[k]] = NewIndividual(niche[k], legal[k])
      /\ \A x \in DOMAIN h \ DOMAIN heap : \E k \in S : x = q[k]
    <2>1. Renewed(q, p, S, h, niche, legal)
        BY <1>4, NewPopulation DEF q
    <2> QED BY <2>1 DEF Renewed, OneToOne
<1>6. /\ h \in Seq(IndividualRecord) /\ DOMAIN heap \subseteq DOMAIN h
      /\ \A x \in DOMAIN heap : h[x] = heap[x]
    BY <1>4 DEF Extended
<1>7. \A k \in S : legal[k] \in BOOLEAN /\ niche[k] = Counts[k]
    BY DEF Scheduled
<1>8. \A k \in S : \E l \in BOOLEAN : h[q[k]] = NewIndividual(Counts[k], l)
    BY <1>5, <1>7
<1>9. /\ heap' \in Seq(IndividualRecord) /\ DOMAIN heap \subseteq DOMAIN heap'
      /\ \A x \in DOMAIN heap : heap'[x] = heap[x]
      /\ \A x \in DOMAIN heap' \ DOMAIN heap : \E k \in S : x = pop'[k]
    BY <1>3, <1>5, <1>6
<1>10. /\ \A k \in S : /\ pop'[k] \notin DOMAIN heap
                       /\ \E l \in BOOLEAN : heap'[pop'[k]] = NewIndividual(Counts[k], l)
       /\ pop' \in [Slot -> DOMAIN heap']
       /\ \A j, k \in Slot : pop'[j] = pop'[k] => j = k
       /\ \A k \in Slot \ S : pop'[k] = p[k]
    BY <1>3, <1>5, <1>8
<1> QED BY <1>9, <1>10 DEF Grown

(* The next generation: elites keep their individual. *)
LEMMA BreedEffect ==
    ASSUME PopulationInv, Breed
    PROVE  /\ Grown(Slot \ EliteSlots)
           /\ \A k \in EliteSlots : pop'[k] = EliteFor(k)
           /\ EliteSlots \subseteq Slot
<1> DEFINE S == Slot \ EliteSlots
           p == [k \in Slot |-> IF k \in EliteSlots THEN EliteFor(k) ELSE pop[k]]
<1>0. EliteSlots \subseteq Slot
    BY DEF EliteSlots
<1>1. PICK legal \in ChildChoices(S) : heap' = heap \o Fresh(S, Counts, legal)
    BY DEF Breed
<1>2. legal \in [S -> BOOLEAN] /\ pop' = WithFresh(p, S)
    BY DEF Breed, ChildChoices
<1>3. /\ \A k \in EliteSlots : EliteFor(k) \in DOMAIN heap
      /\ \A j, k \in EliteSlots : EliteFor(j) = EliteFor(k) => j = k
    BY ElitesCarried
<1>4. \A k \in EliteSlots : p[k] = EliteFor(k)
    BY <1>0
<1>5. p \in [Slot -> DOMAIN heap]
    BY <1>0, <1>3 DEF PopulationInv, TypeOK
<1>6. heap \in Seq(IndividualRecord)
    BY DEF PopulationInv, TypeOK
<1> HIDE DEF p
<1>7. OneToOne(p, Slot \ S) /\ Scheduled(Counts)
    BY <1>3, <1>4 DEF OneToOne, Scheduled
<1>8. S \in SUBSET Slot
    OBVIOUS
<1> HIDE DEF S
<1>9. Grown(S) /\ \A k \in Slot \ S : pop'[k] = p[k]
    BY <1>1, <1>2, <1>5, <1>6, <1>7, <1>8, GrownFacts
<1> QED BY <1>0, <1>4, <1>9 DEF S

(* The end of a round: the slots given up on are reseeded. *)
LEMMA RoundEffect ==
    ASSUME BudgetInv, PopulationInv, RoundDone
    PROVE  /\ Grown(GivenUp) /\ GivenUp \in SUBSET Slot
           /\ \A k \in Slot \ GivenUp : pop'[k] = pop[k]
<1>1. candidates \subseteq Slot
    BY DEF BudgetInv, BooksOK
<1>2. GivenUp \in SUBSET Slot
    BY <1>1 DEF GivenUp
<1>3. PICK legal \in FreshChoices(GivenUp, NicheOfSlot) : heap' = heap \o Fresh(GivenUp, NicheOfSlot, legal)
    BY DEF RoundDone
<1>4. legal \in [GivenUp -> BOOLEAN] /\ pop' = WithFresh(pop, GivenUp)
    BY DEF RoundDone, FreshChoices
<1>5. \A k \in Slot : NicheOfSlot[k] = Counts[k]
    BY DEF NicheOfSlot, PopulationInv, NicheQuota
<1>6. heap \in Seq(IndividualRecord) /\ pop \in [Slot -> DOMAIN heap] /\ \A j, k \in Slot : pop[j] = pop[k] => j = k
    BY DEF PopulationInv, TypeOK, OwnSlots
<1>7. OneToOne(pop, Slot \ GivenUp) /\ Scheduled(NicheOfSlot)
    BY <1>5, <1>6 DEF OneToOne, Scheduled
<1>8. Grown(GivenUp) /\ \A k \in Slot \ GivenUp : pop'[k] = pop[k]
    <2> DEFINE S == GivenUp
               niche == NicheOfSlot
               p == pop
    <2>1. S \in SUBSET Slot /\ legal \in [S -> BOOLEAN]
        BY <1>2, <1>4
    <2>2. OneToOne(p, Slot \ S) /\ Scheduled(niche) /\ p \in [Slot -> DOMAIN heap]
        BY <1>6, <1>7
    <2>3. heap' = heap \o Fresh(S, niche, legal) /\ pop' = WithFresh(p, S) /\ heap \in Seq(IndividualRecord)
        BY <1>3, <1>4, <1>6
    <2> HIDE DEF S, niche, p
    <2>4. Grown(S) /\ \A k \in Slot \ S : pop'[k] = p[k]
        BY <2>1, <2>2, <2>3, GrownFacts
    <2> QED BY <2>4 DEF S, p
<1> QED BY <1>2, <1>8

(* A worker's attempt at position i of the wave, with outcome o, leaves y. *)
Attempted(i, o, y) ==
    /\ i \in DOMAIN wave /\ i \in DOMAIN pending /\ pending[i].job \in DOMAIN jobs
    /\ IndividualAt(i) \in DOMAIN heap /\ heap[IndividualAt(i)] \in IndividualRecord
    /\ o \in Outcome /\ y \in IndividualRecord
    /\ bpc = "wave" /\ wave[i] = "running" /\ wave' = [wave EXCEPT ![i] = o]
    /\ heap' \in Seq(IndividualRecord) /\ DOMAIN heap' = DOMAIN heap
    /\ heap'[IndividualAt(i)] = y
    /\ \A z \in DOMAIN heap \ {IndividualAt(i)} : heap'[z] = heap[z]
    /\ UNCHANGED <<jobs, attemptBudget, pending, attemptsUsed, bpc, pc>>
    /\ UNCHANGED searchVars
    /\ simulations' \in Nat /\ slowestGood' \in Nat

(* A pending item stands for an individual of the heap. *)
LEMMA JobIndividual ==
    ASSUME BudgetInv, PopulationInv, NEW i \in DOMAIN pending
    PROVE  /\ pending[i].job \in DOMAIN jobs
           /\ IndividualAt(i) \in DOMAIN heap
           /\ heap[IndividualAt(i)] \in IndividualRecord
<1>1. pending[i].job \in DOMAIN jobs /\ jobs \in Seq(DOMAIN heap) /\ heap \in Seq(IndividualRecord)
    BY DEF PopulationInv, PendingJobs, TypeOK
<1>2. jobs[pending[i].job] \in DOMAIN heap
    BY <1>1, ListElements
<1>3. heap[jobs[pending[i].job]] \in IndividualRecord
    BY <1>1, <1>2, ListElements
<1> QED BY <1>1, <1>2, <1>3 DEF IndividualAt

(* What an attempt changes: its own individual, its place in the wave, the *)
(* counters.                                                               *)
LEMMA AttemptEffect ==
    ASSUME BudgetInv, PopulationInv, NEW i \in DOMAIN wave, NEW run \in Flights \union {Crash}, NEW w \in WallClock,
           NEW result, result.outcome \in Outcome, result.ind \in IndividualRecord,
           Attempt(i, result, run, w)
    PROVE  Attempted(i, result.outcome, result.ind)
<1>1. i \in DOMAIN pending
    BY DEF BudgetInv, SchedulerInv, SchedulerOK
<1>2. /\ pending[i].job \in DOMAIN jobs /\ IndividualAt(i) \in DOMAIN heap
      /\ heap[IndividualAt(i)] \in IndividualRecord
    BY <1>1, JobIndividual
<1>3. heap' = [heap EXCEPT ![IndividualAt(i)] = result.ind] /\ heap \in Seq(IndividualRecord)
    BY DEF Attempt, PopulationInv, TypeOK
<1>4. /\ heap' \in Seq(IndividualRecord) /\ DOMAIN heap' = DOMAIN heap /\ heap'[IndividualAt(i)] = result.ind
      /\ \A z \in DOMAIN heap \ {IndividualAt(i)} : heap'[z] = heap[z]
    <2> DEFINE x == IndividualAt(i)
               y == result.ind
    <2>1. x \in DOMAIN heap /\ y \in IndividualRecord /\ heap' = [heap EXCEPT ![x] = y]
        BY <1>2, <1>3
    <2> HIDE DEF x, y
    <2>2. /\ heap' \in Seq(IndividualRecord) /\ DOMAIN heap' = DOMAIN heap /\ heap'[x] = y
          /\ \A z \in DOMAIN heap \ {x} : heap'[z] = heap[z]
        BY <1>3, <2>1, UpdatedHeap
    <2> QED BY <2>2 DEF x, y
<1>5. simulations' \in Nat /\ slowestGood' \in Nat
    <2>1. simulations \in Nat /\ slowestGood \in Nat /\ w \in Nat
        BY DEF PopulationInv, TypeOK
    <2>2. simulations' = simulations + (IF result.outcome = "SKIPPED" THEN 0 ELSE 1)
        BY DEF Attempt
    <2>3. slowestGood' \in {slowestGood, MaxOf(slowestGood, w)}
        BY DEF Attempt
    <2> QED BY <2>1, <2>2, <2>3 DEF MaxOf
<1>6. /\ bpc = "wave" /\ wave[i] = "running" /\ wave' = [wave EXCEPT ![i] = result.outcome]
      /\ UNCHANGED <<jobs, attemptBudget, pending, attemptsUsed, bpc, pc>> /\ UNCHANGED searchVars
    BY DEF Attempt, Settle
<1> HIDE DEF Attempt
<1> QED BY <1>1, <1>2, <1>4, <1>5, <1>6 DEF Attempted

(* An Evaluate step is an attempt that evaluates its individual. *)
LEMMA EvaluateEffect ==
    ASSUME BudgetInv, PopulationInv, Evaluate
    PROVE  /\ pc = "evaluate"
           /\ \E i, o, y : Attempted(i, o, y) /\ EvaluateStep(heap[IndividualAt(i)], y, o)
<1>1. PICK i \in DOMAIN wave, run \in Flights \union {Crash}, w \in WallClock :
          Attempt(i, EvaluateResult(heap[IndividualAt(i)], run, w), run, w)
    BY DEF Evaluate
<1> DEFINE x == heap[IndividualAt(i)]
           result == EvaluateResult(x, run, w)
<1>2. i \in DOMAIN pending
    BY DEF BudgetInv, SchedulerInv, SchedulerOK
<1>3. x \in IndividualRecord
    BY <1>2, JobIndividual
<1>4. EvaluateStep(x, result.ind, result.outcome) /\ result.outcome \in Outcome
    <2> HIDE DEF x
    <2> QED BY <1>3, EvaluateFacts, OutcomeOfEvaluate
<1>5. result.ind \in IndividualRecord
    BY <1>4 DEF EvaluateStep
<1>6. Attempt(i, result, run, w)
    BY <1>1
<1> HIDE DEF result
<1>7. Attempted(i, result.outcome, result.ind)
    BY <1>4, <1>5, <1>6, AttemptEffect
<1> QED BY <1>4, <1>7 DEF Evaluate

(* A Rerun step is an attempt that reruns its individual. *)
LEMMA RerunEffect ==
    ASSUME BudgetInv, PopulationInv, Rerun
    PROVE  /\ pc \in {"elites", "refine"}
           /\ \E i, o, y : Attempted(i, o, y) /\ RerunStep(heap[IndividualAt(i)], y, o)
<1>1. PICK i \in DOMAIN wave, run \in Flights \union {Crash}, w \in WallClock :
          Attempt(i, RerunResult(heap[IndividualAt(i)], run, w), run, w)
    BY DEF Rerun
<1> DEFINE x == heap[IndividualAt(i)]
           result == RerunResult(x, run, w)
<1>2. i \in DOMAIN pending
    BY DEF BudgetInv, SchedulerInv, SchedulerOK
<1>3. x \in IndividualRecord /\ killAfter \in Nat
    BY <1>2, JobIndividual DEF PopulationInv, TypeOK
<1>4. RerunStep(x, result.ind, result.outcome) /\ result.outcome \in Outcome
    <2> HIDE DEF x
    <2> QED BY <1>3, RerunFacts, OutcomeOfRerun
<1>5. result.ind \in IndividualRecord
    BY <1>4 DEF RerunStep
<1>6. Attempt(i, result, run, w)
    BY <1>1
<1> HIDE DEF result
<1>7. Attempted(i, result.outcome, result.ind)
    BY <1>4, <1>5, <1>6, AttemptEffect
<1> QED BY <1>4, <1>7 DEF Rerun

-----------------------------------------------------------------------------
(***************************************************************************)
(* The population stays well-formed.                                       *)
(***************************************************************************)

(* The first individuals: one per slot. *)
LEMMA InitHeap ==
    ASSUME Init
    PROVE  /\ heap = [k \in Slot |-> heap[k]]
           /\ \A k \in Slot : \E l \in BOOLEAN : heap[k] = NewIndividual(Counts[k], l)
<1> DEFINE P == PopulationSize
<1>1. PICK legal \in FreshChoices(Slot, Counts) : heap = Fresh(Slot, Counts, legal)
    BY DEF Init
<1>2. P \in Nat /\ Slot = 1..P /\ IsFiniteSet(Slot) /\ Slot \in SUBSET Nat
    BY Sizes DEF Slot
<1>3. Cardinality(Slot) = P
    BY <1>2, Initial
<1>4. \A k \in Slot : legal[k] \in BOOLEAN
    BY DEF FreshChoices
<1> HIDE DEF P
<1>5. ASSUME NEW k \in Slot PROVE Nth(Slot, k) = k
    <2>1. k \in 1..P /\ k \in Nat
        BY <1>2
    <2>2. {j \in Slot : j <= k} = 1..k
        BY <1>2, <2>1
    <2>3. Cardinality(1..k) = k
        BY <2>1, Initial
    <2>4. RankIn(Slot, k) = k
        BY <2>2, <2>3 DEF RankIn
    <2> QED BY <1>2, <2>4, NthOfRank
<1>6. heap = [n \in 1..P |-> NewIndividual(Counts[n], legal[n])]
    <2>1. heap = [n \in 1..P |-> NewIndividual(Counts[Nth(Slot, n)], legal[Nth(Slot, n)])]
        BY <1>1, <1>3 DEF Fresh
    <2> QED BY <1>2, <1>5, <2>1
<1> QED BY <1>2, <1>4, <1>6

(* PopulationInv holds when generate starts. *)
LEMMA PopulationInit == Init => PopulationInv
<1> SUFFICES ASSUME Init PROVE PopulationInv
    OBVIOUS
<1> DEFINE P == PopulationSize
<1>2. P \in Nat /\ Slot = 1..P
    BY Sizes DEF Slot
<1>6. /\ heap = [k \in Slot |-> heap[k]]
      /\ \A k \in Slot : \E l \in BOOLEAN : heap[k] = NewIndividual(Counts[k], l)
    BY InitHeap
<1> HIDE DEF P
<1>7. \A k \in Slot : /\ heap[k] \in IndividualRecord
                      /\ heap[k].niche = Counts[k] /\ heap[k].runs = <<>> /\ heap[k].score.n = 0
    BY <1>6, CountsType, NewFacts
<1>8. heap \in Seq(IndividualRecord) /\ DOMAIN heap = Slot
    <2> DEFINE R == IndividualRecord
    <2>1. heap = [n \in 1..P |-> heap[n]] /\ \A n \in 1..P : heap[n] \in R
        BY <1>2, <1>6, <1>7
    <2> HIDE DEF R
    <2>2. heap \in Seq(R)
        BY <1>2, <2>1, ListOf
    <2> QED BY <1>2, <1>6, <2>2 DEF R
<1>9. /\ pop = [k \in Slot |-> k] /\ evaluated = <<>> /\ pc = "round" /\ phase = 1
      /\ discoveryBudget = Phase1Budget /\ discoveryUsed = 0 /\ noProgressRounds = 0
      /\ candidates = {} /\ killAfter = 0 /\ maxGoodDuration = 0 /\ promising = <<>>
      /\ discoveryAttempts = 0 /\ refinementAttempts = 0 /\ suite = <<>>
      /\ simulations = 0 /\ slowestGood = 0 /\ carried = {} /\ jobs = <<>> /\ pending = <<>>
    BY DEF Init
<1>10. TypeOK
    <2>1. pop \in [Slot -> DOMAIN heap]
        BY <1>8, <1>9
    <2>2. evaluated \in Seq(DOMAIN heap) /\ promising \in Seq(DOMAIN heap) /\ suite \in Seq(DOMAIN heap)
          /\ jobs \in Seq(DOMAIN heap)
        BY <1>9
    <2>3. Phase1Budget \in Nat
        BY Sizes
    <2> QED BY <1>8, <1>9, <2>1, <2>2, <2>3 DEF TypeOK
<1>11. OwnSlots /\ NicheQuota
    BY <1>7, <1>9 DEF OwnSlots, NicheQuota
<1>12. ScoresOfRuns
    BY <1>7, <1>8 DEF ScoresOfRuns
<1>13. PendingJobs
    BY <1>9 DEF PendingJobs
<1> QED BY <1>10, <1>11, <1>12, <1>13 DEF PopulationInv

(* A step that grows the population as Grown says. *)
LEMMA GrownSeq ==
    ASSUME NEW A, NEW B, A \subseteq B, NEW s \in Seq(A)
    PROVE  s \in Seq(B)
OBVIOUS

(* New individuals in the slots S keep the three parts about individuals. *)
LEMMA GrownKeeps ==
    ASSUME PopulationInv, NEW S \in SUBSET Slot, Grown(S),
           \A k \in Slot \ S : pop'[k] \in DOMAIN heap /\ heap[pop'[k]].niche = Counts[k]
    PROVE  /\ OwnSlots' /\ NicheQuota' /\ ScoresOfRuns'
           /\ \A s \in Seq(DOMAIN heap) : s \in Seq(DOMAIN heap')
<1>1. \A k \in S : /\ heap'[pop'[k]].niche = Counts[k] /\ heap'[pop'[k]].runs = <<>>
                   /\ heap'[pop'[k]].score.n = 0
    BY CountsType, NewFacts DEF Grown
<1>2. \A k \in Slot \ S : heap'[pop'[k]].niche = Counts[k]
    BY DEF Grown
<1>3. NicheQuota'
    BY <1>1, <1>2 DEF NicheQuota
<1>4. OwnSlots'
    BY DEF Grown, OwnSlots
<1>5. ASSUME NEW x \in DOMAIN heap' PROVE heap'[x].score.n <= Len(heap'[x].runs)
    <2>1. CASE x \in DOMAIN heap
        BY <2>1 DEF Grown, PopulationInv, ScoresOfRuns
    <2>2. CASE x \notin DOMAIN heap
        BY <1>1, <2>2 DEF Grown
    <2> QED BY <2>1, <2>2
<1>6. ScoresOfRuns'
    BY <1>5 DEF ScoresOfRuns
<1>7. \A s \in Seq(DOMAIN heap) : s \in Seq(DOMAIN heap')
    BY GrownSeq DEF Grown
<1> QED BY <1>3, <1>4, <1>6, <1>7

(* Breeding keeps PopulationInv. *)
LEMMA PopulationBreed == BudgetInv /\ PopulationInv /\ Breed => PopulationInv'
<1> SUFFICES ASSUME BudgetInv, PopulationInv, Breed PROVE PopulationInv'
    OBVIOUS
<1> DEFINE S == Slot \ EliteSlots
<1>1. Grown(S) /\ (\A k \in EliteSlots : pop'[k] = EliteFor(k)) /\ EliteSlots \subseteq Slot
    BY BreedEffect
<1>2. \A k \in EliteSlots : EliteFor(k) \in DOMAIN heap /\ heap[EliteFor(k)].niche = Counts[k]
    BY ElitesCarried
<1>3. \A k \in Slot \ S : pop'[k] \in DOMAIN heap /\ heap[pop'[k]].niche = Counts[k]
    BY <1>1, <1>2
<1> HIDE DEF S
<1>4. S \in SUBSET Slot
    BY DEF S
<1>5. OwnSlots' /\ NicheQuota' /\ ScoresOfRuns' /\ \A s \in Seq(DOMAIN heap) : s \in Seq(DOMAIN heap')
    BY <1>1, <1>3, <1>4, GrownKeeps
<1>6. /\ UNCHANGED <<jobs, pending, evaluated, phase, discoveryBudget, discoveryUsed, noProgressRounds,
                     candidates, killAfter, maxGoodDuration, promising, discoveryAttempts,
                     refinementAttempts, suite, simulations, slowestGood>>
      /\ pc' = "launch" /\ carried' = {EliteFor(k) : k \in EliteSlots}
    BY DEF Breed, batchVars
<1>7. carried' \subseteq DOMAIN heap'
    BY <1>1, <1>2, <1>6 DEF Grown
<1>8. /\ evaluated' \in Seq(DOMAIN heap') /\ promising' \in Seq(DOMAIN heap') /\ suite' \in Seq(DOMAIN heap')
      /\ jobs' \in Seq(DOMAIN heap')
    BY <1>5, <1>6 DEF PopulationInv, TypeOK
<1>9. heap' \in Seq(IndividualRecord) /\ pop' \in [Slot -> DOMAIN heap']
    BY <1>1 DEF Grown
<1>10. TypeOK'
    BY <1>6, <1>7, <1>8, <1>9 DEF PopulationInv, TypeOK
<1>11. PendingJobs'
    BY <1>6 DEF PopulationInv, PendingJobs
<1> QED BY <1>5, <1>10, <1>11 DEF PopulationInv

(* The durations of the good flights of a round are finitely many numbers. *)
LEMMA GoodDurationsType ==
    ASSUME BudgetInv, PopulationInv
    PROVE  IsFiniteSet(GoodDurations) /\ GoodDurations \subseteq Nat
<1> DEFINE C == {j \in NewlyValid : ~heap[pop[j]].stuck}
<1>1. C \in SUBSET Slot
    BY DEF NewlyValid, BudgetInv, BooksOK
<1>2. IsFiniteSet(C)
    BY <1>1, SlotSets
<1>3. \A k \in C : heap[pop[k]].duration \in Nat
    BY <1>1, SlotFacts, RecordFields DEF PopulationInv
<1>4. GoodDurations = {heap[pop[k]].duration : k \in C}
    BY DEF GoodDurations
<1> HIDE DEF C
<1> DEFINE f == [k \in C |-> heap[pop[k]].duration]
<1>5. GoodDurations = {f[k] : k \in C} /\ DOMAIN f = C
    BY <1>4
<1>6. f \in Surjection(C, GoodDurations)
    <2>1. f \in [C -> GoodDurations]
        BY <1>4
    <2>2. \A d \in GoodDurations : \E k \in C : f[k] = d
        BY <1>5
    <2> QED BY <2>1, <2>2 DEF Surjection
<1>7. IsFiniteSet(GoodDurations)
    BY <1>2, <1>6, FS_Surjection
<1> QED BY <1>3, <1>4, <1>7

(* The end of a round keeps PopulationInv. *)
LEMMA PopulationRound == BudgetInv /\ PopulationInv /\ RoundDone => PopulationInv'
<1> SUFFICES ASSUME BudgetInv, PopulationInv, RoundDone PROVE PopulationInv'
    OBVIOUS
<1>1. Grown(GivenUp) /\ GivenUp \in SUBSET Slot /\ \A k \in Slot \ GivenUp : pop'[k] = pop[k]
    BY RoundEffect
<1>2. \A k \in Slot \ GivenUp : pop'[k] \in DOMAIN heap /\ heap[pop'[k]].niche = Counts[k]
    BY <1>1 DEF PopulationInv, TypeOK, NicheQuota
<1>3. OwnSlots' /\ NicheQuota' /\ ScoresOfRuns' /\ \A s \in Seq(DOMAIN heap) : s \in Seq(DOMAIN heap')
    BY <1>1, <1>2, GrownKeeps
<1>4. /\ UNCHANGED <<jobs, pending, phase, discoveryBudget, candidates, killAfter, promising,
                     discoveryAttempts, refinementAttempts, suite, simulations, slowestGood, carried>>
      /\ pc' = "round" /\ discoveryUsed' = discoveryUsed + attemptsUsed
      /\ evaluated' = evaluated \o At(pop, NewlyValid)
      /\ maxGoodDuration' = MaxOver(GoodDurations, maxGoodDuration)
      /\ noProgressRounds' = IF attemptsUsed = 0 THEN noProgressRounds + 1 ELSE 0
    BY DEF RoundDone, Charged, SlowestGoodSoFar
<1>5. evaluated' \in Seq(DOMAIN heap')
    <2>1. pop \in Seq(DOMAIN heap) /\ DOMAIN pop = Slot
        BY PopIsList DEF PopulationInv, TypeOK
    <2>2. NewlyValid \in SUBSET DOMAIN pop
        BY <2>1 DEF NewlyValid, BudgetInv, BooksOK
    <2>3. At(pop, NewlyValid) \in Seq(DOMAIN heap)
        BY <2>1, <2>2, AtMembers
    <2>4. evaluated \in Seq(DOMAIN heap)
        BY DEF PopulationInv, TypeOK
    <2> DEFINE a == At(pop, NewlyValid)
               D == DOMAIN heap
    <2> HIDE DEF a, D
    <2>5. a \in Seq(D) /\ evaluated \in Seq(D)
        BY <2>3, <2>4 DEF a, D
    <2>6. evaluated \o a \in Seq(D)
        BY <2>5, Joined
    <2> QED BY <1>3, <1>4, <2>6 DEF a, D
<1>6. maxGoodDuration' \in Nat /\ discoveryUsed' \in Nat /\ noProgressRounds' \in Nat
    <2>1. maxGoodDuration \in Nat /\ discoveryUsed \in Nat /\ noProgressRounds \in Nat
        BY DEF PopulationInv, TypeOK
    <2>2. attemptsUsed \in Nat
        BY DEF BudgetInv, SchedulerInv, SchedulerOK
    <2>3. maxGoodDuration' \in Nat
        BY <1>4, <2>1, GoodDurationsType, MaxOverFacts
    <2> QED BY <1>4, <2>1, <2>2, <2>3
<1>7. /\ promising' \in Seq(DOMAIN heap') /\ suite' \in Seq(DOMAIN heap') /\ jobs' \in Seq(DOMAIN heap')
      /\ carried' \subseteq DOMAIN heap'
    BY <1>1, <1>3, <1>4 DEF PopulationInv, TypeOK, Grown
<1>8. heap' \in Seq(IndividualRecord) /\ pop' \in [Slot -> DOMAIN heap']
    BY <1>1 DEF Grown
<1>9. TypeOK'
    BY <1>4, <1>5, <1>6, <1>7, <1>8 DEF PopulationInv, TypeOK
<1>10. PendingJobs'
    BY <1>4 DEF PopulationInv, PendingJobs
<1> QED BY <1>3, <1>9, <1>10 DEF PopulationInv

(* A worker's attempt. *)
LEMMA PopulationAttempt ==
    ASSUME BudgetInv, PopulationInv, NEW i, NEW o, NEW y, Attempted(i, o, y),
           Same(heap[IndividualAt(i)], y), y.score.n <= Len(y.runs)
    PROVE  PopulationInv'
<1> DEFINE x == IndividualAt(i)
<1>1. /\ x \in DOMAIN heap /\ DOMAIN heap' = DOMAIN heap /\ heap'[x] = y
      /\ \A z \in DOMAIN heap \ {x} : heap'[z] = heap[z]
      /\ y.niche = heap[x].niche /\ heap' \in Seq(IndividualRecord)
    BY DEF Attempted, Same
<1>2. UNCHANGED <<jobs, pending, pc, pop, evaluated, phase, discoveryBudget, discoveryUsed, noProgressRounds,
                  candidates, killAfter, maxGoodDuration, promising, discoveryAttempts,
                  refinementAttempts, suite, carried>>
    BY DEF Attempted, searchVars
<1>3. simulations' \in Nat /\ slowestGood' \in Nat
    BY DEF Attempted
<1> HIDE DEF x
<1>4. TypeOK'
    <2>1. /\ pop' \in [Slot -> DOMAIN heap'] /\ evaluated' \in Seq(DOMAIN heap') /\ promising' \in Seq(DOMAIN heap')
          /\ suite' \in Seq(DOMAIN heap') /\ carried' \subseteq DOMAIN heap' /\ jobs' \in Seq(DOMAIN heap')
        BY <1>1, <1>2 DEF PopulationInv, TypeOK
    <2>2. {discoveryBudget, discoveryUsed, noProgressRounds, killAfter, maxGoodDuration,
           discoveryAttempts, refinementAttempts, simulations, slowestGood}' \subseteq Nat
        BY <1>2, <1>3 DEF PopulationInv, TypeOK
    <2>3. /\ pc' \in {"round", "launch", "elites", "evaluate", "refine", "select", "done"}
          /\ phase' \in {1, 2} /\ candidates' \subseteq Slot
        BY <1>2 DEF PopulationInv, TypeOK
    <2> QED BY <1>1, <2>1, <2>2, <2>3 DEF TypeOK
<1>5. OwnSlots' /\ PendingJobs'
    BY <1>2 DEF PopulationInv, OwnSlots, PendingJobs
<1>6. \A z \in DOMAIN heap : heap'[z].niche = heap[z].niche
    BY <1>1
<1>7. NicheQuota'
    BY <1>2, <1>6 DEF PopulationInv, TypeOK, NicheQuota
<1>8. ScoresOfRuns'
    BY <1>1 DEF PopulationInv, ScoresOfRuns
<1> QED BY <1>4, <1>5, <1>7, <1>8 DEF PopulationInv

(* An evaluation keeps PopulationInv. *)
LEMMA PopulationEvaluate == BudgetInv /\ PopulationInv /\ Evaluate => PopulationInv'
<1> SUFFICES ASSUME BudgetInv, PopulationInv, Evaluate PROVE PopulationInv'
    OBVIOUS
<1>1. PICK i, o, y : Attempted(i, o, y) /\ EvaluateStep(heap[IndividualAt(i)], y, o)
    BY EvaluateEffect
<1> DEFINE x == heap[IndividualAt(i)]
<1>2. x.score.n <= Len(x.runs) /\ x \in IndividualRecord
    BY <1>1 DEF Attempted, PopulationInv, ScoresOfRuns
<1>3. Same(x, y) /\ EvaluateStep(x, y, o)
    BY <1>1 DEF EvaluateStep
<1> HIDE DEF x
<1>4. Len(x.runs) \in Nat /\ Len(y.runs) \in Nat /\ y \in IndividualRecord
    BY <1>1, <1>2, RecordFields DEF Attempted
<1>5. y.score.n <= Len(y.runs)
    BY <1>2, <1>3, <1>4 DEF EvaluateStep, SameResult
<1> QED BY <1>1, <1>3, <1>5, PopulationAttempt DEF x

(* A rerun keeps PopulationInv. *)
LEMMA PopulationRerun == BudgetInv /\ PopulationInv /\ Rerun => PopulationInv'
<1> SUFFICES ASSUME BudgetInv, PopulationInv, Rerun PROVE PopulationInv'
    OBVIOUS
<1>1. PICK i, o, y : Attempted(i, o, y) /\ RerunStep(heap[IndividualAt(i)], y, o)
    BY RerunEffect
<1> DEFINE x == heap[IndividualAt(i)]
<1>2. x.score.n <= Len(x.runs) /\ x \in IndividualRecord
    BY <1>1 DEF Attempted, PopulationInv, ScoresOfRuns
<1>3. Same(x, y) /\ RerunStep(x, y, o)
    BY <1>1 DEF RerunStep
<1> HIDE DEF x
<1>4. /\ Len(x.runs) \in Nat /\ Len(y.runs) \in Nat /\ y \in IndividualRecord /\ x.runs \in Seq(Run)
      /\ x.score.n \in Nat
    BY <1>1, <1>2, RecordFields DEF Attempted
<1>5. \A run \in Run : Len(Append(x.runs, run)) = Len(x.runs) + 1
    BY <1>4
<1>6. y.score = x.score /\ (y.runs = x.runs \/ Len(y.runs) = Len(x.runs) + 1)
    <2>1. CASE SameResult(x, y)
        BY <2>1 DEF SameResult
    <2>2. CASE ~SameResult(x, y)
        <3>1. PICK run \in Run : y.score = x.score /\ y.runs = Append(x.runs, run)
            BY <1>3, <2>2, Zenon DEF RerunStep
        <3> QED BY <1>5, <3>1
    <2> QED BY <2>1, <2>2
<1>7. y.score.n <= Len(y.runs)
    BY <1>2, <1>4, <1>6
<1> QED BY <1>1, <1>3, <1>7, PopulationAttempt DEF x

-----------------------------------------------------------------------------

(* A call of the scheduler: every job is pending once. *)
LEMMA CallFacts ==
    ASSUME NEW D, NEW js \in Seq(D), NEW b, Call(js, b)
    PROVE  /\ jobs' = js /\ wave' = <<>> /\ DOMAIN wave' = {} /\ bpc' = "loop"
           /\ attemptsUsed' = 0 /\ attemptBudget' = b
           /\ DOMAIN pending' = DOMAIN js
           /\ \A i \in DOMAIN js : pending'[i].job = i /\ pending'[i].retry = 0
           /\ PendingJobs'
<1>1. /\ jobs' = js /\ wave' = <<>> /\ bpc' = "loop" /\ attemptsUsed' = 0 /\ attemptBudget' = b
      /\ pending' = [j \in 1..Len(js) |-> [job |-> j, retry |-> 0]]
    BY DEF Call
<1>2. DOMAIN js = 1..Len(js)
    BY ListElements
<1>3. /\ DOMAIN pending' = DOMAIN js
      /\ \A i \in DOMAIN js : pending'[i].job = i /\ pending'[i].retry = 0
    BY <1>1, <1>2
<1>4. DOMAIN wave' = {}
    BY <1>1
<1> QED BY <1>1, <1>3, <1>4 DEF PendingJobs

(* The end of a wave: where the pending items come from. *)
Moved(origin) ==
    /\ DOMAIN pending' \subseteq Nat
    /\ \A n \in DOMAIN pending' :
          /\ origin[n] \in DOMAIN pending
          /\ pending'[n].job = pending[origin[n]].job
          /\ \/ /\ origin[n] \in DOMAIN wave /\ wave[origin[n]] = "FLAKE"
                /\ pending'[n].retry = pending[origin[n]].retry + 1
             \/ /\ origin[n] \notin DOMAIN wave
                /\ pending'[n].retry = pending[origin[n]].retry
    /\ \A m, n \in DOMAIN pending' : origin[m] = origin[n] => m = n

(* The end of a wave moves the unsettled items to their new places in the  *)
(* queue.                                                                  *)
LEMMA EndWaveEffect ==
    ASSUME BudgetInv, EndBatchWave
    PROVE  /\ \E origin : Moved(origin)
           /\ wave' = <<>> /\ DOMAIN wave' = {} /\ bpc = "wave" /\ bpc' = "loop"
           /\ UNCHANGED <<jobs, attemptBudget, heap, pc, simulations, slowestGood>> /\ UNCHANGED searchVars
<1>1. /\ bpc = "wave" /\ bpc' = "loop" /\ wave' = <<>> /\ pending' = Retries \o Deferred
      /\ UNCHANGED <<jobs, attemptBudget, heap, pc, simulations, slowestGood>> /\ UNCHANGED searchVars
    BY DEF EndBatchWave, EndWave
<1>2. SchedulerOK
    BY DEF BudgetInv, SchedulerInv
<1>3. PICK origin : IsOrigin(origin, pending')
    BY <1>1, <1>2, OriginOfPending
<1>4. DOMAIN pending' \subseteq Nat
    BY <1>1, <1>2, OriginOfPending
<1>5. Again \subseteq DOMAIN wave /\ Again \subseteq DOMAIN pending /\ Rest \subseteq DOMAIN pending
    BY <1>2 DEF Again, Rest, SchedulerOK
<1>6. \A i \in DOMAIN pending : pending[i] \in [job : Nat, retry : 0..MaxFlakeRetries]
    BY <1>2, ListElements DEF SchedulerOK
<1>7. \A i \in DOMAIN pending : Raised(i).job = pending[i].job /\ Raised(i).retry = pending[i].retry + 1
    BY <1>6 DEF Raised
<1>8. ASSUME NEW n \in DOMAIN pending'
      PROVE  /\ origin[n] \in DOMAIN pending
             /\ pending'[n].job = pending[origin[n]].job
             /\ \/ /\ origin[n] \in DOMAIN wave /\ wave[origin[n]] = "FLAKE"
                   /\ pending'[n].retry = pending[origin[n]].retry + 1
                \/ /\ origin[n] \notin DOMAIN wave
                   /\ pending'[n].retry = pending[origin[n]].retry
    <2>1. origin[n] \in Again \union Rest
          /\ pending'[n] = IF origin[n] \in Again THEN Raised(origin[n]) ELSE pending[origin[n]]
        BY <1>3 DEF IsOrigin
    <2>2. CASE origin[n] \in Again
        BY <2>1, <2>2, <1>5, <1>7 DEF Again
    <2>3. CASE origin[n] \notin Again
        BY <2>1, <2>3, <1>5 DEF Rest
    <2> QED BY <2>2, <2>3
<1>9. ASSUME NEW m \in DOMAIN pending', NEW n \in DOMAIN pending', origin[m] = origin[n] PROVE m = n
    <2>1. m \in Nat /\ n \in Nat /\ origin[m] \in Nat /\ origin[n] \in Nat
        BY <1>2, <1>4, <1>8, FiniteDomains
    <2>2. \A k, l \in DOMAIN pending' : k < l =>
              \/ origin[k] \in Again /\ origin[l] \in Rest
              \/ (origin[k] \in Again <=> origin[l] \in Again) /\ origin[k] < origin[l]
        BY <1>3 DEF IsOrigin
    <2>3. Again \cap Rest = {}
        BY DEF Again, Rest
    <2>4. ~(m < n)
        BY <1>9, <2>1, <2>2, <2>3
    <2>5. ~(n < m)
        BY <1>9, <2>1, <2>2, <2>3
    <2> QED BY <2>1, <2>4, <2>5
<1>10. Moved(origin)
    BY <1>4, <1>8, <1>9 DEF Moved
<1>11. DOMAIN wave' = {}
    BY <1>1
<1> QED BY <1>1, <1>10, <1>11

(* A step that leaves the individuals and the population alone. *)
LEMMA PopulationFrame ==
    ASSUME PopulationInv, UNCHANGED <<heap, pop, evaluated, suite, carried>>,
           PendingJobs', jobs' \in Seq(DOMAIN heap), promising' \in Seq(DOMAIN heap),
           pc' \in {"round", "launch", "elites", "evaluate", "refine", "select", "done"},
           phase' \in {1, 2}, candidates' \subseteq Slot,
           {discoveryBudget, discoveryUsed, noProgressRounds, killAfter, maxGoodDuration,
            discoveryAttempts, refinementAttempts, simulations, slowestGood}' \subseteq Nat
    PROVE  PopulationInv'
<1>1. TypeOK'
    BY DEF PopulationInv, TypeOK
<1>2. OwnSlots' /\ NicheQuota'
    BY DEF PopulationInv, OwnSlots, NicheQuota
<1>3. ScoresOfRuns'
    BY DEF PopulationInv, ScoresOfRuns
<1> QED BY <1>1, <1>2, <1>3 DEF PopulationInv

(* The jobs of a discovery batch are members of the population. *)
LEMMA SlotJobs ==
    ASSUME PopulationInv, NEW S \in SUBSET Slot
    PROVE  /\ At(pop, S) \in Seq(DOMAIN heap)
           /\ Range(At(pop, S)) = {pop[k] : k \in S}
           /\ \A m, n \in DOMAIN At(pop, S) : At(pop, S)[m] = At(pop, S)[n] => m = n
           /\ \A n \in DOMAIN At(pop, S) : \E k \in S : At(pop, S)[n] = pop[k]
           /\ \A k \in S : \E n \in DOMAIN At(pop, S) : At(pop, S)[n] = pop[k]
<1>1. pop \in [Slot -> DOMAIN heap] /\ \A j, k \in Slot : pop[j] = pop[k] => j = k
    BY DEF PopulationInv, TypeOK, OwnSlots
<1>2. pop \in Seq(DOMAIN heap) /\ DOMAIN pop = Slot
    BY <1>1, PopIsList
<1>3. /\ At(pop, S) \in Seq(DOMAIN heap)
      /\ \A n \in DOMAIN At(pop, S) : Nth(S, n) \in S /\ At(pop, S)[n] = pop[Nth(S, n)]
      /\ \A i \in S : \E n \in DOMAIN At(pop, S) : At(pop, S)[n] = pop[i]
      /\ Range(At(pop, S)) = {pop[i] : i \in S}
      /\ (\A i, j \in S : pop[i] = pop[j] => i = j) =>
             \A m, n \in DOMAIN At(pop, S) : At(pop, S)[m] = At(pop, S)[n] => m = n
    <2>1. At(pop, S) \in Seq(DOMAIN heap) /\ Selects(At(pop, S), pop, S)
        BY <1>2, AtMembers
    <2> QED BY <2>1 DEF Selects
<1>4. \A i, j \in S : pop[i] = pop[j] => i = j
    BY <1>1
<1> QED BY <1>3, <1>4

(* The kill limit is a positive number. *)
LEMMA CurrentKillAfterType ==
    ASSUME maxGoodDuration \in Nat
    PROVE  CurrentKillAfter \in Nat \ {0}
BY LimitGrows DEF CurrentKillAfter

(* What starting a batch changes. *)
LEMMA LaunchEffect ==
    ASSUME BudgetInv, PopulationInv, Launch
    PROVE  /\ pc \in {"round", "launch"} /\ bpc = "idle"
           /\ candidates' \subseteq FreeSlots /\ candidates' \subseteq Slot
           /\ \/ pc' = "elites" /\ RerunElites /\ \E b : Call(At(pop, ValidSlots), b)
              \/ pc' = "evaluate" /\ \E b : Call(At(pop, candidates'), b)
           /\ killAfter' = CurrentKillAfter
           /\ UNCHANGED <<heap, pop, evaluated, phase, discoveryBudget, discoveryUsed, noProgressRounds,
                          maxGoodDuration, promising, discoveryAttempts, refinementAttempts, suite,
                          simulations, slowestGood, carried>>
<1>1. /\ pc \in {"round", "launch"} /\ killAfter' = CurrentKillAfter
      /\ candidates' = FirstSlots(FreeSlots, discoveryBudget - discoveryUsed)
      /\ \/ ValidSlots # {} /\ pc' = "elites" /\ Call(At(pop, ValidSlots), Cardinality(ValidSlots))
         \/ pc' = "evaluate" /\ Call(At(pop, candidates'), discoveryBudget - discoveryUsed)
    BY DEF Launch
<1>2. UNCHANGED <<heap, pop, evaluated, phase, discoveryBudget, discoveryUsed, noProgressRounds,
                  maxGoodDuration, promising, discoveryAttempts, refinementAttempts, suite,
                  simulations, slowestGood, carried>>
    BY DEF Launch
<1>3. bpc = "idle"
    BY <1>1 DEF BudgetInv, RestInv
<1>4. candidates' \subseteq FreeSlots /\ FreeSlots \subseteq Slot
    BY <1>1 DEF FirstSlots, FreeSlots
<1>5. ValidSlots # {} => RerunElites
    BY DEF ValidSlots
<1> QED BY <1>1, <1>2, <1>3, <1>4, <1>5

(* Starting a batch keeps PopulationInv. *)
LEMMA PopulationLaunch == BudgetInv /\ PopulationInv /\ Launch => PopulationInv'
<1> SUFFICES ASSUME BudgetInv, PopulationInv, Launch PROVE PopulationInv'
    OBVIOUS
<1>1. /\ candidates' \subseteq Slot
      /\ \/ pc' = "elites" /\ \E b : Call(At(pop, ValidSlots), b)
         \/ pc' = "evaluate" /\ \E b : Call(At(pop, candidates'), b)
      /\ killAfter' = CurrentKillAfter
      /\ UNCHANGED <<heap, pop, evaluated, phase, discoveryBudget, discoveryUsed, noProgressRounds,
                     maxGoodDuration, promising, discoveryAttempts, refinementAttempts, suite,
                     simulations, slowestGood, carried>>
    BY LaunchEffect
<1>2. ValidSlots \subseteq Slot
    BY DEF ValidSlots
<1>3. PICK S \in SUBSET Slot : \E b : Call(At(pop, S), b)
    BY <1>1, <1>2
<1>4. At(pop, S) \in Seq(DOMAIN heap)
    BY SlotJobs
<1>5. jobs' = At(pop, S) /\ PendingJobs'
    BY <1>3, <1>4, CallFacts
<1>6. killAfter' \in Nat
    BY <1>1, CurrentKillAfterType DEF PopulationInv, TypeOK
<1>7. /\ phase' \in {1, 2} /\ promising' \in Seq(DOMAIN heap)
      /\ {discoveryBudget, discoveryUsed, noProgressRounds, killAfter, maxGoodDuration,
          discoveryAttempts, refinementAttempts, simulations, slowestGood}' \subseteq Nat
    BY <1>1, <1>6 DEF PopulationInv, TypeOK
<1>8. pc' \in {"round", "launch", "elites", "evaluate", "refine", "select", "done"}
    BY <1>1
<1> QED BY <1>1, <1>4, <1>5, <1>7, <1>8, PopulationFrame

(* The start and the end of a wave keep PopulationInv. *)
LEMMA PopulationWaves == BudgetInv /\ PopulationInv /\ (StartBatchWave \/ EndBatchWave) => PopulationInv'
<1> SUFFICES ASSUME BudgetInv, PopulationInv, StartBatchWave \/ EndBatchWave PROVE PopulationInv'
    OBVIOUS
<1>1. UNCHANGED <<heap, pop, evaluated, phase, discoveryBudget, discoveryUsed, noProgressRounds, candidates,
                  killAfter, maxGoodDuration, promising, discoveryAttempts, refinementAttempts, suite,
                  simulations, slowestGood, carried, jobs, pc>>
    BY DEF StartBatchWave, StartWave, EndBatchWave, EndWave, searchVars
<1>2. PendingJobs'
    <2>1. CASE StartBatchWave
        BY <1>1, <2>1 DEF StartBatchWave, StartWave, PopulationInv, PendingJobs
    <2>2. CASE EndBatchWave
        <3>1. PICK origin : Moved(origin)
            BY <2>2, EndWaveEffect
        <3> QED BY <1>1, <3>1 DEF Moved, PopulationInv, PendingJobs
    <2> QED BY <2>1, <2>2
<1>3. /\ phase' \in {1, 2} /\ promising' \in Seq(DOMAIN heap) /\ jobs' \in Seq(DOMAIN heap)
      /\ candidates' \subseteq Slot
      /\ pc' \in {"round", "launch", "elites", "evaluate", "refine", "select", "done"}
      /\ {discoveryBudget, discoveryUsed, noProgressRounds, killAfter, maxGoodDuration,
          discoveryAttempts, refinementAttempts, simulations, slowestGood}' \subseteq Nat
    BY <1>1 DEF PopulationInv, TypeOK
<1> QED BY <1>1, <1>2, <1>3, PopulationFrame

(* The individuals of a step that only rescores, those in S. *)
RescoredIn(S) ==
    /\ heap' \in Seq(IndividualRecord) /\ DOMAIN heap' = DOMAIN heap
    /\ \A x \in DOMAIN heap : x \in S => heap'[x] = Rescored(heap[x])
    /\ \A x \in DOMAIN heap : x \notin S => heap'[x] = heap[x]

(* Rescoring keeps the three parts about individuals. *)
LEMMA RescoredKeeps ==
    ASSUME PopulationInv, NEW S, RescoredIn(S), pop' = pop
    PROVE  OwnSlots' /\ NicheQuota' /\ ScoresOfRuns'
<1>1. OwnSlots'
    BY DEF PopulationInv, OwnSlots
<1>2. \A x \in DOMAIN heap : heap[x] \in IndividualRecord
    BY ListElements DEF PopulationInv, TypeOK
<1>3. ASSUME NEW x \in DOMAIN heap
      PROVE  heap'[x].niche = heap[x].niche /\ heap'[x].score.n <= Len(heap'[x].runs)
    <2>1. CASE x \in S
        <3>1. heap'[x] = Rescored(heap[x])
            BY <2>1 DEF RescoredIn
        <3> DEFINE y == Rescored(heap[x])
        <3>2. Same(heap[x], y) /\ y.score.n = Len(y.runs) /\ y \in IndividualRecord
            BY <1>2, RescoredFacts
        <3>3. Len(y.runs) \in Nat
            BY <3>2, RecordFields
        <3> HIDE DEF y
        <3>4. heap'[x] = y
            BY <3>1 DEF y
        <3> QED BY <3>2, <3>3, <3>4 DEF Same
    <2>2. CASE x \notin S
        BY <2>2 DEF RescoredIn, PopulationInv, ScoresOfRuns
    <2> QED BY <2>1, <2>2
<1>4. NicheQuota'
    BY <1>3 DEF PopulationInv, TypeOK, NicheQuota
<1>5. ScoresOfRuns'
    BY <1>3 DEF ScoresOfRuns, RescoredIn
<1> QED BY <1>1, <1>4, <1>5

(* What the end of the confirmation of the elites changes. *)
LEMMA ElitesEffect ==
    ASSUME BudgetInv, PopulationInv, ElitesConfirmed
    PROVE  /\ RescoredIn(Range(jobs)) /\ pc = "elites" /\ pc' = "evaluate" /\ bpc = "loop"
           /\ candidates' \subseteq candidates /\ candidates \subseteq Slot
           /\ \E b : Call(At(pop, candidates'), b)
           /\ discoveryUsed' \in Nat
           /\ UNCHANGED <<pop, evaluated, phase, discoveryBudget, noProgressRounds, killAfter,
                          maxGoodDuration, promising, discoveryAttempts, refinementAttempts, suite,
                          simulations, slowestGood, carried>>
<1>1. /\ pc = "elites" /\ pc' = "evaluate" /\ bpc = "loop"
      /\ discoveryUsed' = discoveryUsed + attemptsUsed
      /\ heap' = [x \in DOMAIN heap |-> IF x \in Range(jobs) THEN Rescored(heap[x]) ELSE heap[x]]
      /\ candidates' = FirstSlots(candidates, discoveryBudget - discoveryUsed')
      /\ Call(At(pop, candidates'), discoveryBudget - discoveryUsed')
    BY DEF ElitesConfirmed, Charged, Returning
<1>2. UNCHANGED <<pop, evaluated, phase, discoveryBudget, noProgressRounds, killAfter,
                  maxGoodDuration, promising, discoveryAttempts, refinementAttempts, suite,
                  simulations, slowestGood, carried>>
    BY DEF ElitesConfirmed
<1>3. RescoredIn(Range(jobs))
    <2>1. heap \in Seq(IndividualRecord)
        BY DEF PopulationInv, TypeOK
    <2> DEFINE S == Range(jobs)
    <2> HIDE DEF S
    <2>2. heap' = [x \in DOMAIN heap |-> IF x \in S THEN Rescored(heap[x]) ELSE heap[x]]
        BY <1>1 DEF S
    <2>3. RescoredIn(S)
        BY <2>1, <2>2, RescoredHeap DEF RescoredIn
    <2> QED BY <2>3 DEF S
<1>4. discoveryUsed' \in Nat /\ candidates \subseteq Slot
    <2>1. attemptsUsed \in Nat /\ discoveryUsed \in Nat /\ candidates \subseteq Slot
        BY DEF BudgetInv, SchedulerInv, SchedulerOK, BooksOK
    <2> QED BY <1>1, <2>1
<1>5. candidates' \subseteq candidates
    BY <1>1 DEF FirstSlots
<1> QED BY <1>1, <1>2, <1>3, <1>4, <1>5

(* The end of the confirmation of the elites keeps PopulationInv. *)
LEMMA PopulationElites == BudgetInv /\ PopulationInv /\ ElitesConfirmed => PopulationInv'
<1> SUFFICES ASSUME BudgetInv, PopulationInv, ElitesConfirmed PROVE PopulationInv'
    OBVIOUS
<1>1. /\ RescoredIn(Range(jobs)) /\ pc' = "evaluate" /\ candidates' \subseteq Slot /\ discoveryUsed' \in Nat
      /\ UNCHANGED <<pop, evaluated, phase, discoveryBudget, noProgressRounds, killAfter,
                     maxGoodDuration, promising, discoveryAttempts, refinementAttempts, suite,
                     simulations, slowestGood, carried>>
    BY ElitesEffect
<1>2. PICK b : Call(At(pop, candidates'), b)
    BY ElitesEffect
<1>3. At(pop, candidates') \in Seq(DOMAIN heap)
    BY <1>1, SlotJobs
<1>4. jobs' = At(pop, candidates') /\ PendingJobs'
    BY <1>2, <1>3, CallFacts
<1>5. OwnSlots' /\ NicheQuota' /\ ScoresOfRuns'
    BY <1>1, RescoredKeeps
<1>6. DOMAIN heap' = DOMAIN heap /\ heap' \in Seq(IndividualRecord)
    BY <1>1 DEF RescoredIn
<1>7. TypeOK'
    <2>1. /\ pop' \in [Slot -> DOMAIN heap'] /\ evaluated' \in Seq(DOMAIN heap') /\ promising' \in Seq(DOMAIN heap')
          /\ suite' \in Seq(DOMAIN heap') /\ carried' \subseteq DOMAIN heap' /\ jobs' \in Seq(DOMAIN heap')
        BY <1>1, <1>3, <1>4, <1>6 DEF PopulationInv, TypeOK
    <2>2. {discoveryBudget, discoveryUsed, noProgressRounds, killAfter, maxGoodDuration,
           discoveryAttempts, refinementAttempts, simulations, slowestGood}' \subseteq Nat
        BY <1>1 DEF PopulationInv, TypeOK
    <2> QED BY <1>1, <1>6, <2>1, <2>2 DEF TypeOK, PopulationInv
<1> QED BY <1>4, <1>5, <1>7 DEF PopulationInv

(* What the start of refinement changes. *)
LEMMA RefineEffect ==
    ASSUME BudgetInv, PopulationInv, StartRefinement
    PROVE  /\ pc = "round" /\ phase = 1 /\ pc' = "refine" /\ bpc = "idle" /\ killAfter' = CurrentKillAfter
           /\ \E s \in Suites : promising' = PromisingIn(s)
           /\ promising' \in Seq(DOMAIN heap)
           /\ RerunJobs(promising') \in Seq(DOMAIN heap)
           /\ Call(RerunJobs(promising'), Phase2Budget)
           /\ discoveryAttempts' \in Nat
           /\ UNCHANGED <<heap, pop, evaluated, phase, discoveryBudget, discoveryUsed, noProgressRounds,
                          candidates, maxGoodDuration, refinementAttempts, suite, simulations,
                          slowestGood, carried>>
<1>1. /\ pc = "round" /\ phase = 1 /\ pc' = "refine" /\ killAfter' = CurrentKillAfter
      /\ discoveryAttempts' = discoveryAttempts + discoveryUsed
      /\ \E s \in Suites : promising' = PromisingIn(s)
      /\ Call(RerunJobs(promising'), Phase2Budget)
      /\ UNCHANGED <<heap, pop, evaluated, phase, discoveryBudget, discoveryUsed, noProgressRounds,
                     candidates, maxGoodDuration, refinementAttempts, suite, simulations,
                     slowestGood, carried>>
    BY DEF StartRefinement, DiscoveryTotal
<1>2. bpc = "idle" /\ discoveryAttempts' \in Nat
    BY <1>1 DEF BudgetInv, RestInv, BooksOK
<1>3. promising' \in Seq(DOMAIN heap)
    BY <1>1, PromisingFacts DEF PopulationInv
<1>4. RerunJobs(promising') \in Seq(DOMAIN heap)
    <2> DEFINE s == promising'
    <2>1. s \in Seq(DOMAIN heap)
        BY <1>3
    <2> HIDE DEF s
    <2>2. RerunJobs(s) \in Seq(DOMAIN heap)
        BY <2>1, RerunJobsType
    <2> QED BY <2>2 DEF s
<1> QED BY <1>1, <1>2, <1>3, <1>4

(* The start of refinement keeps PopulationInv. *)
LEMMA PopulationRefine == BudgetInv /\ PopulationInv /\ StartRefinement => PopulationInv'
<1> SUFFICES ASSUME BudgetInv, PopulationInv, StartRefinement PROVE PopulationInv'
    OBVIOUS
<1>1. /\ pc' = "refine" /\ killAfter' = CurrentKillAfter
      /\ promising' \in Seq(DOMAIN heap) /\ RerunJobs(promising') \in Seq(DOMAIN heap)
      /\ Call(RerunJobs(promising'), Phase2Budget)
      /\ discoveryAttempts' \in Nat
      /\ UNCHANGED <<heap, pop, evaluated, phase, discoveryBudget, discoveryUsed, noProgressRounds,
                     candidates, maxGoodDuration, refinementAttempts, suite, simulations,
                     slowestGood, carried>>
    BY RefineEffect
<1>2. jobs' = RerunJobs(promising') /\ PendingJobs'
    <2> DEFINE js == RerunJobs(promising')
    <2>1. js \in Seq(DOMAIN heap) /\ Call(js, Phase2Budget)
        BY <1>1
    <2> HIDE DEF js
    <2>2. jobs' = js /\ PendingJobs'
        BY <2>1, CallFacts
    <2> QED BY <2>2 DEF js
<1>3. killAfter' \in Nat
    BY <1>1, CurrentKillAfterType DEF PopulationInv, TypeOK
<1>4. /\ phase' \in {1, 2} /\ candidates' \subseteq Slot
      /\ {discoveryBudget, discoveryUsed, noProgressRounds, killAfter, maxGoodDuration,
          discoveryAttempts, refinementAttempts, simulations, slowestGood}' \subseteq Nat
    BY <1>1, <1>3 DEF PopulationInv, TypeOK
<1> QED BY <1>1, <1>2, <1>4, PopulationFrame

RefinedSet == {x \in DOMAIN heap : Refined(x)}

(* What the end of refinement changes. *)
LEMMA RefinementEffect ==
    ASSUME BudgetInv, PopulationInv, RefinementDone
    PROVE  /\ RescoredIn(RefinedSet) /\ pc = "refine" /\ bpc = "loop" /\ bpc' = "idle"
           /\ refinementAttempts' = attemptsUsed /\ attemptsUsed \in Nat
           /\ \/ /\ pc' = "round" /\ phase' = 2 /\ discoveryBudget' \in Nat /\ discoveryUsed' = 0
                 /\ noProgressRounds' = 0
              \/ pc' = "select" /\ UNCHANGED <<phase, discoveryBudget, discoveryUsed, noProgressRounds>>
           /\ UNCHANGED <<jobs, attemptBudget, pending, wave, attemptsUsed, pop, evaluated, candidates,
                          killAfter, maxGoodDuration, promising, discoveryAttempts, suite, simulations,
                          slowestGood, carried>>
<1>1. /\ pc = "refine" /\ bpc = "loop" /\ bpc' = "idle" /\ refinementAttempts' = attemptsUsed
      /\ heap' = [x \in DOMAIN heap |-> IF Refined(x) THEN Rescored(heap[x]) ELSE heap[x]]
      /\ \/ /\ Unspent > 0 /\ pc' = "round" /\ phase' = 2 /\ discoveryBudget' = Unspent /\ discoveryUsed' = 0
            /\ noProgressRounds' = 0
         \/ pc' = "select" /\ UNCHANGED <<phase, discoveryBudget, discoveryUsed, noProgressRounds>>
      /\ UNCHANGED <<jobs, attemptBudget, pending, wave, attemptsUsed, pop, evaluated, candidates,
                     killAfter, maxGoodDuration, promising, discoveryAttempts, suite, simulations,
                     slowestGood, carried>>
    BY DEF RefinementDone, Returning
<1>2. attemptsUsed \in Nat /\ discoveryAttempts \in Nat
    BY DEF BudgetInv, SchedulerInv, SchedulerOK, BooksOK
<1>3. Unspent > 0 => Unspent \in Nat
    BY <1>2 DEF Unspent
<1>4. RescoredIn(RefinedSet)
    <2>1. heap \in Seq(IndividualRecord)
        BY DEF PopulationInv, TypeOK
    <2> DEFINE S == RefinedSet
    <2>2. heap' = [x \in DOMAIN heap |-> IF x \in S THEN Rescored(heap[x]) ELSE heap[x]]
        BY <1>1 DEF RefinedSet
    <2> HIDE DEF S
    <2>3. RescoredIn(S)
        BY <2>1, <2>2, RescoredHeap DEF RescoredIn
    <2> QED BY <2>3 DEF S
<1> QED BY <1>1, <1>2, <1>3, <1>4

(* The end of refinement keeps PopulationInv. *)
LEMMA PopulationRefined == BudgetInv /\ PopulationInv /\ RefinementDone => PopulationInv'
<1> SUFFICES ASSUME BudgetInv, PopulationInv, RefinementDone PROVE PopulationInv'
    OBVIOUS
<1>1. /\ RescoredIn(RefinedSet) /\ refinementAttempts' = attemptsUsed /\ attemptsUsed \in Nat
      /\ \/ /\ pc' = "round" /\ phase' = 2 /\ discoveryBudget' \in Nat /\ discoveryUsed' = 0
            /\ noProgressRounds' = 0
         \/ pc' = "select" /\ UNCHANGED <<phase, discoveryBudget, discoveryUsed, noProgressRounds>>
      /\ UNCHANGED <<jobs, pending, pop, evaluated, candidates, killAfter, maxGoodDuration, promising,
                     discoveryAttempts, suite, simulations, slowestGood, carried>>
    BY RefinementEffect
<1>2. OwnSlots' /\ NicheQuota' /\ ScoresOfRuns'
    BY <1>1, RescoredKeeps
<1>3. DOMAIN heap' = DOMAIN heap /\ heap' \in Seq(IndividualRecord)
    BY <1>1 DEF RescoredIn
<1>4. TypeOK'
    <2>1. /\ pop' \in [Slot -> DOMAIN heap'] /\ evaluated' \in Seq(DOMAIN heap') /\ promising' \in Seq(DOMAIN heap')
          /\ suite' \in Seq(DOMAIN heap') /\ carried' \subseteq DOMAIN heap' /\ jobs' \in Seq(DOMAIN heap')
        BY <1>1, <1>3 DEF PopulationInv, TypeOK
    <2>2. {discoveryBudget, discoveryUsed, noProgressRounds, killAfter, maxGoodDuration,
           discoveryAttempts, refinementAttempts, simulations, slowestGood}' \subseteq Nat
        <3>0. discoveryBudget \in Nat /\ discoveryUsed \in Nat /\ noProgressRounds \in Nat
            BY DEF PopulationInv, TypeOK
        <3>1. discoveryBudget' \in Nat /\ discoveryUsed' \in Nat /\ noProgressRounds' \in Nat
            <4>1. CASE pc' = "round"
                BY <1>1, <4>1
            <4>2. CASE pc' = "select"
                BY <1>1, <3>0, <4>2
            <4> QED BY <1>1, <4>1, <4>2
        <3>2. /\ killAfter' \in Nat /\ maxGoodDuration' \in Nat /\ discoveryAttempts' \in Nat
              /\ simulations' \in Nat /\ slowestGood' \in Nat /\ refinementAttempts' \in Nat
            BY <1>1 DEF PopulationInv, TypeOK
        <3> QED BY <3>1, <3>2
    <2>3. /\ pc' \in {"round", "launch", "elites", "evaluate", "refine", "select", "done"}
          /\ phase' \in {1, 2} /\ candidates' \subseteq Slot
        BY <1>1 DEF PopulationInv, TypeOK
    <2> QED BY <1>3, <2>1, <2>2, <2>3 DEF TypeOK
<1>5. PendingJobs'
    BY <1>1 DEF PopulationInv, PendingJobs
<1> QED BY <1>2, <1>4, <1>5 DEF PopulationInv

(* The end of the search keeps PopulationInv. *)
LEMMA PopulationEnd == BudgetInv /\ PopulationInv /\ (ReturnedBudgetDone \/ Select) => PopulationInv'
<1> SUFFICES ASSUME BudgetInv, PopulationInv, ReturnedBudgetDone \/ Select PROVE PopulationInv'
    OBVIOUS
<1>1. /\ UNCHANGED <<heap, pop, evaluated, phase, discoveryBudget, discoveryUsed, noProgressRounds,
                     candidates, killAfter, maxGoodDuration, promising, refinementAttempts, simulations,
                     slowestGood, carried, jobs, pending>>
      /\ pc' \in {"select", "done"}
      /\ discoveryAttempts' \in {discoveryAttempts, discoveryAttempts + discoveryUsed}
      /\ suite' = suite \/ suite' \in Suites
    BY DEF ReturnedBudgetDone, Select, batchVars, DiscoveryTotal
<1>2. suite' \in Seq(DOMAIN heap)
    BY <1>1, SuiteFacts DEF PopulationInv, TypeOK
<1>3. TypeOK'
    <2>1. discoveryAttempts' \in Nat
        <3>1. discoveryAttempts \in Nat /\ discoveryUsed \in Nat
            BY DEF PopulationInv, TypeOK
        <3> QED BY <1>1, <3>1
    <2>2. {discoveryBudget, discoveryUsed, noProgressRounds, killAfter, maxGoodDuration,
           discoveryAttempts, refinementAttempts, simulations, slowestGood}' \subseteq Nat
        BY <1>1, <2>1 DEF PopulationInv, TypeOK
    <2> QED BY <1>1, <1>2, <2>2 DEF PopulationInv, TypeOK
<1>4. OwnSlots' /\ NicheQuota' /\ ScoresOfRuns' /\ PendingJobs'
    BY <1>1 DEF PopulationInv, OwnSlots, NicheQuota, ScoresOfRuns, PendingJobs
<1> QED BY <1>3, <1>4 DEF PopulationInv

(* Every step keeps PopulationInv. *)
LEMMA PopulationNext == BudgetInv /\ PopulationInv /\ [Next]_vars => PopulationInv'
<1> SUFFICES ASSUME BudgetInv, PopulationInv, [Next]_vars PROVE PopulationInv'
    OBVIOUS
<1>1. CASE UNCHANGED vars
    BY <1>1 DEF vars, searchVars, batchVars, PopulationInv, TypeOK, OwnSlots, NicheQuota, ScoresOfRuns, PendingJobs
<1> QED BY <1>1, PopulationBreed, PopulationLaunch, PopulationWaves, PopulationEvaluate, PopulationRerun,
           PopulationElites, PopulationRound, PopulationRefine, PopulationRefined, PopulationEnd DEF Next

(* The invariant of the population holds in every state generate reaches:  *)
(* slots own their individuals and their niches, scores are of runs that   *)
(* exist, and pending jobs are jobs of the batch that is running.          *)
THEOREM CampaignPopulation == Spec => []PopulationInv
<1> QED BY InitInv, NextInv, PopulationInit, PopulationNext, PTL DEF Spec

(* The state of the search keeps its types. *)
THEOREM CampaignTypes == Spec => []TypeOK
<1>1. PopulationInv => TypeOK
    BY DEF PopulationInv
<1> QED BY <1>1, CampaignPopulation, PTL

(* The niche protection: through breeding, elites and reseeding every slot *)
(* keeps the obstacle count obstacleCountSchedule gave it.                 *)
THEOREM NichesProtected == Spec => []NicheQuota
<1>1. PopulationInv => NicheQuota
    BY DEF PopulationInv
<1> QED BY <1>1, CampaignPopulation, PTL

-----------------------------------------------------------------------------
(* PaceInv holds when generate starts. *)
LEMMA PaceInit == Init => PaceInv
<1> SUFFICES ASSUME Init PROVE PaceInv
    OBVIOUS
<1>1. killAfter = 0 /\ maxGoodDuration = 0 /\ slowestGood = 0 /\ bpc = "idle"
    BY DEF Init
<1>2. CurrentKillAfter \in Nat \ {0}
    BY <1>1, CurrentKillAfterType
<1> QED BY <1>1, <1>2 DEF PaceInv, MaxOf

(* An attempt that is not killed stays below the limit. *)
LEMMA PaceAttempt ==
    ASSUME PaceInv, Evaluate \/ Rerun
    PROVE  PaceInv'
<1>0. PICK w \in WallClock : \E i, result, run : Attempt(i, result, run, w)
    BY DEF Evaluate, Rerun
<1>1. PICK i, result, run : Attempt(i, result, run, w)
    BY <1>0
<1>2. /\ slowestGood' = IF run # Crash /\ ~Killed(w) /\ run.goal THEN MaxOf(slowestGood, w) ELSE slowestGood
      /\ bpc = "wave" /\ UNCHANGED <<killAfter, maxGoodDuration, bpc>>
    BY <1>1 DEF Attempt, Settle, searchVars
<1>3. w \in Nat /\ killAfter \in Nat /\ slowestGood \in Nat /\ killAfter > 0
    BY <1>2 DEF PaceInv
<1>4. ~Killed(w) /\ ~Isolated => w < killAfter
    BY <1>3 DEF Killed
<1>5. slowestGood' \in {slowestGood, MaxOf(slowestGood, w)} /\ (slowestGood' # slowestGood => ~Killed(w))
    BY <1>2
<1>6. slowestGood' \in Nat /\ (~Isolated => slowestGood' < MaxOf(killAfter, 1))
    BY <1>3, <1>4, <1>5 DEF PaceInv, MaxOf
<1>7. CurrentKillAfter' = CurrentKillAfter
    BY <1>2 DEF CurrentKillAfter
<1> QED BY <1>2, <1>3, <1>6, <1>7 DEF PaceInv

(* Every step keeps PaceInv. *)
LEMMA PaceNext == BudgetInv /\ PopulationInv /\ PaceInv /\ [Next]_vars => PaceInv'
<1> SUFFICES ASSUME BudgetInv, PopulationInv, PaceInv, [Next]_vars PROVE PaceInv'
    OBVIOUS
<1>0. /\ killAfter \in Nat /\ maxGoodDuration \in Nat /\ slowestGood \in Nat
      /\ CurrentKillAfter \in Nat \ {0} /\ killAfter <= CurrentKillAfter
      /\ ~Isolated => slowestGood < MaxOf(killAfter, 1)
    BY CurrentKillAfterType DEF PaceInv
<1>1. CASE Launch \/ StartRefinement
    <2>1. killAfter' = CurrentKillAfter /\ UNCHANGED <<maxGoodDuration, slowestGood>>
        BY <1>1, LaunchEffect, RefineEffect
    <2>2. CurrentKillAfter' = CurrentKillAfter
        BY <2>1 DEF CurrentKillAfter
    <2>3. ~Isolated => slowestGood' < MaxOf(killAfter', 1)
        BY <1>0, <2>1 DEF MaxOf
    <2> QED BY <1>0, <2>1, <2>2, <2>3 DEF PaceInv
<1>2. CASE RoundDone
    <2>1. /\ maxGoodDuration' = MaxOver(GoodDurations, maxGoodDuration) /\ bpc' = "idle"
          /\ UNCHANGED <<killAfter, slowestGood>>
        BY <1>2 DEF RoundDone, SlowestGoodSoFar
    <2>2. maxGoodDuration' \in Nat /\ maxGoodDuration <= maxGoodDuration'
        BY <1>0, <2>1, GoodDurationsType, MaxOverFacts
    <2>3. CurrentKillAfter' \in Nat /\ CurrentKillAfter <= CurrentKillAfter'
        <3>1. /\ CurrentKillAfter = MaxOf(MinTimeout, (TimeoutTenths * maxGoodDuration) \div 10)
              /\ CurrentKillAfter' = MaxOf(MinTimeout, (TimeoutTenths * maxGoodDuration') \div 10)
            BY DEF CurrentKillAfter
        <3> DEFINE a == maxGoodDuration
                   b == maxGoodDuration'
        <3>2. a \in Nat /\ b \in Nat /\ a <= b
            BY <1>0, <2>2
        <3> HIDE DEF a, b
        <3>3. /\ MaxOf(MinTimeout, (TimeoutTenths * b) \div 10) \in Nat \ {0}
              /\ MaxOf(MinTimeout, (TimeoutTenths * a) \div 10) <= MaxOf(MinTimeout, (TimeoutTenths * b) \div 10)
            BY <3>2, LimitGrows
        <3> QED BY <3>1, <3>3 DEF a, b
    <2> QED BY <1>0, <2>1, <2>2, <2>3 DEF PaceInv
<1>3. CASE Evaluate \/ Rerun
    BY <1>3, PaceAttempt
<1>4. CASE Breed \/ StartBatchWave \/ EndBatchWave \/ ElitesConfirmed \/ RefinementDone
           \/ ReturnedBudgetDone \/ Select \/ UNCHANGED vars
    <2>1. UNCHANGED <<killAfter, maxGoodDuration, slowestGood>>
        BY <1>4 DEF Breed, StartBatchWave, EndBatchWave, ElitesConfirmed, RefinementDone, ReturnedBudgetDone,
                    Select, searchVars, vars
    <2>2. bpc' # "idle" => bpc # "idle"
        BY <1>4 DEF Breed, StartBatchWave, StartWave, EndBatchWave, EndWave, ElitesConfirmed, Returning, RefinementDone,
                    ReturnedBudgetDone, Select, batchVars, vars
    <2>3. CurrentKillAfter' = CurrentKillAfter
        BY <2>1 DEF CurrentKillAfter
    <2> QED BY <2>1, <2>2, <2>3 DEF PaceInv
<1> QED BY <1>1, <1>2, <1>3, <1>4 DEF Next

(* The watchdog never kills a run that is no slower than one which reached *)
(* the goal before, whichever batch that run was in.                       *)
THEOREM GoodPaceKept == Spec => []GoodPaceSurvives
<1>1. PaceInv => GoodPaceSurvives
    BY DEF PaceInv, GoodPaceSurvives, MaxOf
<1> QED BY <1>1, PaceInit, PaceNext, PopulationInit, PopulationNext, InitInv, NextInv, PTL DEF Spec

-----------------------------------------------------------------------------
(***************************************************************************)
(* Measured layouts, their scores and the suite.                           *)
(***************************************************************************)

(* A layout is measured exactly when it has runs, and then it is legal;    *)
(* one that was never stuck has no run that missed the goal, but for the   *)
(* sentinel of a failed rerun.                                             *)
Sane(x) ==
    /\ x.illegal = ~x.fits
    /\ x.valid => x.fits /\ x.runs # <<>> /\ x.score.n \in 1..Len(x.runs)
    /\ ~x.valid => x.runs = <<>> /\ x.score.n = 0
    /\ ~x.stuck => \A r \in DOMAIN x.runs : x.runs[r].goal \/ x.runs[r].d = FAIL_SENTINEL
SaneInv == \A x \in DOMAIN heap : Sane(heap[x])

(* Whom the running batch works on. *)
PendingOnce == \A i, k \in DOMAIN pending : pending[i].job = pending[k].job => i = k
BatchJobs ==
    /\ pc = "evaluate" => /\ OneToOne(jobs, DOMAIN jobs)
                          /\ \A n \in DOMAIN jobs : \E k \in candidates : jobs[n] = pop[k]
    /\ pc = "elites" => \A n \in DOMAIN jobs : heap[jobs[n]].valid
    /\ pc = "refine" => \A n \in DOMAIN jobs : jobs[n] \in Range(promising)
    /\ pc = "refine" => \A x \in Range(promising) : heap[x].valid

(* The measured layouts are the evaluated ones, but for those of the round *)
(* that is running, whose layouts were free when it began.                 *)
Pending(x) == pc = "evaluate" /\ \E k \in candidates : x = pop[k]
EvaluatedInv ==
    /\ OneToOne(evaluated, DOMAIN evaluated)
    /\ \A n \in DOMAIN evaluated : heap[evaluated[n]].valid
    /\ \A x \in DOMAIN heap : heap[x].valid => x \in Range(evaluated) \/ Pending(x)
    /\ pc \in {"elites", "evaluate"} => \A k \in candidates :
          heap[pop[k]].fits /\ pop[k] \notin Range(evaluated)

(* An item of an evaluate batch that is not settled has no measurement. *)
Open(i) == i \in DOMAIN wave => wave[i] \in {"running", "FLAKE"}
OpenInv == pc = "evaluate" => \A i \in DOMAIN pending : Open(i) => ~heap[IndividualAt(i)].valid

(* Scores are out of date only for the layouts the batch is rerunning. *)
CurrentInv ==
    \A x \in DOMAIN heap : heap[x].valid =>
        \/ Current(heap[x])
        \/ pc = "elites" /\ x \in Range(jobs)
        \/ pc = "refine" /\ x \in Range(promising) /\ Len(heap[x].runs) > 1

ResultsInv == SaneInv /\ PendingOnce /\ BatchJobs /\ EvaluatedInv /\ OpenInv /\ CurrentInv

(* A new individual has no result. *)
LEMMA NewSane ==
    ASSUME NEW niche \in Niche, NEW legal \in BOOLEAN
    PROVE  Sane(NewIndividual(niche, legal)) /\ ~NewIndividual(niche, legal).valid
<1> DEFINE x == NewIndividual(niche, legal)
<1>1. /\ x.fits = legal /\ x.illegal = ~legal /\ ~x.valid /\ ~x.stuck /\ x.runs = <<>> /\ x.score.n = 0
    BY NewFacts
<1> HIDE DEF x
<1>2. DOMAIN x.runs = {}
    BY <1>1
<1>3. x.illegal = ~x.fits
    BY <1>1
<1>4. Sane(x)
    BY <1>1, <1>2, <1>3 DEF Sane
<1> QED BY <1>1, <1>4 DEF x

(* Rescoring keeps the results, and the score becomes that of all runs. *)
LEMMA RescoredSane ==
    ASSUME NEW x \in IndividualRecord, Sane(x), x.valid
    PROVE  LET y == Rescored(x) IN Sane(y) /\ y.valid /\ y.runs = x.runs /\ Current(y) /\ y.fits = x.fits
<1> DEFINE y == Rescored(x)
<1>1. /\ y \in IndividualRecord /\ Same(x, y)
      /\ y.illegal = x.illegal /\ y.valid = x.valid /\ y.stuck = x.stuck /\ y.runs = x.runs
      /\ Current(y) /\ y.score.n = Len(y.runs)
    BY RescoredFacts
<1>2. x.runs \in Seq(Run) /\ Len(x.runs) \in Nat
    BY RecordFields
<1> HIDE DEF y
<1>3. Len(x.runs) # 0
    BY <1>2 DEF Sane
<1>4. y.score.n \in 1..Len(y.runs)
    BY <1>1, <1>2, <1>3
<1>5. Sane(y)
    BY <1>1, <1>4 DEF Sane, Same
<1> QED BY <1>1, <1>5 DEF Same, y

(* Evaluating a layout that has no measurement. *)
LEMMA EvaluateSane ==
    ASSUME NEW x \in IndividualRecord, NEW y, NEW o, EvaluateStep(x, y, o), Sane(x), x.fits, ~x.valid
    PROVE  /\ Sane(y) /\ y.fits /\ (y.valid => Current(y) /\ o = "CONSUMED")
           /\ o \in {"CONSUMED", "FLAKE"}
           /\ (y.valid => Len(y.runs) = 1) /\ (~y.valid => y.runs = <<>>)
<1>1. x.runs = <<>> /\ x.score.n = 0 /\ x.illegal = ~x.fits /\ x.stuck \in BOOLEAN /\ x.fits \in BOOLEAN
    BY RecordFields DEF Sane
<1>2. y \in IndividualRecord /\ y.fits = x.fits /\ y.stuck \in BOOLEAN
    BY RecordFields DEF EvaluateStep, Same
<1>3. CASE y.valid
    <2>1. /\ o = "CONSUMED" /\ y.illegal = x.illegal /\ Current(y) /\ y.score.n = Len(y.runs)
          /\ \E run \in Run : y.runs = Append(x.runs, run) /\ y.stuck = (x.stuck \/ ~run.goal)
        BY <1>3 DEF EvaluateStep, SameResult
    <2>2. PICK run \in Run : y.runs = Append(<<>>, run) /\ y.stuck = (x.stuck \/ ~run.goal)
        BY <1>1, <2>1
    <2>3. y.runs = <<run>> /\ Len(y.runs) = 1 /\ DOMAIN y.runs = {1} /\ y.runs[1] = run /\ y.runs # <<>>
        BY <2>2
    <2>4. ~y.stuck => run.goal
        BY <2>2
    <2>5. y.score.n \in 1..Len(y.runs)
        BY <2>1, <2>3
    <2>6. ~y.stuck => \A r \in DOMAIN y.runs : y.runs[r].goal \/ y.runs[r].d = FAIL_SENTINEL
        BY <2>3, <2>4
    <2>7. Sane(y)
        BY <1>1, <1>2, <1>3, <2>1, <2>3, <2>5, <2>6 DEF Sane
    <2> QED BY <1>2, <1>3, <2>1, <2>3, <2>7
<1>4. CASE ~y.valid
    <2>1. o \in {"CONSUMED", "FLAKE"} /\ y.illegal = x.illegal /\ y.runs = x.runs /\ y.score.n = 0
        BY <1>1, <1>4 DEF EvaluateStep, SameResult
    <2>2. y.runs = <<>> /\ DOMAIN y.runs = {}
        BY <1>1, <2>1
    <2>3. Sane(y)
        BY <1>1, <1>2, <1>4, <2>1, <2>2 DEF Sane
    <2> QED BY <1>2, <1>4, <2>1, <2>2, <2>3
<1> QED BY <1>3, <1>4

(* Rerunning a measured layout. *)
LEMMA RerunSane ==
    ASSUME NEW x \in IndividualRecord, NEW y, NEW o, RerunStep(x, y, o), Sane(x), x.valid
    PROVE  /\ Sane(y) /\ y.valid /\ y.fits = x.fits /\ Len(x.runs) >= 1
           /\ \/ o = "FLAKE" /\ Len(y.runs) = Len(x.runs) /\ (Current(x) => Current(y))
              \/ o = "CONSUMED" /\ Len(y.runs) = Len(x.runs) + 1
<1>1. /\ x.runs # <<>> /\ x.score.n \in 1..Len(x.runs) /\ x.illegal = ~x.fits /\ x.fits
      /\ ~x.stuck => \A r \in DOMAIN x.runs : x.runs[r].goal \/ x.runs[r].d = FAIL_SENTINEL
    BY DEF Sane
<1>2. x.runs \in Seq(Run) /\ Len(x.runs) \in Nat /\ DOMAIN x.runs = 1..Len(x.runs)
    BY RecordFields, ListElements
<1>3. y \in IndividualRecord /\ y.fits = x.fits /\ Len(x.runs) >= 1
    BY <1>1, <1>2 DEF RerunStep, Same
<1>4. CASE o = "FLAKE"
    <2>1. SameResult(x, y)
        BY <1>4, Zenon DEF RerunStep
    <2>2. /\ y.illegal = x.illegal /\ y.valid = x.valid /\ y.stuck = x.stuck /\ y.runs = x.runs /\ y.score = x.score
        BY <2>1 DEF SameResult
    <2>3. Sane(y)
        BY <1>1, <1>3, <2>2 DEF Sane
    <2>4. Current(x) => Current(y)
        BY <2>2 DEF Current
    <2> QED BY <1>3, <1>4, <2>2, <2>3, <2>4
<1>5. CASE o # "FLAKE"
    <2>1. /\ o = "CONSUMED" /\ y.illegal = x.illegal /\ y.valid = x.valid /\ y.score = x.score /\ (x.stuck => y.stuck)
          /\ \E run \in Run : y.runs = Append(x.runs, run) /\ (~y.stuck => run.goal \/ run.d = FAIL_SENTINEL)
        BY <1>5, Zenon DEF RerunStep
    <2>2. PICK run \in Run : y.runs = Append(x.runs, run) /\ (~y.stuck => run.goal \/ run.d = FAIL_SENTINEL)
        BY <2>1
    <2>3. /\ Len(y.runs) = Len(x.runs) + 1 /\ DOMAIN y.runs = 1..(Len(x.runs) + 1)
          /\ \A r \in 1..Len(x.runs) : y.runs[r] = x.runs[r]
          /\ y.runs[Len(x.runs) + 1] = run
        BY <1>2, <2>2
    <2>4. ~y.stuck => \A r \in DOMAIN y.runs : y.runs[r].goal \/ y.runs[r].d = FAIL_SENTINEL
        <3> SUFFICES ASSUME ~y.stuck, NEW r \in 1..(Len(x.runs) + 1)
                     PROVE  y.runs[r].goal \/ y.runs[r].d = FAIL_SENTINEL
            BY <2>3
        <3>1. CASE r \in 1..Len(x.runs)
            <4>1. ~x.stuck
                BY <2>1
            <4>2. x.runs[r].goal \/ x.runs[r].d = FAIL_SENTINEL
                BY <1>1, <1>2, <3>1, <4>1
            <4> QED BY <2>3, <3>1, <4>2
        <3>2. CASE r = Len(x.runs) + 1
            BY <2>2, <2>3, <3>2
        <3> QED BY <1>2, <3>1, <3>2
    <2>5. y.score.n \in 1..Len(y.runs) /\ y.runs # <<>>
        <3>1. y.score.n \in 1..Len(x.runs)
            BY <1>1, <2>1
        <3>2. y.runs # <<>>
            BY <1>2, <2>2
        <3> QED BY <1>2, <2>3, <3>1, <3>2
    <2>6. Sane(y)
        BY <1>1, <1>3, <2>1, <2>4, <2>5 DEF Sane
    <2> QED BY <1>3, <2>1, <2>3, <2>6
<1> QED BY <1>4, <1>5

-----------------------------------------------------------------------------
(* The references that the search holds. *)
LEMMA References ==
    ASSUME PopulationInv
    PROVE  /\ \A x \in DOMAIN heap : heap[x] \in IndividualRecord
           /\ \A n \in DOMAIN evaluated : evaluated[n] \in DOMAIN heap
           /\ \A n \in DOMAIN jobs : jobs[n] \in DOMAIN heap
           /\ \A n \in DOMAIN promising : promising[n] \in DOMAIN heap
           /\ \A k \in Slot : pop[k] \in DOMAIN heap
           /\ candidates \subseteq Slot
<1>1. /\ heap \in Seq(IndividualRecord) /\ evaluated \in Seq(DOMAIN heap) /\ jobs \in Seq(DOMAIN heap)
      /\ promising \in Seq(DOMAIN heap) /\ pop \in [Slot -> DOMAIN heap] /\ candidates \subseteq Slot
    BY DEF PopulationInv, TypeOK
<1>2. \A x \in DOMAIN heap : heap[x] \in IndividualRecord
    BY <1>1, ListElements
<1>3. \A n \in DOMAIN evaluated : evaluated[n] \in DOMAIN heap
    BY <1>1, ListElements
<1>4. \A n \in DOMAIN jobs : jobs[n] \in DOMAIN heap
    BY <1>1, ListElements
<1>5. \A n \in DOMAIN promising : promising[n] \in DOMAIN heap
    BY <1>1, ListElements
<1> QED BY <1>1, <1>2, <1>3, <1>4, <1>5

(* ResultsInv holds when generate starts. *)
LEMMA ResultsInit == Init => ResultsInv
<1> SUFFICES ASSUME Init PROVE ResultsInv
    OBVIOUS
<1>1. /\ heap = [k \in Slot |-> heap[k]]
      /\ \A k \in Slot : \E l \in BOOLEAN : heap[k] = NewIndividual(Counts[k], l)
    BY InitHeap
<1>2. pc = "round" /\ evaluated = <<>> /\ pending = <<>>
    BY DEF Init
<1>3. \A x \in DOMAIN heap : Sane(heap[x]) /\ ~heap[x].valid
    BY <1>1, CountsType, NewSane
<1>4. SaneInv /\ CurrentInv
    BY <1>3 DEF SaneInv, CurrentInv
<1>5. PendingOnce /\ BatchJobs /\ OpenInv
    BY <1>2 DEF PendingOnce, BatchJobs, OpenInv
<1>6. DOMAIN evaluated = {}
    BY <1>2
<1>7. EvaluatedInv
    BY <1>2, <1>3, <1>6 DEF EvaluatedInv, OneToOne
<1> QED BY <1>4, <1>5, <1>7 DEF ResultsInv

(* New individuals have no results; the others keep theirs. *)
LEMMA GrownResults ==
    ASSUME SaneInv, NEW S \in SUBSET Slot, Grown(S)
    PROVE  SaneInv' /\ \A x \in DOMAIN heap' : heap'[x].valid => x \in DOMAIN heap /\ heap'[x] = heap[x]
<1>1. ASSUME NEW x \in DOMAIN heap'
      PROVE  Sane(heap'[x]) /\ (heap'[x].valid => x \in DOMAIN heap /\ heap'[x] = heap[x])
    <2>1. CASE x \in DOMAIN heap
        BY <2>1 DEF Grown, SaneInv
    <2>2. CASE x \notin DOMAIN heap
        <3>1. PICK k \in S : x = pop'[k]
            BY <2>2 DEF Grown
        <3>2. PICK l \in BOOLEAN : heap'[x] = NewIndividual(Counts[k], l)
            BY <3>1 DEF Grown
        <3>3. Counts[k] \in Niche
            BY CountsType
        <3> QED BY <3>2, <3>3, NewSane
    <2> QED BY <2>1, <2>2
<1> QED BY <1>1 DEF SaneInv

(* Breeding keeps ResultsInv. *)
LEMMA ResultsBreed == BudgetInv /\ PopulationInv /\ ResultsInv /\ Breed => ResultsInv'
<1> SUFFICES ASSUME BudgetInv, PopulationInv, ResultsInv, Breed PROVE ResultsInv'
    OBVIOUS
<1> DEFINE S == Slot \ EliteSlots
<1>1. Grown(S) /\ S \in SUBSET Slot
    BY BreedEffect
<1> HIDE DEF S
<1>2. /\ pc = "round" /\ pc' = "launch" /\ UNCHANGED <<jobs, pending, wave, evaluated, promising>>
    BY DEF Breed, batchVars
<1>3. SaneInv' /\ \A x \in DOMAIN heap' : heap'[x].valid => x \in DOMAIN heap /\ heap'[x] = heap[x]
    BY <1>1, GrownResults DEF ResultsInv
<1>4. \A x \in DOMAIN heap : heap'[x] = heap[x]
    BY <1>1 DEF Grown
<1>5. PendingOnce' /\ BatchJobs' /\ OpenInv'
    BY <1>2 DEF ResultsInv, PendingOnce, BatchJobs, OpenInv
<1>6. EvaluatedInv'
    <2>1. OneToOne(evaluated', DOMAIN evaluated')
        BY <1>2 DEF ResultsInv, EvaluatedInv
    <2>2. \A n \in DOMAIN evaluated' : heap'[evaluated'[n]].valid
        BY <1>2, <1>4, References DEF ResultsInv, EvaluatedInv
    <2>3. \A x \in DOMAIN heap' : heap'[x].valid => x \in Range(evaluated')
        BY <1>2, <1>3 DEF ResultsInv, EvaluatedInv, Pending
    <2> QED BY <1>2, <2>1, <2>2, <2>3 DEF EvaluatedInv
<1>7. CurrentInv'
    BY <1>2, <1>3 DEF ResultsInv, CurrentInv
<1> QED BY <1>3, <1>5, <1>6, <1>7 DEF ResultsInv

(* Starting a batch keeps ResultsInv. *)
LEMMA ResultsLaunch == BudgetInv /\ PopulationInv /\ ResultsInv /\ Launch => ResultsInv'
<1> SUFFICES ASSUME BudgetInv, PopulationInv, ResultsInv, Launch PROVE ResultsInv'
    OBVIOUS
<1>1. /\ pc \in {"round", "launch"} /\ pc' \in {"elites", "evaluate"}
      /\ candidates' \subseteq FreeSlots /\ candidates' \subseteq Slot
      /\ \/ pc' = "elites" /\ \E b : Call(At(pop, ValidSlots), b)
         \/ pc' = "evaluate" /\ \E b : Call(At(pop, candidates'), b)
      /\ UNCHANGED <<heap, pop, evaluated, promising>>
    BY LaunchEffect
<1> DEFINE S == IF pc' = "elites" THEN ValidSlots ELSE candidates'
<1>2. S \in SUBSET Slot
    BY <1>1 DEF ValidSlots
<1>3. PICK b : Call(At(pop, S), b)
    BY <1>1
<1>4. /\ At(pop, S) \in Seq(DOMAIN heap)
      /\ \A m, n \in DOMAIN At(pop, S) : At(pop, S)[m] = At(pop, S)[n] => m = n
      /\ \A n \in DOMAIN At(pop, S) : \E k \in S : At(pop, S)[n] = pop[k]
    <2> HIDE DEF S
    <2> QED BY <1>2, SlotJobs
<1>5. /\ jobs' = At(pop, S) /\ DOMAIN wave' = {} /\ DOMAIN pending' = DOMAIN jobs'
      /\ \A i \in DOMAIN jobs' : pending'[i].job = i
    <2> DEFINE js == At(pop, S)
    <2> HIDE DEF S
    <2> HIDE DEF js
    <2>1. js \in Seq(DOMAIN heap) /\ Call(js, b)
        BY <1>3, <1>4 DEF js
    <2>2. jobs' = js /\ DOMAIN wave' = {} /\ DOMAIN pending' = DOMAIN js
          /\ \A i \in DOMAIN js : pending'[i].job = i
        BY <2>1, CallFacts
    <2> QED BY <2>2 DEF js
<1> HIDE DEF S
<1>6. /\ OneToOne(jobs', DOMAIN jobs')
      /\ \A n \in DOMAIN jobs' : \E k \in S : jobs'[n] = pop[k]
    BY <1>4, <1>5 DEF OneToOne
<1>7. \A k \in candidates' : ~heap[pop[k]].valid /\ heap[pop[k]].fits
    <2> TAKE k \in candidates'
    <2>1. k \in Slot /\ ~heap[pop[k]].valid /\ ~heap[pop[k]].illegal
        BY <1>1 DEF FreeSlots
    <2>2. pop[k] \in DOMAIN heap /\ heap[pop[k]] \in IndividualRecord
        BY <2>1, References
    <2>3. heap[pop[k]].illegal = ~heap[pop[k]].fits /\ heap[pop[k]].fits \in BOOLEAN
        BY <2>2, RecordFields DEF ResultsInv, SaneInv, Sane
    <2> QED BY <2>1, <2>3
<1>8. SaneInv' /\ PendingOnce'
    BY <1>1, <1>5 DEF ResultsInv, SaneInv, PendingOnce
<1>9. BatchJobs'
    <2>1. pc' = "evaluate" => \A n \in DOMAIN jobs' : \E k \in candidates' : jobs'[n] = pop'[k]
        BY <1>1, <1>6 DEF S
    <2>2. pc' = "elites" => \A n \in DOMAIN jobs' : heap'[jobs'[n]].valid
        BY <1>1, <1>6 DEF S, ValidSlots
    <2> QED BY <1>1, <1>6, <2>1, <2>2 DEF BatchJobs
<1>10. EvaluatedInv'
    <2>1. OneToOne(evaluated, DOMAIN evaluated) /\ \A n \in DOMAIN evaluated : heap[evaluated[n]].valid
        BY DEF ResultsInv, EvaluatedInv
    <2>2. \A x \in DOMAIN heap : heap[x].valid => x \in Range(evaluated)
        BY <1>1 DEF ResultsInv, EvaluatedInv, Pending
    <2>3. \A k \in candidates' : pop[k] \notin Range(evaluated)
        BY <1>7, <2>1 DEF Range
    <2> QED BY <1>1, <1>7, <2>1, <2>2, <2>3 DEF EvaluatedInv
<1>11. OpenInv'
    <2> SUFFICES ASSUME pc' = "evaluate", NEW i \in DOMAIN pending'
                 PROVE  ~heap'[jobs'[pending'[i].job]].valid
        BY DEF OpenInv, IndividualAt
    <2>1. i \in DOMAIN jobs' /\ pending'[i].job = i
        BY <1>5
    <2>2. PICK k \in candidates' : jobs'[i] = pop[k]
        BY <1>6, <2>1 DEF S
    <2> QED BY <1>1, <1>7, <2>1, <2>2
<1>12. CurrentInv'
    BY <1>1 DEF ResultsInv, CurrentInv
<1> QED BY <1>8, <1>9, <1>10, <1>11, <1>12 DEF ResultsInv

(* The scheduler's own steps. *)
LEMMA ResultsWaves == BudgetInv /\ PopulationInv /\ ResultsInv /\ (StartBatchWave \/ EndBatchWave) => ResultsInv'
<1> SUFFICES ASSUME BudgetInv, PopulationInv, ResultsInv, StartBatchWave \/ EndBatchWave PROVE ResultsInv'
    OBVIOUS
<1>1. UNCHANGED <<heap, pop, evaluated, candidates, promising, jobs, pc>>
    BY DEF StartBatchWave, StartWave, EndBatchWave, EndWave, searchVars
<1>2. SaneInv' /\ BatchJobs' /\ CurrentInv'
    BY <1>1 DEF ResultsInv, SaneInv, BatchJobs, CurrentInv
<1>3. EvaluatedInv'
    BY <1>1 DEF ResultsInv, EvaluatedInv, Pending
<1>4. CASE StartBatchWave
    <2>1. UNCHANGED pending /\ bpc = "loop"
        BY <1>4 DEF StartBatchWave, StartWave
    <2>2. DOMAIN wave = {}
        BY <2>1 DEF BudgetInv, SchedulerInv
    <2>3. \A i : Open(i)
        BY <2>2 DEF Open
    <2>4. OpenInv'
        BY <1>1, <2>1, <2>3 DEF ResultsInv, OpenInv, IndividualAt
    <2>5. PendingOnce'
        BY <2>1 DEF ResultsInv, PendingOnce
    <2> QED BY <1>2, <1>3, <2>4, <2>5 DEF ResultsInv
<1>5. CASE EndBatchWave
    <2>1. PICK origin : Moved(origin)
        BY <1>5, EndWaveEffect
    <2>2. PendingOnce'
        BY <2>1 DEF Moved, ResultsInv, PendingOnce
    <2>3. OpenInv'
        <3> SUFFICES ASSUME pc' = "evaluate", NEW n \in DOMAIN pending'
                     PROVE  ~heap'[jobs'[pending'[n].job]].valid
            BY DEF OpenInv, IndividualAt
        <3>1. /\ origin[n] \in DOMAIN pending /\ pending'[n].job = pending[origin[n]].job
              /\ origin[n] \in DOMAIN wave => wave[origin[n]] = "FLAKE"
            BY <2>1 DEF Moved
        <3>2. Open(origin[n])
            BY <3>1 DEF Open
        <3>3. ~heap[jobs[pending[origin[n]].job]].valid
            BY <1>1, <3>1, <3>2 DEF ResultsInv, OpenInv, IndividualAt
        <3> QED BY <1>1, <3>1, <3>3
    <2> QED BY <1>2, <1>3, <2>2, <2>3 DEF ResultsInv
<1> QED BY <1>4, <1>5

-----------------------------------------------------------------------------
(* An evaluate attempt returns. *)
LEMMA ResultsEvaluate == BudgetInv /\ PopulationInv /\ ResultsInv /\ Evaluate => ResultsInv'
<1> SUFFICES ASSUME BudgetInv, PopulationInv, ResultsInv, Evaluate PROVE ResultsInv'
    OBVIOUS
<1>1. pc = "evaluate" /\ \E i, o, y : Attempted(i, o, y) /\ EvaluateStep(heap[IndividualAt(i)], y, o)
    BY EvaluateEffect
<1>2. PICK i, o, y : Attempted(i, o, y) /\ EvaluateStep(heap[IndividualAt(i)], y, o)
    BY <1>1
<1> DEFINE x == IndividualAt(i)
<1>3. /\ i \in DOMAIN wave /\ i \in DOMAIN pending /\ pending[i].job \in DOMAIN jobs
      /\ x \in DOMAIN heap /\ heap[x] \in IndividualRecord
      /\ wave[i] = "running" /\ wave' = [wave EXCEPT ![i] = o]
      /\ DOMAIN heap' = DOMAIN heap /\ heap'[x] = y /\ \A z \in DOMAIN heap \ {x} : heap'[z] = heap[z]
      /\ UNCHANGED <<jobs, pending, pc, pop, evaluated, candidates, promising>>
    BY <1>2 DEF Attempted, searchVars
<1>4. /\ x = jobs[pending[i].job] /\ ~heap[x].valid
    BY <1>1, <1>3 DEF ResultsInv, OpenInv, Open, IndividualAt
<1>5. PICK k \in candidates : x = pop[k]
    BY <1>1, <1>3, <1>4 DEF ResultsInv, BatchJobs
<1>6. heap[x].fits /\ Sane(heap[x])
    BY <1>1, <1>3, <1>5 DEF ResultsInv, EvaluatedInv, SaneInv
<1>7. /\ Sane(y) /\ y.fits /\ (y.valid => Current(y) /\ o = "CONSUMED")
    BY <1>2, <1>3, <1>4, <1>6, EvaluateSane
<1> HIDE DEF x
<1>8. SaneInv'
    BY <1>3, <1>7 DEF ResultsInv, SaneInv
<1>9. PendingOnce'
    BY <1>3 DEF ResultsInv, PendingOnce
<1>10. BatchJobs'
    BY <1>1, <1>3 DEF ResultsInv, BatchJobs
<1>11. EvaluatedInv'
    <2>1. OneToOne(evaluated, DOMAIN evaluated)
        BY DEF ResultsInv, EvaluatedInv
    <2>2. \A n \in DOMAIN evaluated : heap'[evaluated[n]].valid
        <3> TAKE n \in DOMAIN evaluated
        <3>1. heap[evaluated[n]].valid /\ evaluated[n] \in DOMAIN heap
            BY References DEF ResultsInv, EvaluatedInv
        <3> QED BY <1>3, <1>4, <3>1
    <2>3. \A z \in DOMAIN heap : heap'[z].valid => z \in Range(evaluated) \/ Pending(z)
        <3> TAKE z \in DOMAIN heap
        <3>1. CASE z = x
            BY <1>1, <1>5, <3>1 DEF Pending
        <3>2. CASE z # x
            BY <1>3, <3>2 DEF ResultsInv, EvaluatedInv
        <3> QED BY <3>1, <3>2
    <2>4. \A j \in candidates : heap'[pop[j]].fits /\ pop[j] \notin Range(evaluated)
        <3> TAKE j \in candidates
        <3>1. heap[pop[j]].fits /\ pop[j] \notin Range(evaluated) /\ pop[j] \in DOMAIN heap
            BY <1>1, References DEF ResultsInv, EvaluatedInv
        <3> QED BY <1>3, <1>7, <3>1
    <2>5. \A z : Pending(z)' = Pending(z)
        BY <1>3 DEF Pending
    <2> QED BY <1>3, <2>1, <2>2, <2>3, <2>4, <2>5 DEF EvaluatedInv
<1>12. OpenInv'
    <2> SUFFICES ASSUME NEW j \in DOMAIN pending, j \in DOMAIN wave' => wave'[j] \in {"running", "FLAKE"}
                 PROVE  ~heap'[jobs[pending[j].job]].valid
        BY <1>3 DEF OpenInv, Open, IndividualAt
    <2>1. CASE j = i
        <3>1. o = "FLAKE" \/ o = "running"
            BY <1>3, <2>1
        <3> QED BY <1>3, <1>4, <1>7, <2>1, <3>1
    <2>2. CASE j # i
        <3>1. Open(j)
            BY <1>3, <2>2 DEF Open
        <3>2. ~heap[jobs[pending[j].job]].valid
            BY <1>1, <3>1 DEF ResultsInv, OpenInv, IndividualAt
        <3>3. pending[j].job \in DOMAIN jobs /\ jobs[pending[j].job] \in DOMAIN heap
            BY JobIndividual, References
        <3>4. pending[j].job # pending[i].job
            BY <1>3, <2>2 DEF ResultsInv, PendingOnce
        <3>5. jobs[pending[j].job] # x
            BY <1>1, <1>3, <1>4, <3>3, <3>4 DEF ResultsInv, BatchJobs, OneToOne
        <3> QED BY <1>3, <3>2, <3>3, <3>5
    <2> QED BY <2>1, <2>2
<1>13. CurrentInv'
    <2> SUFFICES ASSUME NEW z \in DOMAIN heap, heap'[z].valid PROVE Current(heap'[z])
        BY <1>1, <1>3 DEF CurrentInv
    <2>1. CASE z = x
        BY <1>3, <1>7, <2>1
    <2>2. CASE z # x
        BY <1>1, <1>3, <2>2 DEF ResultsInv, CurrentInv
    <2> QED BY <2>1, <2>2
<1> QED BY <1>8, <1>9, <1>10, <1>11, <1>12, <1>13 DEF ResultsInv

(* A rerun returns. *)
LEMMA ResultsRerun == BudgetInv /\ PopulationInv /\ ResultsInv /\ Rerun => ResultsInv'
<1> SUFFICES ASSUME BudgetInv, PopulationInv, ResultsInv, Rerun PROVE ResultsInv'
    OBVIOUS
<1>1. pc \in {"elites", "refine"} /\ \E i, o, y : Attempted(i, o, y) /\ RerunStep(heap[IndividualAt(i)], y, o)
    BY RerunEffect
<1>2. PICK i, o, y : Attempted(i, o, y) /\ RerunStep(heap[IndividualAt(i)], y, o)
    BY <1>1
<1> DEFINE x == IndividualAt(i)
<1>3. /\ i \in DOMAIN pending /\ pending[i].job \in DOMAIN jobs
      /\ x \in DOMAIN heap /\ heap[x] \in IndividualRecord
      /\ DOMAIN heap' = DOMAIN heap /\ heap'[x] = y /\ \A z \in DOMAIN heap \ {x} : heap'[z] = heap[z]
      /\ UNCHANGED <<jobs, pending, pc, pop, evaluated, candidates, promising>>
    BY <1>2 DEF Attempted, searchVars
<1>4. /\ x = jobs[pending[i].job] /\ x \in Range(jobs)
    BY <1>3 DEF IndividualAt, Range
<1>5. heap[x].valid /\ (pc = "refine" => x \in Range(promising))
    BY <1>1, <1>3, <1>4 DEF ResultsInv, BatchJobs
<1>6. Sane(heap[x])
    BY <1>3 DEF ResultsInv, SaneInv
<1>7. /\ Sane(y) /\ y.valid /\ y.fits = heap[x].fits /\ Len(heap[x].runs) >= 1
      /\ \/ Len(y.runs) = Len(heap[x].runs) /\ (Current(heap[x]) => Current(y))
         \/ Len(y.runs) = Len(heap[x].runs) + 1
    BY <1>2, <1>3, <1>5, <1>6, RerunSane
<1>8. Len(heap[x].runs) \in Nat
    BY <1>3, RecordFields
<1> HIDE DEF x
<1>9. \A z \in DOMAIN heap : heap'[z].valid = heap[z].valid /\ heap'[z].fits = heap[z].fits
    BY <1>3, <1>5, <1>7, RecordFields
<1>10. SaneInv'
    BY <1>3, <1>7 DEF ResultsInv, SaneInv
<1>11. PendingOnce' /\ OpenInv'
    BY <1>1, <1>3 DEF ResultsInv, PendingOnce, OpenInv
<1>12. BatchJobs'
    <2>1. \A n \in DOMAIN jobs : heap'[jobs[n]].valid = heap[jobs[n]].valid
        BY <1>9, References
    <2>2. \A z \in Range(promising) : heap'[z].valid = heap[z].valid
        BY <1>9, References DEF Range
    <2> QED BY <1>1, <1>3, <2>1, <2>2 DEF ResultsInv, BatchJobs
<1>13. EvaluatedInv'
    <2>1. \A n \in DOMAIN evaluated : heap'[evaluated[n]].valid
        BY <1>9, References DEF ResultsInv, EvaluatedInv
    <2>2. \A z \in DOMAIN heap : heap'[z].valid => z \in Range(evaluated)
        BY <1>1, <1>9 DEF ResultsInv, EvaluatedInv, Pending
    <2>3. pc = "elites" => \A j \in candidates : heap'[pop[j]].fits /\ pop[j] \notin Range(evaluated)
        BY <1>9, References DEF ResultsInv, EvaluatedInv
    <2> QED BY <1>1, <1>3, <2>1, <2>2, <2>3 DEF ResultsInv, EvaluatedInv
<1>14. CurrentInv'
    <2> SUFFICES ASSUME NEW z \in DOMAIN heap, heap'[z].valid
                 PROVE  \/ Current(heap'[z])
                        \/ pc = "elites" /\ z \in Range(jobs)
                        \/ pc = "refine" /\ z \in Range(promising) /\ Len(heap'[z].runs) > 1
        BY <1>3 DEF CurrentInv
    <2>1. CASE z # x
        BY <1>3, <2>1 DEF ResultsInv, CurrentInv
    <2>2. CASE z = x /\ pc = "elites"
        BY <1>4, <2>2
    <2>3. CASE z = x /\ pc = "refine"
        <3>1. \/ Current(heap[x])
              \/ Len(heap[x].runs) > 1
            BY <1>3, <1>5, <2>3 DEF ResultsInv, CurrentInv
        <3>2. Current(y) \/ Len(y.runs) > 1
            BY <1>7, <1>8, <3>1
        <3> QED BY <1>3, <1>5, <2>3, <3>2
    <2> QED BY <1>1, <2>1, <2>2, <2>3
<1> QED BY <1>10, <1>11, <1>12, <1>13, <1>14 DEF ResultsInv

-----------------------------------------------------------------------------
(* A step that rescores measured layouts only. *)
LEMMA RescoredResults ==
    ASSUME PopulationInv, SaneInv, NEW S, RescoredIn(S), \A x \in DOMAIN heap : x \in S => heap[x].valid
    PROVE  /\ SaneInv'
           /\ \A x \in DOMAIN heap : /\ heap'[x].valid = heap[x].valid /\ heap'[x].fits = heap[x].fits
                                     /\ heap'[x].runs = heap[x].runs
           /\ \A x \in DOMAIN heap : x \in S => Current(heap'[x])
<1>1. ASSUME NEW x \in DOMAIN heap
      PROVE  /\ Sane(heap'[x]) /\ heap'[x].valid = heap[x].valid /\ heap'[x].fits = heap[x].fits
             /\ heap'[x].runs = heap[x].runs /\ (x \in S => Current(heap'[x]))
    <2>1. heap[x] \in IndividualRecord /\ Sane(heap[x])
        BY References DEF SaneInv
    <2>2. CASE x \in S
        <3>1. heap[x].valid /\ heap'[x] = Rescored(heap[x])
            BY <2>2 DEF RescoredIn
        <3>2. LET y == Rescored(heap[x]) IN
              Sane(y) /\ y.valid /\ y.runs = heap[x].runs /\ Current(y) /\ y.fits = heap[x].fits
            BY <2>1, <3>1, RescoredSane
        <3>3. Rescored(heap[x]).valid = heap[x].valid
            BY <2>1, RescoredFacts
        <3> QED BY <3>1, <3>2, <3>3
    <2>3. CASE x \notin S
        BY <2>1, <2>3 DEF RescoredIn
    <2> QED BY <2>2, <2>3
<1>2. SaneInv'
    BY <1>1 DEF RescoredIn, SaneInv
<1> QED BY <1>1, <1>2

(* The elite batch is back. *)
LEMMA ResultsElites == BudgetInv /\ PopulationInv /\ ResultsInv /\ ElitesConfirmed => ResultsInv'
<1> SUFFICES ASSUME BudgetInv, PopulationInv, ResultsInv, ElitesConfirmed PROVE ResultsInv'
    OBVIOUS
<1>1. /\ RescoredIn(Range(jobs)) /\ pc = "elites" /\ pc' = "evaluate"
      /\ candidates' \subseteq candidates /\ candidates \subseteq Slot
      /\ \E b : Call(At(pop, candidates'), b)
      /\ UNCHANGED <<pop, evaluated, promising>>
    BY ElitesEffect
<1>2. \A x \in DOMAIN heap : x \in Range(jobs) => heap[x].valid
    BY <1>1 DEF ResultsInv, BatchJobs, Range
<1>3. /\ SaneInv'
      /\ \A x \in DOMAIN heap : heap'[x].valid = heap[x].valid /\ heap'[x].fits = heap[x].fits
      /\ \A x \in DOMAIN heap : x \in Range(jobs) => Current(heap'[x])
    <2> DEFINE S == Range(jobs)
    <2>1. RescoredIn(S) /\ (\A x \in DOMAIN heap : x \in S => heap[x].valid) /\ SaneInv
        BY <1>1, <1>2 DEF ResultsInv
    <2> HIDE DEF S
    <2>2. /\ SaneInv'
          /\ \A x \in DOMAIN heap : heap'[x].valid = heap[x].valid /\ heap'[x].fits = heap[x].fits
          /\ \A x \in DOMAIN heap : x \in S => Current(heap'[x])
        BY <2>1, RescoredResults
    <2> QED BY <2>2 DEF S
<1>4. DOMAIN heap' = DOMAIN heap /\ \A x \in DOMAIN heap : x \notin Range(jobs) => heap'[x] = heap[x]
    BY <1>1 DEF RescoredIn
<1>5. PICK b : Call(At(pop, candidates'), b)
    BY <1>1
<1>6. /\ DOMAIN wave' = {} /\ DOMAIN pending' = DOMAIN jobs'
      /\ \A i \in DOMAIN jobs' : pending'[i].job = i
      /\ OneToOne(jobs', DOMAIN jobs')
      /\ \A n \in DOMAIN jobs' : \E k \in candidates' : jobs'[n] = pop[k]
    <2> DEFINE S == candidates'
               js == At(pop, S)
    <2>1. S \in SUBSET Slot
        BY <1>1
    <2>2. Call(js, b)
        BY <1>5
    <2> HIDE DEF S
    <2>3. /\ js \in Seq(DOMAIN heap)
          /\ \A m, n \in DOMAIN js : js[m] = js[n] => m = n
          /\ \A n \in DOMAIN js : \E k \in S : js[n] = pop[k]
        BY <2>1, SlotJobs
    <2> HIDE DEF js
    <2>4. jobs' = js /\ DOMAIN wave' = {} /\ DOMAIN pending' = DOMAIN js
          /\ \A i \in DOMAIN js : pending'[i].job = i
        BY <2>2, <2>3, CallFacts
    <2> QED BY <2>3, <2>4 DEF S, OneToOne
<1>7. \A k \in candidates' : /\ ~heap[pop[k]].valid /\ heap[pop[k]].fits /\ pop[k] \notin Range(evaluated)
                             /\ pop[k] \in DOMAIN heap
    <2> TAKE k \in candidates'
    <2>1. heap[pop[k]].fits /\ pop[k] \notin Range(evaluated) /\ pop[k] \in DOMAIN heap
        BY <1>1, References DEF ResultsInv, EvaluatedInv
    <2>2. ~heap[pop[k]].valid
        BY <1>1, <2>1 DEF ResultsInv, EvaluatedInv, Pending
    <2> QED BY <2>1, <2>2
<1>8. PendingOnce'
    BY <1>6 DEF PendingOnce
<1>9. BatchJobs'
    BY <1>1, <1>6 DEF BatchJobs
<1>10. EvaluatedInv'
    <2>1. OneToOne(evaluated, DOMAIN evaluated)
        BY DEF ResultsInv, EvaluatedInv
    <2>2. \A n \in DOMAIN evaluated : heap'[evaluated[n]].valid
        BY <1>3, References DEF ResultsInv, EvaluatedInv
    <2>3. \A x \in DOMAIN heap' : heap'[x].valid => x \in Range(evaluated)
        BY <1>1, <1>3, <1>4 DEF ResultsInv, EvaluatedInv, Pending
    <2>4. \A k \in candidates' : heap'[pop[k]].fits /\ pop[k] \notin Range(evaluated)
        BY <1>3, <1>7
    <2> QED BY <1>1, <2>1, <2>2, <2>3, <2>4 DEF EvaluatedInv
<1>11. OpenInv'
    <2> SUFFICES ASSUME NEW i \in DOMAIN pending' PROVE ~heap'[jobs'[pending'[i].job]].valid
        BY DEF OpenInv, IndividualAt
    <2>1. i \in DOMAIN jobs' /\ pending'[i].job = i
        BY <1>6
    <2>2. PICK k \in candidates' : jobs'[i] = pop[k]
        BY <1>6, <2>1
    <2> QED BY <1>3, <1>7, <2>1, <2>2
<1>12. CurrentInv'
    <2> SUFFICES ASSUME NEW z \in DOMAIN heap, heap'[z].valid PROVE Current(heap'[z])
        BY <1>4 DEF CurrentInv
    <2>1. CASE z \in Range(jobs)
        BY <1>3, <2>1
    <2>2. CASE z \notin Range(jobs)
        BY <1>1, <1>4, <2>2 DEF ResultsInv, CurrentInv
    <2> QED BY <2>1, <2>2
<1> QED BY <1>3, <1>8, <1>9, <1>10, <1>11, <1>12 DEF ResultsInv

(* Two lists without repetition and without common elements. *)
LEMMA JoinedOnce ==
    ASSUME NEW T, NEW s \in Seq(T), NEW t \in Seq(T),
           OneToOne(s, DOMAIN s), OneToOne(t, DOMAIN t),
           \A m \in DOMAIN s, n \in DOMAIN t : s[m] # t[n]
    PROVE  /\ OneToOne(s \o t, DOMAIN (s \o t))
           /\ \A i \in DOMAIN (s \o t) : \/ \E m \in DOMAIN s : (s \o t)[i] = s[m]
                                         \/ \E n \in DOMAIN t : (s \o t)[i] = t[n]
           /\ Range(s \o t) = Range(s) \union Range(t)
<1> DEFINE u == s \o t
           a == Len(s)
           b == Len(t)
<1>1. /\ a \in Nat /\ b \in Nat /\ DOMAIN s = 1..a /\ DOMAIN t = 1..b /\ DOMAIN u = 1..(a + b)
      /\ \A i \in 1..a : u[i] = s[i]
      /\ \A i \in 1..b : u[a + i] = t[i]
    <2>1. DOMAIN s = 1..a /\ DOMAIN t = 1..b
        BY ListElements
    <2>2. /\ Len(s) \in Nat /\ Len(t) \in Nat /\ DOMAIN (s \o t) = 1..(Len(s) + Len(t))
          /\ \A i \in 1..Len(s) : (s \o t)[i] = s[i]
          /\ \A i \in 1..Len(t) : (s \o t)[Len(s) + i] = t[i]
        BY Joined
    <2> QED BY <2>1, <2>2
<1>2. \A m \in 1..a, n \in 1..b : s[m] # t[n]
    BY <1>1
<1>3. (\A m, n \in 1..a : s[m] = s[n] => m = n) /\ (\A m, n \in 1..b : t[m] = t[n] => m = n)
    BY <1>1 DEF OneToOne
<1> HIDE DEF u, a, b
<1>4. \A i \in 1..(a + b) : i \in 1..a \/ (i - a \in 1..b /\ u[i] = t[i - a])
    <2> TAKE i \in 1..(a + b)
    <2>1. CASE i \notin 1..a
        <3>1. i - a \in 1..b /\ a + (i - a) = i
            BY <1>1, <2>1
        <3> QED BY <1>1, <3>1
    <2> QED BY <2>1
<1>5. OneToOne(u, DOMAIN u)
    <2> SUFFICES ASSUME NEW i \in 1..(a + b), NEW j \in 1..(a + b), u[i] = u[j] PROVE i = j
        BY <1>1 DEF OneToOne
    <2>1. CASE i \in 1..a /\ j \in 1..a
        BY <1>1, <1>3, <2>1
    <2>2. CASE i \in 1..a /\ j \notin 1..a
        BY <1>1, <1>2, <1>4, <2>2
    <2>3. CASE i \notin 1..a /\ j \in 1..a
        BY <1>1, <1>2, <1>4, <2>3
    <2>4. CASE i \notin 1..a /\ j \notin 1..a
        <3>1. i - a = j - a
            BY <1>3, <1>4, <2>4
        <3> QED BY <1>1, <3>1
    <2> QED BY <2>1, <2>2, <2>3, <2>4
<1>6. \A i \in DOMAIN u : \/ \E m \in DOMAIN s : u[i] = s[m]
                          \/ \E n \in DOMAIN t : u[i] = t[n]
    BY <1>1, <1>4
<1>7. (\A m \in DOMAIN s : m \in DOMAIN u /\ u[m] = s[m]) /\ (\A n \in DOMAIN t : a + n \in DOMAIN u /\ u[a + n] = t[n])
    BY <1>1
<1>8. Range(u) = Range(s) \union Range(t)
    BY <1>6, <1>7 DEF Range
<1> QED BY <1>5, <1>6, <1>8 DEF u

-----------------------------------------------------------------------------
(* The evaluate batch is back. *)
LEMMA ResultsRound == BudgetInv /\ PopulationInv /\ ResultsInv /\ RoundDone => ResultsInv'
<1> SUFFICES ASSUME BudgetInv, PopulationInv, ResultsInv, RoundDone PROVE ResultsInv'
    OBVIOUS
<1>1. Grown(GivenUp) /\ GivenUp \in SUBSET Slot
    BY RoundEffect
<1>2. /\ pc = "evaluate" /\ pc' = "round" /\ UNCHANGED <<jobs, pending, wave, promising>>
      /\ evaluated' = evaluated \o At(pop, NewlyValid)
    BY DEF RoundDone
<1>3. SaneInv' /\ \A x \in DOMAIN heap' : heap'[x].valid => x \in DOMAIN heap /\ heap'[x] = heap[x]
    <2> DEFINE S == GivenUp
    <2>1. Grown(S) /\ S \in SUBSET Slot /\ SaneInv
        BY <1>1 DEF ResultsInv
    <2> HIDE DEF S
    <2> QED BY <2>1, GrownResults
<1>4. \A x \in DOMAIN heap : heap'[x] = heap[x]
    BY <1>1 DEF Grown
<1>5. PendingOnce' /\ BatchJobs' /\ OpenInv'
    BY <1>2 DEF ResultsInv, PendingOnce, BatchJobs, OpenInv
<1> DEFINE S == NewlyValid
           t == At(pop, S)
<1>6. S \in SUBSET Slot
    BY References DEF NewlyValid
<1>7. \A k \in S : k \in candidates /\ heap[pop[k]].valid /\ pop[k] \notin Range(evaluated)
    BY DEF NewlyValid
<1>8. \A k \in candidates : heap[pop[k]].valid => pop[k] \in Range(evaluated) \/ k \in S
    BY DEF NewlyValid
<1>9. evaluated' = evaluated \o t
    BY <1>2
<1> HIDE DEF S
<1>10. /\ t \in Seq(DOMAIN heap)
       /\ \A m, n \in DOMAIN t : t[m] = t[n] => m = n
       /\ \A n \in DOMAIN t : \E k \in S : t[n] = pop[k]
       /\ \A k \in S : \E n \in DOMAIN t : t[n] = pop[k]
    BY <1>6, SlotJobs
<1> HIDE DEF t
<1>11. /\ evaluated \in Seq(DOMAIN heap) /\ OneToOne(evaluated, DOMAIN evaluated) /\ OneToOne(t, DOMAIN t)
       /\ \A m \in DOMAIN evaluated, n \in DOMAIN t : evaluated[m] # t[n]
    <2>1. evaluated \in Seq(DOMAIN heap) /\ OneToOne(evaluated, DOMAIN evaluated)
        BY DEF PopulationInv, TypeOK, ResultsInv, EvaluatedInv
    <2>2. ASSUME NEW m \in DOMAIN evaluated, NEW n \in DOMAIN t PROVE evaluated[m] # t[n]
        BY <1>7, <1>10 DEF Range
    <2> QED BY <1>10, <2>1, <2>2 DEF OneToOne
<1>12. /\ OneToOne(evaluated \o t, DOMAIN (evaluated \o t))
       /\ \A i \in DOMAIN (evaluated \o t) : \/ \E m \in DOMAIN evaluated : (evaluated \o t)[i] = evaluated[m]
                                             \/ \E n \in DOMAIN t : (evaluated \o t)[i] = t[n]
       /\ Range(evaluated \o t) = Range(evaluated) \union Range(t)
    BY <1>10, <1>11, JoinedOnce
<1>13. EvaluatedInv'
    <2>1. \A n \in DOMAIN evaluated' : heap'[evaluated'[n]].valid
        <3> TAKE n \in DOMAIN evaluated'
        <3>1. CASE \E m \in DOMAIN evaluated : evaluated'[n] = evaluated[m]
            BY <1>4, <3>1, References DEF ResultsInv, EvaluatedInv
        <3>2. CASE \E m \in DOMAIN t : evaluated'[n] = t[m]
            <4>1. PICK k \in S : evaluated'[n] = pop[k]
                BY <1>10, <3>2
            <4>2. heap[pop[k]].valid /\ pop[k] \in DOMAIN heap
                BY <1>6, <1>7, References
            <4> QED BY <1>4, <4>1, <4>2
        <3> QED BY <1>9, <1>12, <3>1, <3>2
    <2>2. \A x \in DOMAIN heap' : heap'[x].valid => x \in Range(evaluated')
        <3> SUFFICES ASSUME NEW x \in DOMAIN heap, heap[x].valid PROVE x \in Range(evaluated')
            BY <1>3
        <3>1. x \in Range(evaluated) \/ \E k \in candidates : x = pop[k]
            BY DEF ResultsInv, EvaluatedInv, Pending
        <3>2. x \in Range(evaluated) \/ \E k \in S : x = pop[k]
            BY <1>8, <3>1
        <3>3. x \in Range(evaluated) \/ x \in Range(t)
            BY <1>10, <3>2 DEF Range
        <3> QED BY <1>9, <1>12, <3>3
    <2>3. OneToOne(evaluated', DOMAIN evaluated')
        BY <1>9, <1>12
    <2> QED BY <1>2, <2>1, <2>2, <2>3 DEF EvaluatedInv
<1>14. CurrentInv'
    BY <1>2, <1>3 DEF ResultsInv, CurrentInv
<1> QED BY <1>3, <1>5, <1>13, <1>14 DEF ResultsInv

(* Refinement starts. *)
LEMMA ResultsRefine == BudgetInv /\ PopulationInv /\ ResultsInv /\ StartRefinement => ResultsInv'
<1> SUFFICES ASSUME BudgetInv, PopulationInv, ResultsInv, StartRefinement PROVE ResultsInv'
    OBVIOUS
<1>1. /\ pc = "round" /\ pc' = "refine" /\ (\E s \in Suites : promising' = PromisingIn(s))
      /\ Call(RerunJobs(promising'), Phase2Budget)
      /\ UNCHANGED <<heap, pop, evaluated, candidates>>
    BY RefineEffect
<1>2. PICK s \in Suites : promising' = PromisingIn(s)
    BY <1>1
<1>3. /\ promising' \in Seq(DOMAIN heap)
      /\ \A r \in DOMAIN promising' : \E n \in Eligible : promising'[r] = evaluated[n]
    BY <1>2, PromisingFacts DEF PopulationInv
<1>4. \A x \in Range(promising') : heap[x].valid
    BY <1>3 DEF Range, Eligible
<1> DEFINE p == promising'
           js == RerunJobs(p)
<1>5. Call(js, Phase2Budget)
    BY <1>1
<1>6. p \in Seq(Range(p))
    <2>1. p = [n \in 1..Len(p) |-> p[n]] /\ Len(p) \in Nat /\ DOMAIN p = 1..Len(p)
        BY <1>3, ListElements
    <2> HIDE DEF p
    <2>2. \A n \in 1..Len(p) : p[n] \in Range(p)
        BY <2>1 DEF Range
    <2> QED BY <2>1, <2>2, ListOf
<1> HIDE DEF p
<1>7. js \in Seq(Range(p))
    BY <1>6, RerunJobsType
<1> HIDE DEF js
<1>8. jobs' = js /\ DOMAIN pending' = DOMAIN js /\ (\A i \in DOMAIN js : pending'[i].job = i)
      /\ \A n \in DOMAIN js : js[n] \in Range(p)
    BY <1>5, <1>7, CallFacts, ListElements
<1>9. SaneInv' /\ PendingOnce' /\ OpenInv'
    BY <1>1, <1>8 DEF ResultsInv, SaneInv, PendingOnce, OpenInv
<1>10. BatchJobs'
    BY <1>1, <1>4, <1>8 DEF BatchJobs, p
<1>11. EvaluatedInv'
    BY <1>1 DEF ResultsInv, EvaluatedInv, Pending
<1>12. CurrentInv'
    BY <1>1 DEF ResultsInv, CurrentInv
<1> QED BY <1>9, <1>10, <1>11, <1>12 DEF ResultsInv

(* The reruns are back. *)
LEMMA ResultsRefined == BudgetInv /\ PopulationInv /\ ResultsInv /\ RefinementDone => ResultsInv'
<1> SUFFICES ASSUME BudgetInv, PopulationInv, ResultsInv, RefinementDone PROVE ResultsInv'
    OBVIOUS
<1>1. /\ RescoredIn(RefinedSet) /\ pc = "refine" /\ pc' \in {"round", "select"}
      /\ UNCHANGED <<jobs, pending, wave, pop, evaluated, candidates, promising>>
    BY RefinementEffect
<1>2. /\ SaneInv' /\ DOMAIN heap' = DOMAIN heap
      /\ \A x \in DOMAIN heap : heap'[x].valid = heap[x].valid /\ heap'[x].fits = heap[x].fits
      /\ \A x \in DOMAIN heap : x \in RefinedSet => Current(heap'[x])
      /\ \A x \in DOMAIN heap : x \notin RefinedSet => heap'[x] = heap[x]
    <2>1. \A x \in DOMAIN heap : x \in RefinedSet => heap[x].valid
        BY <1>1 DEF RefinedSet, Refined, ResultsInv, BatchJobs
    <2> DEFINE S == RefinedSet
    <2>2. RescoredIn(S) /\ (\A x \in DOMAIN heap : x \in S => heap[x].valid) /\ SaneInv
        BY <1>1, <2>1 DEF ResultsInv
    <2> HIDE DEF S
    <2>3. /\ SaneInv'
          /\ \A x \in DOMAIN heap : heap'[x].valid = heap[x].valid /\ heap'[x].fits = heap[x].fits
          /\ \A x \in DOMAIN heap : x \in S => Current(heap'[x])
        BY <2>2, RescoredResults
    <2>4. DOMAIN heap' = DOMAIN heap /\ \A x \in DOMAIN heap : x \notin S => heap'[x] = heap[x]
        BY <2>2 DEF RescoredIn
    <2> QED BY <2>3, <2>4 DEF S
<1>3. PendingOnce' /\ BatchJobs' /\ OpenInv'
    BY <1>1 DEF ResultsInv, PendingOnce, BatchJobs, OpenInv
<1>4. EvaluatedInv'
    <2>1. \A n \in DOMAIN evaluated : heap'[evaluated[n]].valid
        BY <1>2, References DEF ResultsInv, EvaluatedInv
    <2>2. \A x \in DOMAIN heap' : heap'[x].valid => x \in Range(evaluated)
        BY <1>1, <1>2 DEF ResultsInv, EvaluatedInv, Pending
    <2> QED BY <1>1, <2>1, <2>2 DEF ResultsInv, EvaluatedInv
<1>5. CurrentInv'
    <2> SUFFICES ASSUME NEW z \in DOMAIN heap, heap'[z].valid PROVE Current(heap'[z])
        BY <1>2 DEF CurrentInv
    <2>1. CASE z \in RefinedSet
        BY <1>2, <2>1
    <2>2. CASE z \notin RefinedSet
        <3>1. heap'[z] = heap[z] /\ heap[z].valid
            BY <1>2, <2>2
        <3>2. Current(heap[z]) \/ Refined(z)
            BY <1>1, <3>1 DEF ResultsInv, CurrentInv, Refined
        <3> QED BY <2>2, <3>1, <3>2 DEF RefinedSet
    <2> QED BY <2>1, <2>2
<1> QED BY <1>2, <1>3, <1>4, <1>5 DEF ResultsInv

(* The search is over. *)
LEMMA ResultsEnd == ResultsInv /\ (ReturnedBudgetDone \/ Select) => ResultsInv'
<1> SUFFICES ASSUME ResultsInv, ReturnedBudgetDone \/ Select PROVE ResultsInv'
    OBVIOUS
<1>1. /\ UNCHANGED <<heap, pop, evaluated, candidates, promising, jobs, pending, wave>>
      /\ pc \in {"round", "select"} /\ pc' \in {"select", "done"}
    BY DEF ReturnedBudgetDone, Select, batchVars
<1>2. SaneInv' /\ PendingOnce' /\ BatchJobs' /\ OpenInv' /\ CurrentInv'
    BY <1>1 DEF ResultsInv, SaneInv, PendingOnce, BatchJobs, OpenInv, CurrentInv
<1>3. EvaluatedInv'
    BY <1>1 DEF ResultsInv, EvaluatedInv, Pending
<1> QED BY <1>2, <1>3 DEF ResultsInv

(* A step that changes nothing keeps ResultsInv. *)
LEMMA ResultsStutter == ResultsInv /\ UNCHANGED vars => ResultsInv'
<1> SUFFICES ASSUME ResultsInv, UNCHANGED vars PROVE ResultsInv'
    OBVIOUS
<1>1. UNCHANGED <<heap, pop, evaluated, candidates, promising, jobs, pending, wave, pc>>
    BY DEF vars, searchVars, batchVars
<1>2. SaneInv' /\ PendingOnce' /\ BatchJobs' /\ CurrentInv'
    BY <1>1 DEF ResultsInv, SaneInv, PendingOnce, BatchJobs, CurrentInv
<1>3. OpenInv' /\ EvaluatedInv'
    BY <1>1 DEF ResultsInv, OpenInv, Open, IndividualAt, EvaluatedInv, Pending
<1> QED BY <1>2, <1>3 DEF ResultsInv

(* Every step keeps ResultsInv. *)
LEMMA ResultsNext == BudgetInv /\ PopulationInv /\ ResultsInv /\ [Next]_vars => ResultsInv'
<1> SUFFICES ASSUME BudgetInv, PopulationInv, ResultsInv, [Next]_vars PROVE ResultsInv'
    OBVIOUS
<1>1. CASE UNCHANGED vars
    BY <1>1, ResultsStutter
<1>2. CASE Next
    BY <1>2, ResultsBreed, ResultsLaunch, ResultsWaves, ResultsEvaluate, ResultsRerun, ResultsElites,
       ResultsRound, ResultsRefine, ResultsRefined, ResultsEnd DEF Next
<1> QED BY <1>1, <1>2

(* What the layouts have been measured to do, at every point of the search. *)
THEOREM CampaignResults == Spec => []ResultsInv
<1>1. Init => ResultsInv
    BY ResultsInit
<1>2. BudgetInv /\ PopulationInv /\ ResultsInv /\ [Next]_vars => ResultsInv'
    BY ResultsNext
<1> QED BY <1>1, <1>2, CampaignInvariant, CampaignPopulation, PTL DEF Spec

(* No measured layout is lost: between rounds the layouts with a valid      *)
(* measurement are the evaluated ones, each listed once.                    *)
THEOREM NothingMeasuredLost == Spec => []MeasuredAreEvaluated
<1>1. PopulationInv /\ ResultsInv => MeasuredAreEvaluated
    <2> SUFFICES ASSUME PopulationInv, ResultsInv, pc \in {"round", "select"}
                 PROVE  /\ {x \in DOMAIN heap : heap[x].valid} = Range(evaluated)
                        /\ IsInjective(evaluated)
        BY DEF MeasuredAreEvaluated
    <2>1. \A x \in Range(evaluated) : x \in DOMAIN heap /\ heap[x].valid
        BY References DEF ResultsInv, EvaluatedInv, Range
    <2>2. \A x \in DOMAIN heap : heap[x].valid => x \in Range(evaluated)
        BY DEF ResultsInv, EvaluatedInv, Pending
    <2>3. IsInjective(evaluated)
        BY DEF ResultsInv, EvaluatedInv, OneToOne, IsInjective
    <2> QED BY <2>1, <2>2, <2>3
<1> QED BY <1>1, CampaignPopulation, CampaignResults, PTL

(* The scores that selection and breeding read cover all runs of the layout *)
(* and its current stuck flag.                                              *)
THEOREM ScoresNeverStale == Spec => []ScoresFresh
<1>1. PopulationInv /\ ResultsInv => ScoresFresh
    <2> SUFFICES ASSUME PopulationInv, ResultsInv, pc \in {"round", "launch", "select"}, NEW x \in Range(evaluated)
                 PROVE  heap[x].score = [n |-> Len(heap[x].runs), stuck |-> heap[x].stuck]
        BY DEF ScoresFresh
    <2>1. x \in DOMAIN heap /\ heap[x].valid
        BY References DEF ResultsInv, EvaluatedInv, Range
    <2>2. Current(heap[x])
        BY <2>1 DEF ResultsInv, CurrentInv
    <2> QED BY <2>2 DEF Current
<1> QED BY <1>1, CampaignPopulation, CampaignResults, PTL

-----------------------------------------------------------------------------
(* A score above zero needs a run that scores. *)
LEMMA ScoringRun ==
    ASSUME NEW x \in IndividualRecord, Sane(x), x.valid, OfficialScore(x)[1] > 0
    PROVE  \E r \in DOMAIN x.runs : tierPoints(x.runs[r].d) > 0
<1> DEFINE s == ScoredRuns(x)
           f == [r \in DOMAIN s |-> tierPoints(s[r].d)]
<1>1. /\ x.runs \in Seq(Run) /\ Len(x.runs) \in Nat /\ x.score.n \in 1..Len(x.runs)
    BY RecordFields DEF Sane
<1>2. /\ s \in Seq(Run) /\ DOMAIN s = 1..x.score.n /\ \A r \in 1..x.score.n : s[r] = x.runs[r]
    BY <1>1 DEF ScoredRuns
<1> HIDE DEF s
<1>3. x.score.n \in DOMAIN s /\ DOMAIN s \subseteq DOMAIN x.runs
    <2> DEFINE n == x.score.n
               l == Len(x.runs)
    <2>1. DOMAIN x.runs = 1..l
        BY <1>1, ListElements
    <2>2. DOMAIN s = 1..n /\ l \in Nat /\ n \in 1..l
        BY <1>1, <1>2
    <2> HIDE DEF n, l
    <2>3. n \in 1..n /\ 1..n \subseteq 1..l
        BY <2>2
    <2> QED BY <2>1, <2>2, <2>3 DEF n
<1>4. s # <<>>
    BY <1>3
<1>5. OfficialScore(x) = <<1000 * SumFunction(f), x.niche * x.niche * SumOfTimes(s)>>
    BY <1>4 DEF OfficialScore, officialTestScore, scoreFromPoints, s
<1>6. DOMAIN f = DOMAIN s /\ IsFiniteSet(DOMAIN f)
    BY <1>1, <1>2, FS_Interval
<1>7. \A r \in DOMAIN f : f[r] = tierPoints(s[r].d) /\ s[r] \in Run
    BY <1>2, <1>6, ListElements
<1>8. \A r \in DOMAIN f : f[r] \in Nat
    BY <1>7, PointsType DEF Run
<1> HIDE DEF f
<1>9. SumFunction(f) \in Nat /\ (SumFunction(f) = 0 <=> \A r \in DOMAIN f : f[r] = 0)
    BY <1>6, <1>8, SumOfNaturals
<1>10. SumFunction(f) # 0
    BY <1>5, <1>9
<1>11. PICK r \in DOMAIN f : f[r] # 0
    BY <1>9, <1>10
<1>12. f[r] > 0
    BY <1>8, <1>11
<1> QED BY <1>2, <1>3, <1>6, <1>7, <1>12

(* The suite is empty until the end, and then what the selection made it.  *)
SuiteInv == (pc # "done" => suite = <<>>) /\ SuiteSound

(* A suite with no test is sound. *)
LEMMA EmptySuite == ASSUME suite = <<>> PROVE SuiteSound
<1>1. DOMAIN suite = {} /\ Len(suite) = 0
    OBVIOUS
<1> QED BY <1>1 DEF SuiteSound, IsInjective

(* The suite that Select returns is sound. *)
LEMMA SuiteSelected == PopulationInv /\ ResultsInv /\ Select => SuiteInv'
<1> SUFFICES ASSUME PopulationInv, ResultsInv, Select PROVE SuiteInv'
    OBVIOUS
<1>1. suite' \in Suites /\ pc' = "done" /\ heap' = heap
    BY DEF Select
<1>2. /\ Len(suite') <= TopK
      /\ \A r \in DOMAIN suite' : \E n \in Eligible : suite'[r] = evaluated[n]
      /\ (\A m, n \in DOMAIN evaluated : evaluated[m] = evaluated[n] => m = n) =>
             \A q, r \in DOMAIN suite' : suite'[q] = suite'[r] => q = r
    BY <1>1, SuiteFacts DEF PopulationInv
<1>3. \A m, n \in DOMAIN evaluated : evaluated[m] = evaluated[n] => m = n
    BY DEF ResultsInv, EvaluatedInv, OneToOne
<1>4. IsInjective(suite')
    BY <1>2, <1>3 DEF IsInjective
<1>5. ASSUME NEW q \in DOMAIN suite'
      PROVE  LET x == heap[suite'[q]]
             IN  /\ \A r \in DOMAIN x.runs : x.runs[r].goal \/ x.runs[r].d = FAIL_SENTINEL
                 /\ \E r \in DOMAIN x.runs : tierPoints(x.runs[r].d) > 0
    <2>1. PICK n \in Eligible : suite'[q] = evaluated[n]
        BY <1>2
    <2> DEFINE x == heap[suite'[q]]
    <2>2. n \in DOMAIN evaluated /\ x.valid /\ ~x.stuck /\ OfficialScore(x)[1] > 0
        BY <2>1 DEF Eligible
    <2>3. suite'[q] \in DOMAIN heap /\ x \in IndividualRecord
        BY <2>1, <2>2, References
    <2>4. Sane(x)
        BY <2>3 DEF ResultsInv, SaneInv
    <2> HIDE DEF x
    <2>5. \A r \in DOMAIN x.runs : x.runs[r].goal \/ x.runs[r].d = FAIL_SENTINEL
        BY <2>2, <2>4 DEF Sane
    <2>6. \E r \in DOMAIN x.runs : tierPoints(x.runs[r].d) > 0
        BY <2>2, <2>3, <2>4, ScoringRun
    <2> QED BY <2>5, <2>6 DEF x
<1>6. SuiteSound'
    BY <1>1, <1>2, <1>4, <1>5 DEF SuiteSound
<1> QED BY <1>1, <1>6 DEF SuiteInv

(* Every step keeps SuiteInv. *)
LEMMA SuiteNext == PopulationInv /\ ResultsInv /\ SuiteInv /\ [Next]_vars => SuiteInv'
<1> SUFFICES ASSUME PopulationInv, ResultsInv, SuiteInv, [Next]_vars PROVE SuiteInv'
    OBVIOUS
<1>1. CASE Select
    BY <1>1, SuiteSelected
<1>2. CASE ~Select
    <2>1. UNCHANGED suite
        BY <1>2 DEF Next, vars, searchVars, Breed, Launch, StartBatchWave, Evaluate, Rerun, Attempt, EndBatchWave,
              ElitesConfirmed, RoundDone, StartRefinement, RefinementDone, ReturnedBudgetDone
    <2>2. pc = "done" => pc' = "done" /\ heap' = heap
        BY <1>2 DEF Next, vars, searchVars, Breed, Launch, StartBatchWave, Evaluate, Rerun, EndBatchWave,
              ElitesConfirmed, RoundDone, StartRefinement, RefinementDone, ReturnedBudgetDone
    <2>3. CASE pc = "done"
        BY <2>1, <2>2, <2>3 DEF SuiteInv, SuiteSound, IsInjective
    <2>4. CASE pc # "done"
        <3>1. suite' = <<>>
            BY <2>1, <2>4 DEF SuiteInv
        <3>2. DOMAIN suite' = {} /\ Len(suite') = 0
            BY <3>1
        <3>3. SuiteSound'
            BY <3>2 DEF SuiteSound, IsInjective
        <3> QED BY <3>1, <3>3 DEF SuiteInv
    <2> QED BY <2>3, <2>4
<1> QED BY <1>1, <1>2

(* A submitted test flew to the goal in every run that was measured, and    *)
(* all of its runs together score points; no test is submitted twice, and   *)
(* at most topK are.                                                        *)
THEOREM SubmittedTestsSound == Spec => []SuiteSound
<1>1. Init => SuiteInv
    BY EmptySuite DEF Init, SuiteInv
<1>2. PopulationInv /\ ResultsInv /\ SuiteInv /\ [Next]_vars => SuiteInv'
    BY SuiteNext
<1>3. SuiteInv => SuiteSound
    BY DEF SuiteInv
<1> QED BY <1>1, <1>2, <1>3, CampaignPopulation, CampaignResults, PTL DEF Spec

-----------------------------------------------------------------------------
(***************************************************************************)
(* The effort spent on a layout.                                           *)
(***************************************************************************)

(* A slot that is free between rounds has attempts left, and during the     *)
(* evaluate batch only its own flakes take a layout over maxRunFailures.    *)
Allowance(i) == pending[i].retry + (IF i \in DOMAIN wave /\ wave[i] = "FLAKE" THEN 1 ELSE 0)

AttemptLimit == \A x \in DOMAIN heap : heap[x].attempts <= MaxRunFailures + MaxFlakeRetries
AttemptsLeft ==
    \A k \in FreeSlots : (pc = "evaluate" /\ k \in candidates) \/ heap[pop[k]].attempts < MaxRunFailures
FlakesPaid ==
    pc = "evaluate" => \A i \in DOMAIN pending :
        Open(i) => heap[IndividualAt(i)].attempts < MaxRunFailures + Allowance(i)

AttemptsInv == AttemptLimit /\ AttemptsLeft /\ FlakesPaid

(* Attempts and their limits are numbers. *)
LEMMA AttemptTypes ==
    ASSUME PopulationInv
    PROVE  /\ \A x \in DOMAIN heap : heap[x].attempts \in Nat
           /\ {MaxRunFailures, MaxFlakeRetries} \subseteq Nat /\ MaxRunFailures > 0
BY References, RecordFields

(* Retry counts stay within the limit. *)
LEMMA PendingTypes ==
    ASSUME BudgetInv, NEW i \in DOMAIN pending
    PROVE  pending[i].retry \in 0..MaxFlakeRetries /\ pending[i].retry \in Nat
<1>1. pending \in Seq([job : Nat, retry : 0..MaxFlakeRetries])
    BY DEF BudgetInv, SchedulerInv, SchedulerOK
<1>2. pending[i] \in [job : Nat, retry : 0..MaxFlakeRetries]
    BY <1>1, ListElements
<1> QED BY <1>2

(* AttemptsInv holds when generate starts. *)
LEMMA AttemptsInit == Init => AttemptsInv
<1> SUFFICES ASSUME Init PROVE AttemptsInv
    OBVIOUS
<1>1. /\ heap = [k \in Slot |-> heap[k]]
      /\ \A k \in Slot : \E l \in BOOLEAN : heap[k] = NewIndividual(Counts[k], l)
    BY InitHeap
<1>2. pc = "round" /\ pop = [k \in Slot |-> k]
    BY DEF Init
<1>3. \A x \in DOMAIN heap : heap[x].attempts = 0
    BY <1>1, CountsType, NewFacts
<1>4. AttemptLimit
    BY <1>3 DEF AttemptLimit
<1>5. \A k \in Slot : pop[k] \in DOMAIN heap
    BY <1>1, <1>2
<1>6. AttemptsLeft
    BY <1>3, <1>5 DEF AttemptsLeft, FreeSlots
<1> QED BY <1>2, <1>4, <1>6 DEF AttemptsInv, FlakesPaid

(* New individuals start without attempts. *)
LEMMA GrownAttempts ==
    ASSUME NEW S \in SUBSET Slot, Grown(S), AttemptLimit
    PROVE  /\ AttemptLimit'
           /\ \A k \in S : heap'[pop'[k]].attempts = 0
<1>1. \A k \in S : heap'[pop'[k]].attempts = 0
    <2> TAKE k \in S
    <2>1. PICK l \in BOOLEAN : heap'[pop'[k]] = NewIndividual(Counts[k], l)
        BY DEF Grown
    <2>2. Counts[k] \in Niche
        BY CountsType
    <2> QED BY <2>1, <2>2, NewFacts
<1>2. ASSUME NEW x \in DOMAIN heap' PROVE heap'[x].attempts <= MaxRunFailures + MaxFlakeRetries
    <2>1. CASE x \in DOMAIN heap
        BY <2>1 DEF Grown, AttemptLimit
    <2>2. CASE x \notin DOMAIN heap
        <3>1. PICK k \in S : x = pop'[k]
            BY <2>2 DEF Grown
        <3> QED BY <1>1, <3>1
    <2> QED BY <2>1, <2>2
<1> QED BY <1>1, <1>2 DEF AttemptLimit

(* Breeding keeps AttemptsInv. *)
LEMMA AttemptsBreed == BudgetInv /\ PopulationInv /\ AttemptsInv /\ Breed => AttemptsInv'
<1> SUFFICES ASSUME BudgetInv, PopulationInv, AttemptsInv, Breed PROVE AttemptsInv'
    OBVIOUS
<1> DEFINE S == Slot \ EliteSlots
<1>1. Grown(S) /\ S \in SUBSET Slot /\ \A k \in Slot \ S : pop'[k] = EliteFor(k) /\ k \in EliteSlots
    BY BreedEffect
<1>2. pc' = "launch" /\ FreeSlots = {}
    BY DEF Breed
<1>3. \A k \in Slot \ S : \E j \in Slot : pop'[k] = pop[j]
    BY <1>1, ElitesCarried
<1> HIDE DEF S
<1>4. AttemptLimit' /\ \A k \in S : heap'[pop'[k]].attempts = 0
    BY <1>1, GrownAttempts DEF AttemptsInv
<1>5. AttemptsLeft'
    <2> SUFFICES ASSUME NEW k \in Slot, ~heap'[pop'[k]].valid, ~heap'[pop'[k]].illegal
                 PROVE  heap'[pop'[k]].attempts < MaxRunFailures
        BY DEF AttemptsLeft, FreeSlots
    <2>1. CASE k \in S
        BY <1>4, <2>1
    <2>2. CASE k \notin S
        <3>1. PICK j \in Slot : pop'[k] = pop[j]
            BY <1>3, <2>2
        <3>2. heap'[pop'[k]] = heap[pop[j]]
            BY <1>1, <3>1, References DEF Grown
        <3> QED BY <1>2, <3>2 DEF FreeSlots
    <2> QED BY <2>1, <2>2
<1> QED BY <1>2, <1>4, <1>5 DEF AttemptsInv, FlakesPaid

(* An evaluate batch starts: nothing has flaked in it. *)
LEMMA EvaluateCalled ==
    ASSUME NEW S \in SUBSET Slot, PopulationInv, NEW b, Call(At(pop, S), b),
           \A k \in S : heap'[pop[k]].attempts < MaxRunFailures
    PROVE  FlakesPaid'
<1> DEFINE js == At(pop, S)
<1>1. Call(js, b)
    OBVIOUS
<1>2. js \in Seq(DOMAIN heap) /\ \A n \in DOMAIN js : \E k \in S : js[n] = pop[k]
    BY SlotJobs
<1> HIDE DEF js
<1>3. jobs' = js /\ DOMAIN wave' = {} /\ DOMAIN pending' = DOMAIN js
      /\ \A i \in DOMAIN js : pending'[i].job = i /\ pending'[i].retry = 0
    BY <1>1, <1>2, CallFacts
<1>4. \A i \in DOMAIN pending' : heap'[jobs'[pending'[i].job]].attempts < MaxRunFailures /\ Allowance(i)' = 0
    BY <1>2, <1>3 DEF Allowance
<1> QED BY <1>4 DEF FlakesPaid, IndividualAt

(* Starting a batch keeps AttemptsInv: its candidates are free slots,      *)
(* which have attempts left.                                               *)
LEMMA AttemptsLaunch == BudgetInv /\ PopulationInv /\ AttemptsInv /\ Launch => AttemptsInv'
<1> SUFFICES ASSUME BudgetInv, PopulationInv, AttemptsInv, Launch PROVE AttemptsInv'
    OBVIOUS
<1>1. /\ pc \in {"round", "launch"} /\ pc' \in {"elites", "evaluate"}
      /\ candidates' \subseteq FreeSlots /\ candidates' \subseteq Slot
      /\ pc' = "evaluate" => \E b : Call(At(pop, candidates'), b)
      /\ UNCHANGED <<heap, pop>>
    BY LaunchEffect
<1>2. AttemptLimit'
    BY <1>1 DEF AttemptsInv, AttemptLimit
<1>3. AttemptsLeft'
    BY <1>1 DEF AttemptsInv, AttemptsLeft, FreeSlots
<1>4. ASSUME pc' = "evaluate" PROVE FlakesPaid'
    <2> DEFINE S == candidates'
    <2>1. S \in SUBSET Slot /\ \A k \in S : heap'[pop[k]].attempts < MaxRunFailures
        BY <1>1 DEF AttemptsInv, AttemptsLeft
    <2>2. PICK b : Call(At(pop, S), b)
        BY <1>1, <1>4
    <2> HIDE DEF S
    <2> QED BY <2>1, <2>2, EvaluateCalled
<1> QED BY <1>1, <1>2, <1>3, <1>4 DEF AttemptsInv, FlakesPaid

(* The start and the end of a wave keep AttemptsInv: a flake that goes     *)
(* back to the queue has paid for one more retry.                          *)
LEMMA AttemptsWaves == BudgetInv /\ PopulationInv /\ AttemptsInv /\ (StartBatchWave \/ EndBatchWave) => AttemptsInv'
<1> SUFFICES ASSUME BudgetInv, PopulationInv, AttemptsInv, StartBatchWave \/ EndBatchWave PROVE AttemptsInv'
    OBVIOUS
<1>1. UNCHANGED <<heap, pop, candidates, jobs, pc>>
    BY DEF StartBatchWave, StartWave, EndBatchWave, EndWave, searchVars
<1>2. AttemptLimit' /\ AttemptsLeft'
    BY <1>1 DEF AttemptsInv, AttemptLimit, AttemptsLeft, FreeSlots
<1>3. CASE StartBatchWave
    <2>1. UNCHANGED pending /\ bpc = "loop" /\ wave' = [i \in Selected |-> "running"]
        BY <1>3 DEF StartBatchWave, StartWave
    <2>2. DOMAIN wave = {}
        BY <2>1 DEF BudgetInv, SchedulerInv
    <2>3. \A i \in DOMAIN wave' : wave'[i] = "running"
        BY <2>1
    <2>4. ASSUME NEW i \in DOMAIN pending PROVE Open(i) /\ Allowance(i)' = Allowance(i)
        BY <2>1, <2>2, <2>3 DEF Open, Allowance
    <2>5. FlakesPaid'
        BY <1>1, <2>1, <2>4 DEF AttemptsInv, FlakesPaid, IndividualAt
    <2> QED BY <1>2, <2>5 DEF AttemptsInv
<1>4. CASE EndBatchWave
    <2>1. PICK origin : Moved(origin)
        BY <1>4, EndWaveEffect
    <2>2. DOMAIN wave' = {}
        BY <1>4, EndWaveEffect
    <2>3. FlakesPaid'
        <3> SUFFICES ASSUME pc = "evaluate", NEW n \in DOMAIN pending'
                     PROVE  heap[jobs[pending'[n].job]].attempts < MaxRunFailures + Allowance(n)'
            BY <1>1 DEF FlakesPaid, IndividualAt
        <3>1. /\ origin[n] \in DOMAIN pending /\ pending'[n].job = pending[origin[n]].job
              /\ \/ /\ origin[n] \in DOMAIN wave /\ wave[origin[n]] = "FLAKE"
                    /\ pending'[n].retry = pending[origin[n]].retry + 1
                 \/ /\ origin[n] \notin DOMAIN wave
                    /\ pending'[n].retry = pending[origin[n]].retry
            BY <2>1 DEF Moved
        <3>2. Open(origin[n])
            BY <3>1 DEF Open
        <3>3. heap[jobs[pending[origin[n]].job]].attempts < MaxRunFailures + Allowance(origin[n])
            BY <3>1, <3>2 DEF AttemptsInv, FlakesPaid, IndividualAt
        <3>4. Allowance(n)' = Allowance(origin[n])
            <4>1. pending[origin[n]].retry \in Nat
                BY <3>1, PendingTypes
            <4> QED BY <2>2, <3>1, <4>1 DEF Allowance
        <3> QED BY <3>1, <3>3, <3>4
    <2> QED BY <1>2, <2>3 DEF AttemptsInv
<1> QED BY <1>3, <1>4

-----------------------------------------------------------------------------
(* An evaluate attempt is one more attempt at its layout. *)
LEMMA AttemptsEvaluate == BudgetInv /\ PopulationInv /\ ResultsInv /\ AttemptsInv /\ Evaluate => AttemptsInv'
<1> SUFFICES ASSUME BudgetInv, PopulationInv, ResultsInv, AttemptsInv, Evaluate PROVE AttemptsInv'
    OBVIOUS
<1>1. pc = "evaluate" /\ \E i, o, y : Attempted(i, o, y) /\ EvaluateStep(heap[IndividualAt(i)], y, o)
    BY EvaluateEffect
<1>2. PICK i, o, y : Attempted(i, o, y) /\ EvaluateStep(heap[IndividualAt(i)], y, o)
    BY <1>1
<1> DEFINE x == IndividualAt(i)
<1>3. /\ i \in DOMAIN wave /\ i \in DOMAIN pending /\ pending[i].job \in DOMAIN jobs
      /\ x \in DOMAIN heap /\ heap[x] \in IndividualRecord
      /\ wave[i] = "running" /\ wave' = [wave EXCEPT ![i] = o] /\ o \in Outcome
      /\ DOMAIN heap' = DOMAIN heap /\ heap'[x] = y /\ \A z \in DOMAIN heap \ {x} : heap'[z] = heap[z]
      /\ UNCHANGED <<jobs, pending, pc, pop, candidates>>
    BY <1>2 DEF Attempted, searchVars
<1>4. x = jobs[pending[i].job] /\ Open(i)
    BY <1>3 DEF Open, IndividualAt
<1>5. PICK k \in candidates : x = pop[k]
    BY <1>1, <1>3, <1>4 DEF ResultsInv, BatchJobs
<1>6. heap[x].attempts < MaxRunFailures + pending[i].retry /\ pending[i].retry \in 0..MaxFlakeRetries
    <2>1. Allowance(i) = pending[i].retry /\ pending[i].retry \in 0..MaxFlakeRetries
        BY <1>3, PendingTypes DEF Allowance
    <2>2. heap[IndividualAt(i)].attempts < MaxRunFailures + Allowance(i)
        BY <1>1, <1>3, <1>4 DEF AttemptsInv, FlakesPaid
    <2> QED BY <2>1, <2>2
<1>7. y.attempts <= heap[x].attempts + 1 /\ heap[x].attempts \in Nat /\ y.attempts \in Nat
    <2>1. y \in IndividualRecord /\ (y.attempts = heap[x].attempts \/ y.attempts = heap[x].attempts + 1)
        BY <1>2 DEF EvaluateStep
    <2>2. heap[x].attempts \in Nat /\ y.attempts \in Nat
        BY <1>3, <2>1, RecordFields
    <2> HIDE DEF x
    <2> QED BY <2>1, <2>2
<1> HIDE DEF x
<1>8. AttemptLimit'
    <2> SUFFICES ASSUME NEW z \in DOMAIN heap PROVE heap'[z].attempts <= MaxRunFailures + MaxFlakeRetries
        BY <1>3 DEF AttemptLimit
    <2>1. CASE z = x
        BY <1>3, <1>6, <1>7, <2>1
    <2>2. CASE z # x
        BY <1>3, <2>2 DEF AttemptsInv, AttemptLimit
    <2> QED BY <2>1, <2>2
<1>9. AttemptsLeft'
    <2> SUFFICES ASSUME NEW j \in Slot, j \notin candidates, ~heap'[pop[j]].valid, ~heap'[pop[j]].illegal
                 PROVE  heap'[pop[j]].attempts < MaxRunFailures
        BY <1>1, <1>3 DEF AttemptsLeft, FreeSlots
    <2>1. pop[j] # x /\ pop[j] \in DOMAIN heap
        BY <1>5, References DEF PopulationInv, OwnSlots
    <2>2. heap'[pop[j]] = heap[pop[j]]
        BY <1>3, <2>1
    <2> QED BY <2>2 DEF AttemptsInv, AttemptsLeft, FreeSlots
<1>10. FlakesPaid'
    <2> SUFFICES ASSUME NEW j \in DOMAIN pending, j \in DOMAIN wave' => wave'[j] \in {"running", "FLAKE"}
                 PROVE  heap'[jobs[pending[j].job]].attempts < MaxRunFailures + Allowance(j)'
        BY <1>3 DEF FlakesPaid, Open, IndividualAt
    <2>1. CASE j = i
        <3>1. o = "FLAKE" /\ i \in DOMAIN wave' /\ wave'[i] = "FLAKE"
            BY <1>3, <2>1 DEF Outcome
        <3>2. Allowance(i)' = pending[i].retry + 1
            BY <1>3, <3>1 DEF Allowance
        <3>3. heap'[jobs[pending[j].job]] = y
            BY <1>3, <1>4, <2>1
        <3> QED BY <1>6, <1>7, <2>1, <3>2, <3>3
    <2>2. CASE j # i
        <3>1. Open(j) /\ Allowance(j)' = Allowance(j)
            BY <1>3, <2>2 DEF Open, Allowance
        <3>2. heap[jobs[pending[j].job]].attempts < MaxRunFailures + Allowance(j)
            BY <1>1, <3>1 DEF AttemptsInv, FlakesPaid, IndividualAt
        <3>3. pending[j].job \in DOMAIN jobs /\ jobs[pending[j].job] \in DOMAIN heap
            BY JobIndividual, References
        <3>4. pending[j].job # pending[i].job
            BY <1>3, <2>2 DEF ResultsInv, PendingOnce
        <3>5. jobs[pending[j].job] # x
            BY <1>1, <1>3, <1>4, <3>3, <3>4 DEF ResultsInv, BatchJobs, OneToOne
        <3> QED BY <1>3, <3>1, <3>2, <3>3, <3>5
    <2> QED BY <2>1, <2>2
<1> QED BY <1>8, <1>9, <1>10 DEF AttemptsInv

(* Steps that leave the attempts, and what makes a slot free, as they are. *)
LEMMA AttemptsSame ==
    ASSUME PopulationInv, AttemptsInv, DOMAIN heap' = DOMAIN heap, pop' = pop,
           \A x \in DOMAIN heap : /\ heap'[x].attempts = heap[x].attempts
                                  /\ heap'[x].valid = heap[x].valid /\ heap'[x].illegal = heap[x].illegal,
           pc # "evaluate"
    PROVE  AttemptLimit' /\ AttemptsLeft' /\ \A k \in FreeSlots : heap[pop[k]].attempts < MaxRunFailures
<1>1. AttemptLimit'
    BY DEF AttemptsInv, AttemptLimit
<1>2. \A k \in FreeSlots : heap[pop[k]].attempts < MaxRunFailures
    BY DEF AttemptsInv, AttemptsLeft
<1>3. ASSUME NEW k \in FreeSlots' PROVE k \in FreeSlots /\ heap'[pop[k]].attempts = heap[pop[k]].attempts
    BY References DEF FreeSlots
<1>4. AttemptsLeft'
    BY <1>2, <1>3 DEF AttemptsLeft
<1> QED BY <1>1, <1>2, <1>4

(* A rerun keeps AttemptsInv: it counts no attempt. *)
LEMMA AttemptsRerun == BudgetInv /\ PopulationInv /\ ResultsInv /\ AttemptsInv /\ Rerun => AttemptsInv'
<1> SUFFICES ASSUME BudgetInv, PopulationInv, ResultsInv, AttemptsInv, Rerun PROVE AttemptsInv'
    OBVIOUS
<1>1. pc \in {"elites", "refine"} /\ \E i, o, y : Attempted(i, o, y) /\ RerunStep(heap[IndividualAt(i)], y, o)
    BY RerunEffect
<1>2. PICK i, o, y : Attempted(i, o, y) /\ RerunStep(heap[IndividualAt(i)], y, o)
    BY <1>1
<1> DEFINE x == IndividualAt(i)
<1>3. /\ DOMAIN heap' = DOMAIN heap /\ heap'[x] = y /\ \A z \in DOMAIN heap \ {x} : heap'[z] = heap[z]
      /\ UNCHANGED <<pc, pop>>
    BY <1>2 DEF Attempted, searchVars
<1>4. y.attempts = heap[x].attempts
    BY <1>2 DEF RerunStep
<1>5. y.valid = heap[x].valid /\ y.illegal = heap[x].illegal
    <2>1. CASE SameResult(heap[x], y)
        BY <2>1 DEF SameResult
    <2>2. CASE ~SameResult(heap[x], y)
        BY <1>2, <2>2, Zenon DEF RerunStep
    <2> QED BY <2>1, <2>2
<1> HIDE DEF x
<1>6. \A z \in DOMAIN heap : /\ heap'[z].attempts = heap[z].attempts
                             /\ heap'[z].valid = heap[z].valid /\ heap'[z].illegal = heap[z].illegal
    BY <1>3, <1>4, <1>5
<1>7. AttemptLimit' /\ AttemptsLeft'
    BY <1>1, <1>3, <1>6, AttemptsSame
<1> QED BY <1>1, <1>3, <1>7 DEF AttemptsInv, FlakesPaid

(* Rescoring changes neither the attempts nor the verdict on a layout. *)
LEMMA RescoredAttempts ==
    ASSUME PopulationInv, NEW S, RescoredIn(S)
    PROVE  \A x \in DOMAIN heap : /\ heap'[x].attempts = heap[x].attempts
                                  /\ heap'[x].valid = heap[x].valid /\ heap'[x].illegal = heap[x].illegal
<1> TAKE x \in DOMAIN heap
<1>1. heap[x] \in IndividualRecord
    BY References
<1>2. CASE x \in S
    <2>1. heap'[x] = Rescored(heap[x])
        BY <1>2 DEF RescoredIn
    <2> QED BY <1>1, <2>1, RescoredFacts
<1>3. CASE x \notin S
    BY <1>3 DEF RescoredIn
<1> QED BY <1>2, <1>3

(* The end of the confirmation of the elites keeps AttemptsInv. *)
LEMMA AttemptsElites == BudgetInv /\ PopulationInv /\ ResultsInv /\ AttemptsInv /\ ElitesConfirmed => AttemptsInv'
<1> SUFFICES ASSUME BudgetInv, PopulationInv, ResultsInv, AttemptsInv, ElitesConfirmed PROVE AttemptsInv'
    OBVIOUS
<1>1. /\ RescoredIn(Range(jobs)) /\ pc = "elites" /\ pc' = "evaluate"
      /\ candidates' \subseteq candidates /\ candidates \subseteq Slot
      /\ \E b : Call(At(pop, candidates'), b)
      /\ UNCHANGED <<pop, evaluated>>
    BY ElitesEffect
<1>2. \A x \in DOMAIN heap : /\ heap'[x].attempts = heap[x].attempts
                             /\ heap'[x].valid = heap[x].valid /\ heap'[x].illegal = heap[x].illegal
    <2> DEFINE S == Range(jobs)
    <2>1. RescoredIn(S)
        BY <1>1
    <2> HIDE DEF S
    <2> QED BY <2>1, RescoredAttempts
<1>3. DOMAIN heap' = DOMAIN heap
    BY <1>1 DEF RescoredIn
<1>4. AttemptLimit' /\ AttemptsLeft' /\ \A k \in FreeSlots : heap[pop[k]].attempts < MaxRunFailures
    BY <1>1, <1>2, <1>3, AttemptsSame
<1>5. \A k \in candidates : heap'[pop[k]].attempts < MaxRunFailures
    <2> TAKE k \in candidates
    <2>1. heap[pop[k]].fits /\ pop[k] \notin Range(evaluated) /\ pop[k] \in DOMAIN heap /\ k \in Slot
        BY <1>1, References DEF ResultsInv, EvaluatedInv
    <2>2. ~heap[pop[k]].valid
        BY <1>1, <2>1 DEF ResultsInv, EvaluatedInv, Pending
    <2>3. ~heap[pop[k]].illegal
        BY <2>1 DEF ResultsInv, SaneInv, Sane
    <2>4. k \in FreeSlots
        BY <2>1, <2>2, <2>3 DEF FreeSlots
    <2> QED BY <1>2, <1>4, <2>1, <2>4
<1>6. FlakesPaid'
    <2> DEFINE S == candidates'
    <2>1. S \in SUBSET Slot /\ \A k \in S : heap'[pop[k]].attempts < MaxRunFailures
        BY <1>1, <1>5
    <2>2. PICK b : Call(At(pop, S), b)
        BY <1>1
    <2> HIDE DEF S
    <2> QED BY <2>1, <2>2, EvaluateCalled
<1> QED BY <1>4, <1>6 DEF AttemptsInv

(* The end of a round keeps AttemptsInv: a layout with no attempts left    *)
(* loses its slot.                                                         *)
LEMMA AttemptsRound == BudgetInv /\ PopulationInv /\ AttemptsInv /\ RoundDone => AttemptsInv'
<1> SUFFICES ASSUME BudgetInv, PopulationInv, AttemptsInv, RoundDone PROVE AttemptsInv'
    OBVIOUS
<1> DEFINE S == GivenUp
<1>1. Grown(S) /\ S \in SUBSET Slot /\ \A k \in Slot \ S : pop'[k] = pop[k]
    BY RoundEffect
<1>2. pc = "evaluate" /\ pc' = "round"
    BY DEF RoundDone
<1>3. \A k \in candidates : ~heap[pop[k]].valid /\ ~heap[pop[k]].illegal /\ heap[pop[k]].attempts >= MaxRunFailures
                            => k \in S
    BY DEF GivenUp
<1> HIDE DEF S
<1>4. AttemptLimit' /\ \A k \in S : heap'[pop'[k]].attempts = 0
    BY <1>1, GrownAttempts DEF AttemptsInv
<1>5. AttemptsLeft'
    <2> SUFFICES ASSUME NEW k \in Slot, ~heap'[pop'[k]].valid, ~heap'[pop'[k]].illegal
                 PROVE  heap'[pop'[k]].attempts < MaxRunFailures
        BY DEF AttemptsLeft, FreeSlots
    <2>1. CASE k \in S
        BY <1>4, <2>1
    <2>2. CASE k \notin S
        <3>1. heap'[pop'[k]] = heap[pop[k]] /\ heap[pop[k]].attempts \in Nat
            BY <1>1, <2>2, References, AttemptTypes DEF Grown
        <3>2. CASE k \in candidates
            BY <1>3, <2>2, <3>1, <3>2
        <3>3. CASE k \notin candidates
            BY <3>1, <3>3 DEF AttemptsInv, AttemptsLeft, FreeSlots
        <3> QED BY <3>2, <3>3
    <2> QED BY <2>1, <2>2
<1> QED BY <1>2, <1>4, <1>5 DEF AttemptsInv, FlakesPaid

(* Refinement and the end of the search keep AttemptsInv. *)
LEMMA AttemptsEnd ==
    BudgetInv /\ PopulationInv /\ AttemptsInv /\ (StartRefinement \/ RefinementDone \/ ReturnedBudgetDone \/ Select)
        => AttemptsInv'
<1> SUFFICES ASSUME BudgetInv, PopulationInv, AttemptsInv,
                    StartRefinement \/ RefinementDone \/ ReturnedBudgetDone \/ Select
             PROVE  AttemptsInv'
    OBVIOUS
<1>1. pc # "evaluate" /\ pc' # "evaluate" /\ pop' = pop
    BY DEF StartRefinement, RefinementDone, ReturnedBudgetDone, Select
<1>2. /\ DOMAIN heap' = DOMAIN heap
      /\ \A x \in DOMAIN heap : /\ heap'[x].attempts = heap[x].attempts
                                /\ heap'[x].valid = heap[x].valid /\ heap'[x].illegal = heap[x].illegal
    <2>1. CASE RefinementDone
        <3> DEFINE S == RefinedSet
        <3>1. RescoredIn(S)
            BY <2>1, RefinementEffect
        <3> HIDE DEF S
        <3>2. DOMAIN heap' = DOMAIN heap
            BY <3>1 DEF RescoredIn
        <3> QED BY <3>1, <3>2, RescoredAttempts
    <2>2. CASE ~RefinementDone
        <3>1. heap' = heap
            BY <2>2 DEF StartRefinement, ReturnedBudgetDone, Select
        <3> QED BY <3>1
    <2> QED BY <2>1, <2>2
<1>3. AttemptLimit' /\ AttemptsLeft'
    BY <1>1, <1>2, AttemptsSame
<1> QED BY <1>1, <1>3 DEF AttemptsInv, FlakesPaid

(* Every step keeps AttemptsInv. *)
LEMMA AttemptsNext == BudgetInv /\ PopulationInv /\ ResultsInv /\ AttemptsInv /\ [Next]_vars => AttemptsInv'
<1> SUFFICES ASSUME BudgetInv, PopulationInv, ResultsInv, AttemptsInv, [Next]_vars PROVE AttemptsInv'
    OBVIOUS
<1>1. CASE UNCHANGED vars
    <2>1. UNCHANGED <<heap, pop, candidates, jobs, pending, wave, pc>>
        BY <1>1 DEF vars, searchVars, batchVars
    <2>2. AttemptLimit' /\ AttemptsLeft'
        BY <2>1 DEF AttemptsInv, AttemptLimit, AttemptsLeft, FreeSlots
    <2>3. FlakesPaid'
        BY <2>1 DEF AttemptsInv, FlakesPaid, Open, Allowance, IndividualAt
    <2> QED BY <2>2, <2>3 DEF AttemptsInv
<1>2. CASE Next
    BY <1>2, AttemptsBreed, AttemptsLaunch, AttemptsWaves, AttemptsEvaluate, AttemptsRerun, AttemptsElites,
       AttemptsRound, AttemptsEnd DEF Next
<1> QED BY <1>1, <1>2

-----------------------------------------------------------------------------
(* How often a layout is measured when elites are not confirmed: once by   *)
(* discovery, and in refinement once for each of its jobs that is open.    *)
OpenJobs(x) == {i \in DOMAIN pending : Open(i) /\ jobs[pending[i].job] = x}
RunsInv ==
    /\ pc # "elites"
    /\ pc \in {"round", "launch", "evaluate"} /\ phase = 1 =>
           \A x \in DOMAIN heap : Len(heap[x].runs) <= 1
    /\ \A x \in DOMAIN heap : Len(heap[x].runs) <= 1 + NReruns
    /\ pc = "refine" =>
           \A x \in DOMAIN heap : Len(heap[x].runs) + Cardinality(OpenJobs(x)) <= 1 + NReruns

(* Where a list has x. *)
Places(l, x) == {i \in DOMAIN l : l[i] = x}

(* Appending a list that has x at most once. *)
LEMMA OneMorePlace ==
    ASSUME NEW T, NEW a \in Seq(T), NEW b \in Seq(T), NEW x, OneToOne(b, DOMAIN b)
    PROVE  /\ IsFiniteSet(Places(a, x)) /\ Cardinality(Places(a, x)) \in Nat
           /\ IsFiniteSet(Places(a \o b, x)) /\ Cardinality(Places(a \o b, x)) \in Nat
           /\ Cardinality(Places(a \o b, x)) <= Cardinality(Places(a, x)) + 1
<1> DEFINE c == a \o b
<1>1. /\ Len(a) \in Nat /\ Len(b) \in Nat /\ DOMAIN c = 1..(Len(a) + Len(b))
      /\ \A i \in 1..Len(a) : c[i] = a[i]
      /\ \A i \in 1..Len(b) : c[Len(a) + i] = b[i]
    BY Joined
<1>2. DOMAIN a = 1..Len(a) /\ DOMAIN b = 1..Len(b)
    BY ListElements
<1> HIDE DEF c
<1>3. IsFiniteSet(Places(a, x)) /\ Cardinality(Places(a, x)) \in Nat
    <2>1. IsFiniteSet(1..Len(a)) /\ Places(a, x) \in SUBSET (1..Len(a))
        BY <1>1, <1>2, FS_Interval DEF Places
    <2> QED BY <2>1, FS_Subset, FS_CardinalityType
<1>4. ASSUME NEW i \in DOMAIN c, i \notin 1..Len(a)
      PROVE  i - Len(a) \in DOMAIN b /\ c[i] = b[i - Len(a)]
    <2>1. i - Len(a) \in 1..Len(b) /\ Len(a) + (i - Len(a)) = i
        BY <1>1, <1>4
    <2> QED BY <1>1, <1>2, <2>1
<1>5. \E e : Places(c, x) \subseteq Places(a, x) \union {e}
    <2>1. CASE \E j \in DOMAIN b : b[j] = x
        <3>1. PICK j \in DOMAIN b : b[j] = x
            BY <2>1
        <3>2. ASSUME NEW i \in Places(c, x), i \notin Places(a, x) PROVE i = Len(a) + j
            <4>1. i \in DOMAIN c /\ c[i] = x /\ i \notin 1..Len(a)
                BY <1>1, <1>2, <3>2 DEF Places
            <4>2. i - Len(a) = j
                BY <1>4, <3>1, <4>1 DEF OneToOne
            <4> QED BY <1>1, <4>1, <4>2
        <3> QED BY <3>2
    <2>2. CASE ~\E j \in DOMAIN b : b[j] = x
        <3>1. ASSUME NEW i \in Places(c, x) PROVE i \in Places(a, x)
            <4>1. i \in DOMAIN c /\ c[i] = x
                BY DEF Places
            <4>2. i \in 1..Len(a)
                BY <1>4, <2>2, <4>1
            <4> QED BY <1>1, <1>2, <4>1, <4>2 DEF Places
        <3> QED BY <3>1
    <2> QED BY <2>1, <2>2
<1>6. PICK e : Places(c, x) \subseteq Places(a, x) \union {e}
    BY <1>5
<1> DEFINE P == Places(a, x)
           Q == Places(c, x)
<1>7. IsFiniteSet(P) /\ Cardinality(P) \in Nat /\ Q \in SUBSET (P \union {e})
    BY <1>3, <1>6
<1> HIDE DEF P, Q
<1>8. IsFiniteSet(P \union {e}) /\ Cardinality(P \union {e}) <= Cardinality(P) + 1 /\ Cardinality(P \union {e}) \in Nat
    <2>1. IsFiniteSet(P \union {e}) /\ Cardinality(P \union {e}) = IF e \in P THEN Cardinality(P) ELSE Cardinality(P) + 1
        BY <1>7, FS_AddElement
    <2> QED BY <1>7, <2>1
<1>9. IsFiniteSet(Q) /\ Cardinality(Q) <= Cardinality(P \union {e}) /\ Cardinality(Q) \in Nat
    BY <1>7, <1>8, FS_Subset, FS_CardinalityType
<1>10. Cardinality(Q) <= Cardinality(P) + 1
    BY <1>7, <1>8, <1>9
<1> QED BY <1>3, <1>9, <1>10 DEF P, Q, c

(* A set whose elements stand for different elements of a finite set. *)
LEMMA NoMoreThan ==
    ASSUME NEW S, NEW T, IsFiniteSet(T), NEW f, \A i \in S : f[i] \in T, OneToOne(f, S)
    PROVE  IsFiniteSet(S) /\ Cardinality(S) <= Cardinality(T) /\ Cardinality(S) \in Nat /\ Cardinality(T) \in Nat
<1> DEFINE g == [i \in S |-> f[i]]
<1>1. g \in Injection(S, T)
    BY DEF Injection, IsInjective, OneToOne
<1> HIDE DEF g
<1> QED BY <1>1, FS_Injection, FS_CardinalityType

(* A selection has x no more often than the list. *)
LEMMA SelectedPlaces ==
    ASSUME NEW D, NEW l \in Seq(D), NEW S \in SUBSET (DOMAIN l), NEW x
    PROVE  /\ IsFiniteSet(Places(l, x)) /\ Cardinality(Places(l, x)) \in Nat
           /\ Cardinality(Places(At(l, S), x)) \in Nat
           /\ Cardinality(Places(At(l, S), x)) <= Cardinality(Places(l, x))
<1>1. DOMAIN l = 1..Len(l) /\ Len(l) \in Nat
    BY ListElements
<1>2. IsFiniteSet(Places(l, x))
    <2>1. IsFiniteSet(1..Len(l)) /\ Places(l, x) \in SUBSET (1..Len(l))
        BY <1>1, FS_Interval DEF Places
    <2> QED BY <2>1, FS_Subset
<1>3. /\ DOMAIN At(l, S) = 1..Cardinality(S)
      /\ \A n \in 1..Cardinality(S) : Nth(S, n) \in S /\ At(l, S)[n] = l[Nth(S, n)]
    BY AtMembers DEF Selects
<1>4. IsFiniteSet(S) /\ S \in SUBSET Nat
    <2>1. IsFiniteSet(1..Len(l)) /\ S \in SUBSET (1..Len(l))
        BY <1>1, FS_Interval
    <2> QED BY <2>1, FS_Subset
<1>5. \A n \in 1..Cardinality(S) : RankIn(S, Nth(S, n)) = n
    BY <1>4, NthIn
<1> DEFINE P == Places(At(l, S), x)
           Q == Places(l, x)
           f == [n \in 1..Cardinality(S) |-> Nth(S, n)]
<1>6. P \subseteq 1..Cardinality(S) /\ \A n \in P : l[Nth(S, n)] = x /\ Nth(S, n) \in S
    BY <1>3 DEF Places
<1>7. \A n \in P : f[n] = Nth(S, n) /\ f[n] \in Q
    BY <1>6 DEF Places
<1>8. OneToOne(f, P)
    BY <1>5, <1>6, <1>7 DEF OneToOne
<1> HIDE DEF P, Q, f
<1>9. IsFiniteSet(Q)
    BY <1>2 DEF Q
<1>10. Cardinality(P) <= Cardinality(Q) /\ Cardinality(P) \in Nat /\ Cardinality(Q) \in Nat
    BY <1>7, <1>8, <1>9, NoMoreThan
<1> QED BY <1>9, <1>10 DEF P, Q

(* No test is given more than nReruns reruns. *)
LEMMA RerunsOfOne ==
    ASSUME NEW D, NEW s \in Seq(D), OneToOne(s, DOMAIN s), NEW x
    PROVE  Cardinality(Places(RerunJobs(s), x)) <= NReruns
<1>1. PICK f : IsRounds(f, NReruns, RoundJobs(s)) /\ RerunJobs(s) = Prefix(f[NReruns], Phase2Budget)
    BY RerunRounds
<1>2. \A r \in 0..NReruns : f[r] = IF r = 0 THEN <<>> ELSE f[r - 1] \o RoundJobs(s)[r - 1]
    BY <1>1 DEF IsRounds
<1> DEFINE T == {r \in Nat : r <= NReruns => f[r] \in Seq(D) /\ Cardinality(Places(f[r], x)) <= r}
<1>3. 0 \in T
    <2>1. f[0] = <<>> /\ <<>> \in Seq(D)
        BY <1>2
    <2>2. Places(f[0], x) = {} /\ f[0] \in Seq(D)
        BY <2>1 DEF Places
    <2>3. Cardinality(Places(f[0], x)) = 0
        BY <2>2, FS_EmptySet
    <2>4. f[0] \in Seq(D) /\ Cardinality(Places(f[0], x)) <= 0 /\ 0 \in Nat
        BY <2>2, <2>3
    <2> HIDE DEF Places
    <2> QED BY <2>4
<1>4. ASSUME NEW r \in 0..(NReruns - 1), r \in T PROVE r + 1 \in T
    <2> DEFINE a == f[r]
               b == RoundJobs(s)[r]
    <2>1. r \in Nat /\ r <= NReruns /\ r + 1 \in 0..NReruns /\ r + 1 # 0 /\ (r + 1) - 1 = r
        OBVIOUS
    <2>2. f[r + 1] = a \o b
        BY <1>2, <2>1
    <2>3. a \in Seq(D) /\ Cardinality(Places(a, x)) <= r
        BY <1>4, <2>1
    <2>4. b = At(s, Due(s, r)) /\ Due(s, r) \in SUBSET DOMAIN s
        BY DEF RoundJobs, Due
    <2>5. b \in Seq(D) /\ OneToOne(b, DOMAIN b)
        <3> DEFINE S == Due(s, r)
                   l == At(s, S)
        <3>1. S \in SUBSET DOMAIN s /\ b = l
            BY <2>4
        <3> HIDE DEF S
        <3>2. l \in Seq(D) /\ Selects(l, s, S)
            BY <3>1, AtMembers
        <3> HIDE DEF l
        <3>3. \A i, j \in S : s[i] = s[j] => i = j
            BY <3>1 DEF OneToOne
        <3>4. OneToOne(l, DOMAIN l)
            BY <3>2, <3>3 DEF Selects, OneToOne
        <3> HIDE DEF b
        <3> QED BY <3>1, <3>2, <3>4
    <2> HIDE DEF a, b
    <2>6. a \o b \in Seq(D) /\ Cardinality(Places(a, x)) \in Nat /\ Cardinality(Places(a \o b, x)) \in Nat
          /\ Cardinality(Places(a \o b, x)) <= Cardinality(Places(a, x)) + 1
        BY <2>3, <2>5, OneMorePlace, Joined
    <2>7. Cardinality(Places(a \o b, x)) <= r + 1
        BY <2>1, <2>3, <2>6
    <2>8. f[r + 1] \in Seq(D) /\ Cardinality(Places(f[r + 1], x)) <= r + 1 /\ r + 1 \in Nat
        BY <2>1, <2>2, <2>6, <2>7
    <2> QED BY <2>8
<1>5. NReruns \in T
    <2>1. T \in SUBSET Nat /\ \A r \in Nat : r > NReruns => r \in T
        OBVIOUS
    <2> HIDE DEF T
    <2> QED BY <1>3, <1>4, <2>1, RoundsKeep
<1> DEFINE l == f[NReruns]
<1>6. l \in Seq(D) /\ Cardinality(Places(l, x)) <= NReruns
    BY <1>5
<1> HIDE DEF l
<1> DEFINE S == {i \in 1..Phase2Budget : i \in DOMAIN l}
<1>7. S \in SUBSET (DOMAIN l)
    OBVIOUS
<1>8. Prefix(l, Phase2Budget) = At(l, S)
    BY DEF Prefix
<1> HIDE DEF S
<1>9. /\ Cardinality(Places(l, x)) \in Nat /\ Cardinality(Places(At(l, S), x)) \in Nat
      /\ Cardinality(Places(At(l, S), x)) <= Cardinality(Places(l, x))
    BY <1>6, <1>7, SelectedPlaces
<1>10. Cardinality(Places(At(l, S), x)) <= NReruns
    BY <1>6, <1>9
<1> QED BY <1>1, <1>8, <1>10 DEF l

-----------------------------------------------------------------------------
(* RunsInv holds when generate starts. *)
LEMMA RunsInit == Init => RunsInv
<1> SUFFICES ASSUME Init PROVE RunsInv
    OBVIOUS
<1>1. /\ heap = [k \in Slot |-> heap[k]]
      /\ \A k \in Slot : \E l \in BOOLEAN : heap[k] = NewIndividual(Counts[k], l)
    BY InitHeap
<1>2. pc = "round"
    BY DEF Init
<1>3. \A x \in DOMAIN heap : Len(heap[x].runs) = 0
    <2>1. \A x \in DOMAIN heap : heap[x].runs = <<>>
        BY <1>1, CountsType, NewFacts
    <2> QED BY <2>1
<1> QED BY <1>2, <1>3 DEF RunsInv

(* New individuals have no runs. *)
LEMMA GrownRuns ==
    ASSUME PopulationInv, NEW S \in SUBSET Slot, Grown(S), NEW n \in Nat,
           \A x \in DOMAIN heap : Len(heap[x].runs) <= n
    PROVE  \A x \in DOMAIN heap' : Len(heap'[x].runs) <= n
<1> TAKE x \in DOMAIN heap'
<1>1. CASE x \in DOMAIN heap
    BY <1>1 DEF Grown
<1>2. CASE x \notin DOMAIN heap
    <2>1. PICK k \in S : x = pop'[k]
        BY <1>2 DEF Grown
    <2>2. PICK l \in BOOLEAN : heap'[x] = NewIndividual(Counts[k], l)
        BY <2>1 DEF Grown
    <2>3. Counts[k] \in Niche
        BY CountsType
    <2>4. heap'[x].runs = <<>>
        BY <2>2, <2>3, NewFacts
    <2> QED BY <2>4
<1> QED BY <1>1, <1>2

(* Steps within discovery that create individuals. *)
LEMMA RunsGrown ==
    ASSUME PopulationInv, RunsInv, NEW S \in SUBSET Slot, Grown(S), phase' = phase,
           pc \in {"round", "launch", "evaluate"}, pc' \in {"round", "launch", "evaluate"}
    PROVE  RunsInv'
<1>1. \A x \in DOMAIN heap' : Len(heap'[x].runs) <= 1 + NReruns
    <2> DEFINE n == 1 + NReruns
    <2>1. n \in Nat /\ \A x \in DOMAIN heap : Len(heap[x].runs) <= n
        BY DEF RunsInv
    <2> HIDE DEF n
    <2>2. \A x \in DOMAIN heap' : Len(heap'[x].runs) <= n
        BY <2>1, GrownRuns
    <2> QED BY <2>2 DEF n
<1>2. phase = 1 => \A x \in DOMAIN heap' : Len(heap'[x].runs) <= 1
    <2> SUFFICES ASSUME phase = 1 PROVE \A x \in DOMAIN heap' : Len(heap'[x].runs) <= 1
        OBVIOUS
    <2>1. \A x \in DOMAIN heap : Len(heap[x].runs) <= 1
        BY DEF RunsInv
    <2> QED BY <2>1, GrownRuns
<1> QED BY <1>1, <1>2 DEF RunsInv

(* Breeding keeps RunsInv. *)
LEMMA RunsBreed == PopulationInv /\ RunsInv /\ Breed => RunsInv'
<1> SUFFICES ASSUME PopulationInv, RunsInv, Breed PROVE RunsInv'
    OBVIOUS
<1> DEFINE S == Slot \ EliteSlots
<1>1. Grown(S) /\ S \in SUBSET Slot
    BY BreedEffect
<1>2. pc = "round" /\ pc' = "launch" /\ phase' = phase
    BY DEF Breed
<1> HIDE DEF S
<1> QED BY <1>1, <1>2, RunsGrown

(* The end of a round keeps RunsInv. *)
LEMMA RunsRound == BudgetInv /\ PopulationInv /\ RunsInv /\ RoundDone => RunsInv'
<1> SUFFICES ASSUME BudgetInv, PopulationInv, RunsInv, RoundDone PROVE RunsInv'
    OBVIOUS
<1> DEFINE S == GivenUp
<1>1. Grown(S) /\ S \in SUBSET Slot
    BY RoundEffect
<1>2. pc = "evaluate" /\ pc' = "round" /\ phase' = phase
    BY DEF RoundDone
<1> HIDE DEF S
<1> QED BY <1>1, <1>2, RunsGrown

(* Starting a batch keeps RunsInv when elites are not confirmed. *)
LEMMA RunsLaunch ==
    ASSUME ~RerunElites
    PROVE  BudgetInv /\ PopulationInv /\ RunsInv /\ Launch => RunsInv'
<1> SUFFICES ASSUME BudgetInv, PopulationInv, RunsInv, Launch PROVE RunsInv'
    OBVIOUS
<1>1. pc \in {"round", "launch"} /\ pc' = "evaluate" /\ UNCHANGED <<heap, phase>>
    BY LaunchEffect
<1> QED BY <1>1 DEF RunsInv

(* A layout that is evaluated has no run before and at most one after. *)
LEMMA RunsEvaluate == BudgetInv /\ PopulationInv /\ ResultsInv /\ RunsInv /\ Evaluate => RunsInv'
<1> SUFFICES ASSUME BudgetInv, PopulationInv, ResultsInv, RunsInv, Evaluate PROVE RunsInv'
    OBVIOUS
<1>1. pc = "evaluate" /\ \E i, o, y : Attempted(i, o, y) /\ EvaluateStep(heap[IndividualAt(i)], y, o)
    BY EvaluateEffect
<1>2. PICK i, o, y : Attempted(i, o, y) /\ EvaluateStep(heap[IndividualAt(i)], y, o)
    BY <1>1
<1> DEFINE x == IndividualAt(i)
<1>3. /\ i \in DOMAIN wave /\ i \in DOMAIN pending /\ pending[i].job \in DOMAIN jobs
      /\ x \in DOMAIN heap /\ heap[x] \in IndividualRecord /\ wave[i] = "running"
      /\ DOMAIN heap' = DOMAIN heap /\ heap'[x] = y /\ \A z \in DOMAIN heap \ {x} : heap'[z] = heap[z]
      /\ UNCHANGED <<pc, phase>>
    BY <1>2 DEF Attempted, searchVars
<1>4. x = jobs[pending[i].job] /\ ~heap[x].valid
    BY <1>1, <1>3 DEF ResultsInv, OpenInv, Open, IndividualAt
<1>5. PICK k \in candidates : x = pop[k]
    BY <1>1, <1>3, <1>4 DEF ResultsInv, BatchJobs
<1>6. heap[x].fits /\ Sane(heap[x])
    BY <1>1, <1>3, <1>5 DEF ResultsInv, EvaluatedInv, SaneInv
<1>7. (y.valid => Len(y.runs) = 1) /\ (~y.valid => y.runs = <<>>)
    BY <1>2, <1>3, <1>4, <1>6, EvaluateSane
<1> HIDE DEF x
<1>8. Len(y.runs) <= 1
    <2>1. y.runs = <<>> => Len(y.runs) = 0
        OBVIOUS
    <2> DEFINE n == Len(y.runs)
    <2>2. n = 1 \/ n = 0
        BY <1>7, <2>1, Zenon
    <2> HIDE DEF n
    <2>3. n <= 1
        BY <2>2
    <2> QED BY <2>3 DEF n
<1>9. \A z \in DOMAIN heap : Len(heap'[z].runs) <= 1 \/ heap'[z] = heap[z]
    BY <1>3, <1>8
<1> QED BY <1>1, <1>3, <1>9 DEF RunsInv

(* The open jobs of a layout are finitely many. *)
LEMMA OpenJobsFinite ==
    ASSUME BudgetInv, NEW x
    PROVE  IsFiniteSet(OpenJobs(x)) /\ Cardinality(OpenJobs(x)) \in Nat
<1>1. IsFiniteSet(DOMAIN pending)
    BY FiniteDomains DEF BudgetInv, SchedulerInv
<1>2. OpenJobs(x) \in SUBSET DOMAIN pending
    BY DEF OpenJobs
<1> QED BY <1>1, <1>2, FS_Subset, FS_CardinalityType

(* A rerun settles an open job for every run that it adds. *)
LEMMA RunsRerun == BudgetInv /\ PopulationInv /\ ResultsInv /\ RunsInv /\ Rerun => RunsInv'
<1> SUFFICES ASSUME BudgetInv, PopulationInv, ResultsInv, RunsInv, Rerun PROVE RunsInv'
    OBVIOUS
<1>1. pc = "refine" /\ \E i, o, y : Attempted(i, o, y) /\ RerunStep(heap[IndividualAt(i)], y, o)
    BY RerunEffect DEF RunsInv
<1>2. PICK i, o, y : Attempted(i, o, y) /\ RerunStep(heap[IndividualAt(i)], y, o)
    BY <1>1
<1> DEFINE x == IndividualAt(i)
<1>3. /\ i \in DOMAIN wave /\ i \in DOMAIN pending /\ pending[i].job \in DOMAIN jobs
      /\ x \in DOMAIN heap /\ heap[x] \in IndividualRecord
      /\ wave[i] = "running" /\ wave' = [wave EXCEPT ![i] = o]
      /\ DOMAIN heap' = DOMAIN heap /\ heap'[x] = y /\ \A z \in DOMAIN heap \ {x} : heap'[z] = heap[z]
      /\ UNCHANGED <<jobs, pending, pc, phase>>
    BY <1>2 DEF Attempted, searchVars
<1>4. x = jobs[pending[i].job] /\ Open(i)
    BY <1>3 DEF Open, IndividualAt
<1>5. heap[x].valid /\ Sane(heap[x])
    <2>1. x \in Range(promising)
        BY <1>1, <1>3, <1>4 DEF ResultsInv, BatchJobs
    <2> QED BY <1>1, <1>3, <2>1 DEF ResultsInv, BatchJobs, SaneInv
<1>6. \/ o = "FLAKE" /\ Len(y.runs) = Len(heap[x].runs)
      \/ o = "CONSUMED" /\ Len(y.runs) = Len(heap[x].runs) + 1
    BY <1>2, <1>3, <1>5, RerunSane
<1>7. \A z \in DOMAIN heap : Len(heap[z].runs) \in Nat
    BY References, RecordFields
<1> HIDE DEF x
<1>8. \A z : OpenJobs(z)' \subseteq OpenJobs(z)
    <2>1. \A j \in DOMAIN pending : Open(j)' => Open(j)
        BY <1>3, <1>4 DEF Open
    <2> QED BY <1>3, <2>1 DEF OpenJobs
<1>9. ASSUME NEW z \in DOMAIN heap
      PROVE  Len(heap'[z].runs) + Cardinality(OpenJobs(z)') <= Len(heap[z].runs) + Cardinality(OpenJobs(z))
             /\ Cardinality(OpenJobs(z)') \in Nat /\ Len(heap'[z].runs) \in Nat
    <2> DEFINE P == OpenJobs(z)
               Q == OpenJobs(z)'
    <2>1. IsFiniteSet(P) /\ Cardinality(P) \in Nat /\ Q \in SUBSET P
        BY <1>8, OpenJobsFinite
    <2>2. z = x /\ o = "CONSUMED" => i \in P /\ i \notin Q
        BY <1>3, <1>4 DEF OpenJobs, Open
    <2> HIDE DEF P, Q
    <2>3. Cardinality(Q) <= Cardinality(P) /\ Cardinality(Q) \in Nat
        BY <2>1, FS_Subset, FS_CardinalityType
    <2>4. z = x /\ o = "CONSUMED" => Cardinality(Q) <= Cardinality(P) - 1
        <3> SUFFICES ASSUME z = x, o = "CONSUMED" PROVE Cardinality(Q) <= Cardinality(P) - 1
            OBVIOUS
        <3>1. IsFiniteSet(P \ {i}) /\ Cardinality(P \ {i}) = Cardinality(P) - 1 /\ Q \in SUBSET (P \ {i})
            BY <2>1, <2>2, FS_RemoveElement
        <3>2. Cardinality(Q) <= Cardinality(P \ {i})
            BY <3>1, FS_Subset
        <3> QED BY <3>1, <3>2
    <2>5. CASE z # x
        BY <1>3, <1>7, <2>1, <2>3, <2>5 DEF P, Q
    <2>6. CASE z = x
        <3>1. heap'[z] = y /\ Len(heap[x].runs) \in Nat
            BY <1>3, <1>7, <2>6
        <3>2. Len(y.runs) + Cardinality(Q) <= Len(heap[x].runs) + Cardinality(P) /\ Len(y.runs) \in Nat
            BY <1>6, <2>1, <2>3, <2>4, <2>6, <3>1
        <3> QED BY <2>3, <2>6, <3>1, <3>2 DEF P, Q
    <2> QED BY <2>5, <2>6
<1>10. \A z \in DOMAIN heap : Len(heap'[z].runs) + Cardinality(OpenJobs(z)') <= 1 + NReruns
    <2> TAKE z \in DOMAIN heap
    <2>1. Len(heap[z].runs) + Cardinality(OpenJobs(z)) <= 1 + NReruns /\ Cardinality(OpenJobs(z)) \in Nat
          /\ Len(heap[z].runs) \in Nat
        BY <1>1, <1>7, OpenJobsFinite DEF RunsInv
    <2> QED BY <1>9, <2>1
<1>11. \A z \in DOMAIN heap : Len(heap'[z].runs) <= 1 + NReruns
    <2> TAKE z \in DOMAIN heap
    <2> DEFINE a == Len(heap'[z].runs)
               b == Cardinality(OpenJobs(z)')
    <2>1. a \in Nat /\ b \in Nat /\ a + b <= 1 + NReruns
        BY <1>9, <1>10
    <2> HIDE DEF a, b
    <2>2. a <= 1 + NReruns
        BY <2>1
    <2> QED BY <2>2 DEF a
<1> QED BY <1>1, <1>3, <1>10, <1>11 DEF RunsInv

-----------------------------------------------------------------------------
(* Retried jobs were open, and dropped ones are not open any more. *)
LEMMA RunsWaves == BudgetInv /\ PopulationInv /\ RunsInv /\ (StartBatchWave \/ EndBatchWave) => RunsInv'
<1> SUFFICES ASSUME BudgetInv, PopulationInv, RunsInv, StartBatchWave \/ EndBatchWave PROVE RunsInv'
    OBVIOUS
<1>1. UNCHANGED <<heap, phase, jobs, pc>>
    BY DEF StartBatchWave, StartWave, EndBatchWave, EndWave, searchVars
<1>2. ASSUME NEW x
      PROVE  Cardinality(OpenJobs(x)') <= Cardinality(OpenJobs(x)) /\ Cardinality(OpenJobs(x)') \in Nat
             /\ Cardinality(OpenJobs(x)) \in Nat
    <2>1. CASE StartBatchWave
        <3>1. UNCHANGED pending /\ bpc = "loop" /\ wave' = [i \in Selected |-> "running"]
            BY <2>1 DEF StartBatchWave, StartWave
        <3>2. DOMAIN wave = {} /\ \A i \in DOMAIN wave' : wave'[i] = "running"
            BY <3>1 DEF BudgetInv, SchedulerInv
        <3>3. OpenJobs(x)' = OpenJobs(x)
            BY <1>1, <3>1, <3>2 DEF OpenJobs, Open
        <3> QED BY <3>3, OpenJobsFinite
    <2>2. CASE EndBatchWave
        <3>1. PICK origin : Moved(origin)
            BY <2>2, EndWaveEffect
        <3> DEFINE P == OpenJobs(x)
                   Q == OpenJobs(x)'
        <3>2. \A n \in Q : origin[n] \in P
            <4> TAKE n \in Q
            <4>1. n \in DOMAIN pending' /\ jobs[pending'[n].job] = x
                BY <1>1 DEF OpenJobs
            <4>2. /\ origin[n] \in DOMAIN pending /\ pending'[n].job = pending[origin[n]].job
                  /\ origin[n] \in DOMAIN wave => wave[origin[n]] = "FLAKE"
                BY <3>1, <4>1 DEF Moved
            <4> QED BY <4>1, <4>2 DEF OpenJobs, Open
        <3>3. OneToOne(origin, Q)
            BY <3>1 DEF OneToOne, OpenJobs, Moved
        <3>4. IsFiniteSet(P)
            BY OpenJobsFinite
        <3> HIDE DEF P, Q
        <3>5. Cardinality(Q) <= Cardinality(P) /\ Cardinality(Q) \in Nat /\ Cardinality(P) \in Nat
            BY <3>2, <3>3, <3>4, NoMoreThan
        <3> QED BY <3>5 DEF P, Q
    <2> QED BY <2>1, <2>2
<1>3. pc = "refine" => \A x \in DOMAIN heap : Len(heap[x].runs) + Cardinality(OpenJobs(x)') <= 1 + NReruns
    <2> SUFFICES ASSUME pc = "refine", NEW x \in DOMAIN heap
                 PROVE  Len(heap[x].runs) + Cardinality(OpenJobs(x)') <= 1 + NReruns
        OBVIOUS
    <2>1. Len(heap[x].runs) + Cardinality(OpenJobs(x)) <= 1 + NReruns /\ Len(heap[x].runs) \in Nat
        BY References, RecordFields DEF RunsInv
    <2> QED BY <1>2, <2>1
<1> QED BY <1>1, <1>3 DEF RunsInv

(* Every promising test has at most one run when its reruns are laid out. *)
LEMMA RunsRefine == BudgetInv /\ PopulationInv /\ ResultsInv /\ RunsInv /\ StartRefinement => RunsInv'
<1> SUFFICES ASSUME BudgetInv, PopulationInv, ResultsInv, RunsInv, StartRefinement PROVE RunsInv'
    OBVIOUS
<1>1. /\ pc = "round" /\ phase = 1 /\ pc' = "refine" /\ (\E s \in Suites : promising' = PromisingIn(s))
      /\ promising' \in Seq(DOMAIN heap)
      /\ RerunJobs(promising') \in Seq(DOMAIN heap)
      /\ Call(RerunJobs(promising'), Phase2Budget)
      /\ UNCHANGED <<heap, phase>>
    BY RefineEffect
<1>2. PICK s \in Suites : promising' = PromisingIn(s)
    BY <1>1
<1>3. OneToOne(promising', DOMAIN promising')
    <2>1. \A m, n \in DOMAIN evaluated : evaluated[m] = evaluated[n] => m = n
        BY DEF ResultsInv, EvaluatedInv, OneToOne
    <2>2. \A q, r \in DOMAIN PromisingIn(s) : PromisingIn(s)[q] = PromisingIn(s)[r] => q = r
        BY <2>1, PromisingFacts DEF PopulationInv
    <2> QED BY <1>2, <2>2 DEF OneToOne
<1> DEFINE p == promising'
           js == RerunJobs(p)
<1>4. p \in Seq(DOMAIN heap) /\ OneToOne(p, DOMAIN p) /\ js \in Seq(DOMAIN heap) /\ Call(js, Phase2Budget)
    BY <1>1, <1>3
<1> HIDE DEF p
<1>5. \A x : Cardinality(Places(js, x)) <= NReruns
    BY <1>4, RerunsOfOne
<1> HIDE DEF js
<1>6. jobs' = js /\ DOMAIN wave' = {} /\ DOMAIN pending' = DOMAIN js /\ \A i \in DOMAIN js : pending'[i].job = i
    BY <1>4, CallFacts
<1>7. \A x : OpenJobs(x)' = Places(js, x)
    BY <1>6 DEF OpenJobs, Open, Places
<1>8. \A x : Cardinality(Places(js, x)) \in Nat
    <2> TAKE x
    <2>1. DOMAIN js = 1..Len(js) /\ Len(js) \in Nat
        BY <1>4, ListElements
    <2>2. IsFiniteSet(1..Len(js)) /\ Places(js, x) \in SUBSET (1..Len(js))
        BY <2>1, FS_Interval DEF Places
    <2> QED BY <2>2, FS_Subset, FS_CardinalityType
<1>9. ASSUME NEW x \in DOMAIN heap PROVE Len(heap[x].runs) + Cardinality(OpenJobs(x)') <= 1 + NReruns
    <2>1. Len(heap[x].runs) <= 1 /\ Len(heap[x].runs) \in Nat
        BY <1>1, References, RecordFields DEF RunsInv
    <2>2. Cardinality(OpenJobs(x)') <= NReruns /\ Cardinality(OpenJobs(x)') \in Nat
        BY <1>5, <1>7, <1>8
    <2> QED BY <2>1, <2>2
<1> QED BY <1>1, <1>9 DEF RunsInv

(* The end of refinement and of the search keep RunsInv. *)
LEMMA RunsEnd ==
    BudgetInv /\ PopulationInv /\ RunsInv /\ (RefinementDone \/ ReturnedBudgetDone \/ Select) => RunsInv'
<1> SUFFICES ASSUME BudgetInv, PopulationInv, RunsInv, RefinementDone \/ ReturnedBudgetDone \/ Select PROVE RunsInv'
    OBVIOUS
<1>1. CASE RefinementDone
    <2>1. RescoredIn(RefinedSet) /\ ((pc' = "round" /\ phase' = 2) \/ pc' = "select")
        BY <1>1, RefinementEffect
    <2>2. \A x \in DOMAIN heap : heap'[x].runs = heap[x].runs
        <3> TAKE x \in DOMAIN heap
        <3>1. heap[x] \in IndividualRecord /\ (heap'[x] = heap[x] \/ heap'[x] = Rescored(heap[x]))
            BY <2>1, References DEF RescoredIn
        <3>2. Rescored(heap[x]).runs = heap[x].runs
            BY <3>1, RescoredFacts
        <3> QED BY <3>1, <3>2
    <2>3. DOMAIN heap' = DOMAIN heap
        BY <2>1 DEF RescoredIn
    <2> QED BY <2>1, <2>2, <2>3 DEF RunsInv
<1>2. CASE ReturnedBudgetDone \/ Select
    <2>1. heap' = heap /\ pc' \in {"select", "done"}
        BY <1>2 DEF ReturnedBudgetDone, Select
    <2> QED BY <2>1 DEF RunsInv
<1> QED BY <1>1, <1>2

(* Every step keeps RunsInv when elites are not confirmed. *)
LEMMA RunsNext ==
    ASSUME ~RerunElites
    PROVE  BudgetInv /\ PopulationInv /\ ResultsInv /\ RunsInv /\ [Next]_vars => RunsInv'
<1> SUFFICES ASSUME BudgetInv, PopulationInv, ResultsInv, RunsInv, [Next]_vars PROVE RunsInv'
    OBVIOUS
<1>1. CASE UNCHANGED vars
    <2>1. UNCHANGED <<heap, phase, pc, pending, jobs, wave>>
        BY <1>1 DEF vars, searchVars, batchVars
    <2> QED BY <2>1 DEF RunsInv, OpenJobs, Open
<1>2. ~ElitesConfirmed
    BY DEF RunsInv, ElitesConfirmed
<1>3. CASE Next
    BY <1>2, <1>3, RunsBreed, RunsLaunch, RunsWaves, RunsEvaluate, RunsRerun, RunsRound, RunsRefine, RunsEnd DEF Next
<1> QED BY <1>1, <1>3

EffortInv == AttemptsInv /\ (~RerunElites => RunsInv)

(* Every step keeps EffortInv. *)
LEMMA EffortNext == BudgetInv /\ PopulationInv /\ ResultsInv /\ EffortInv /\ [Next]_vars => EffortInv'
<1> SUFFICES ASSUME BudgetInv, PopulationInv, ResultsInv, EffortInv, [Next]_vars PROVE EffortInv'
    OBVIOUS
<1>1. AttemptsInv'
    BY AttemptsNext DEF EffortInv
<1>2. ASSUME ~RerunElites PROVE RunsInv'
    BY <1>2, RunsNext DEF EffortInv
<1> QED BY <1>1, <1>2 DEF EffortInv

(* No layout eats the budget: an individual is attempted at most            *)
(* maxRunFailures + maxFlakeRetries times, and without elite confirmation   *)
(* it is measured at most 1 + nReruns times.                                *)
THEOREM EffortPerLayout == Spec => []EffortBounded
<1>1. Init => EffortInv
    BY AttemptsInit, RunsInit DEF EffortInv
<1>2. BudgetInv /\ PopulationInv /\ ResultsInv /\ EffortInv /\ [Next]_vars => EffortInv'
    BY EffortNext
<1>3. EffortInv => EffortBounded
    BY DEF EffortInv, AttemptsInv, AttemptLimit, RunsInv, EffortBounded
<1> QED BY <1>1, <1>2, <1>3, CampaignInvariant, CampaignPopulation, CampaignResults, PTL DEF Spec

-----------------------------------------------------------------------------
(***************************************************************************)
(* Elitism.                                                                *)
(***************************************************************************)

(* What a layout that breeding meets has as fitness. *)
LEMMA BredFitness ==
    ASSUME NEW x \in IndividualRecord, Sane(x), x.valid => Current(x)
    PROVE  /\ SearchScore(x) \in Nat \X (Nat \ {0})
           /\ x.valid => Fitness(x) = <<0 - SearchScore(x)[1], SearchScore(x)[2]>>
           /\ ~x.valid => Fitness(x) = Infinity /\ SearchScore(x)[1] = 0
<1>1. x.runs \in Seq(Run) /\ Len(x.runs) \in Nat /\ x.niche \in Niche /\ x.stuck \in BOOLEAN
    BY RecordFields
<1>2. SearchScore(x) \in Nat \X (Nat \ {0})
    BY <1>1, ScoreType DEF SearchScore
<1>3. ASSUME x.valid PROVE Fitness(x) = <<0 - SearchScore(x)[1], SearchScore(x)[2]>>
    <2>1. x.score.n = Len(x.runs) /\ x.score.stuck = x.stuck /\ x.score.n # 0
        BY <1>3 DEF Current, Sane
    <2>2. ScoredRuns(x) = x.runs
        BY <1>1, <2>1 DEF ScoredRuns
    <2> QED BY <2>1, <2>2 DEF Fitness, SearchScore
<1>4. ASSUME ~x.valid PROVE Fitness(x) = Infinity /\ SearchScore(x)[1] = 0
    <2>1. x.runs = <<>> /\ x.score.n = 0
        BY <1>4 DEF Sane
    <2>2. Fitness(x) = Infinity
        BY <2>1 DEF Fitness
    <2>3. SearchScore(x)[1] = 0
        BY <2>1 DEF SearchScore, searchTestScore, scoreFromPoints
    <2> QED BY <2>2, <2>3
<1> QED BY <1>2, <1>3, <1>4

(* A layout that outscores another comes first in the sort. *)
LEMMA BetterComesFirst ==
    ASSUME NEW x \in IndividualRecord, Sane(x), x.valid => Current(x),
           NEW y \in IndividualRecord, Sane(y), y.valid => Current(y),
           Below(SearchScore(x), SearchScore(y))
    PROVE  KeyBelow(searchSelectionKey(y), searchSelectionKey(x))
<1> DEFINE s == SearchScore(x)
           t == SearchScore(y)
<1>1. s[1] \in Nat /\ s[2] \in Nat \ {0} /\ t[1] \in Nat /\ t[2] \in Nat \ {0}
    BY BredFitness
<1>2. x.valid => Fitness(x) = <<0 - s[1], s[2]>>
    BY BredFitness
<1>3. ~x.valid => Fitness(x) = Infinity
    BY BredFitness
<1>4. y.valid => Fitness(y) = <<0 - t[1], t[2]>>
    BY BredFitness
<1>5. ~y.valid => t[1] = 0
    BY BredFitness
<1>6. s[1] * t[2] < t[1] * s[2]
    BY DEF Below
<1> HIDE DEF s, t
<1>7. y.valid
    <2> SUFFICES ASSUME t[1] = 0 PROVE FALSE
        BY <1>5
    <2>1. s[1] * t[2] \in Nat /\ t[1] * s[2] = 0
        BY <1>1
    <2> QED BY <1>6, <2>1
<1>8. Below(Fitness(y), Fitness(x))
    <2>1. CASE x.valid
        <3>1. (0 - t[1]) * s[2] < (0 - s[1]) * t[2]
            <4> DEFINE a == s[1] * t[2]
                       b == t[1] * s[2]
            <4>1. (0 - t[1]) * s[2] = 0 - b /\ (0 - s[1]) * t[2] = 0 - a /\ a \in Int /\ b \in Int /\ a < b
                BY <1>1, <1>6
            <4> HIDE DEF a, b
            <4> QED BY <4>1
        <3> QED BY <1>2, <1>4, <1>7, <2>1, <3>1 DEF Below
    <2>2. CASE ~x.valid
        <3>1. Fitness(x) = <<1, 0>> /\ Fitness(y) = <<0 - t[1], t[2]>>
            BY <1>3, <1>4, <1>7, <2>2 DEF Infinity
        <3>2. (0 - t[1]) * 0 < 1 * t[2]
            BY <1>1
        <3> QED BY <3>1, <3>2 DEF Below
    <2> QED BY <2>1, <2>2
<1>9. /\ 1 \in DOMAIN searchSelectionKey(y)
      /\ searchSelectionKey(y)[1] = Fitness(y) /\ searchSelectionKey(x)[1] = Fitness(x)
    BY DEF searchSelectionKey
<1>10. \A m \in 1..(1 - 1) : FALSE
    OBVIOUS
<1> DEFINE p == searchSelectionKey(y)
           q == searchSelectionKey(x)
<1>11. 1 \in DOMAIN p /\ Below(p[1], q[1])
    BY <1>8, <1>9
<1> HIDE DEF p, q
<1>12. KeyBelow(p, q)
    BY <1>10, <1>11 DEF KeyBelow
<1> QED BY <1>12 DEF p, q

(* The best of a niche takes the first of the niche's slots. *)
LEMMA BestIsCarried ==
    ASSUME BudgetInv, PopulationInv, ResultsInv, Breed, Evolve, ElitePerNiche > 0,
           NEW niche \in Niche, Cardinality(NicheSlots(niche)) >= 2
    PROVE  \E k \in PoolOf(niche) :
               /\ pop[k] \in Range(pop')
               /\ \A j \in PoolOf(niche) : ~Below(SearchScore(heap[pop[k]]), SearchScore(heap[pop[j]]))
<1> DEFINE N == NicheSlots(niche)
           P == PoolOf(niche)
           k == Elite(niche, 1)
           first == Nth(N, 1)
<1>1. P = N
    BY DEF PoolOf, NicheSlots, PopulationInv, NicheQuota
<1>2. N \in SUBSET Nat /\ IsFiniteSet(N) /\ Cardinality(N) \in Nat /\ N \in SUBSET Slot
    <2>1. N \in SUBSET Slot /\ Cardinality(N) \in Nat
        BY NicheCounts
    <2> QED BY <2>1, SlotSets, Sizes
<1>3. EliteCount(niche) >= 1
    <2> DEFINE c == Cardinality(N)
    <2>1. c \in Nat /\ c >= 2 /\ EliteCount(niche) = MinOf(MinOf(ElitePerNiche, c), MaxOf(0, c - 1))
        BY <1>1, <1>2 DEF EliteCount
    <2> HIDE DEF c
    <2> QED BY <2>1 DEF MinOf, MaxOf
<1>4. 1 \in 1..Cardinality(N)
    BY <1>2
<1>5. first \in N /\ RankIn(N, first) = 1
    <2> HIDE DEF N
    <2> QED BY <1>2, <1>4, NthIn
<1>6. k \in P /\ Cardinality({j \in P : SortsBefore(j, k)}) = 0
    <2>1. 1 \in 1..Cardinality(PoolOf(niche))
        BY <1>1, <1>4
    <2>2. Elite(niche, 1) \in PoolOf(niche)
          /\ Cardinality({j \in PoolOf(niche) : SortsBefore(j, Elite(niche, 1))}) = 1 - 1
        BY <2>1, EliteFacts DEF PopulationInv
    <2> QED BY <2>2
<1>7. Counts[first] = niche /\ first \in Slot
    BY <1>2, <1>5 DEF NicheSlots
<1>8. first \in EliteSlots
    BY <1>3, <1>5, <1>7 DEF EliteSlots
<1>9. pop'[first] = pop[k]
    <2>1. pop'[first] = EliteFor(first)
        BY <1>8, BreedEffect
    <2> QED BY <1>5, <1>7, <2>1 DEF EliteFor
<1>10. pop[k] \in Range(pop')
    <2>1. first \in DOMAIN pop'
        BY <1>7, BreedEffect DEF Grown
    <2> QED BY <1>9, <2>1 DEF Range
<1>11. \A j \in P : ~SortsBefore(j, k)
    <2> DEFINE B == {j \in P : SortsBefore(j, k)}
    <2>1. IsFiniteSet(P) /\ B \in SUBSET P
        BY <1>1, <1>2
    <2>2. Cardinality(B) = 0
        BY <1>6
    <2> HIDE DEF B, P
    <2>3. B = {}
        BY <2>1, <2>2, FS_Subset, FS_EmptySet
    <2> QED BY <2>3 DEF B
<1>12. \A j \in Slot : /\ heap[pop[j]] \in IndividualRecord /\ Sane(heap[pop[j]])
                       /\ heap[pop[j]].valid => Current(heap[pop[j]])
    <2> TAKE j \in Slot
    <2>1. pop[j] \in DOMAIN heap /\ heap[pop[j]] \in IndividualRecord /\ pc = "round"
        BY References DEF Breed
    <2> QED BY <2>1 DEF ResultsInv, SaneInv, CurrentInv
<1>13. ASSUME NEW j \in P PROVE ~Below(SearchScore(heap[pop[k]]), SearchScore(heap[pop[j]]))
    <2>1. j \in Slot /\ k \in Slot
        BY <1>1, <1>2, <1>6
    <2>2. ~KeyBelow(searchSelectionKey(heap[pop[j]]), searchSelectionKey(heap[pop[k]]))
        BY <1>11 DEF SortsBefore
    <2> HIDE DEF k, P
    <2> DEFINE x == heap[pop[k]]
               y == heap[pop[j]]
    <2>3. /\ x \in IndividualRecord /\ Sane(x) /\ (x.valid => Current(x))
          /\ y \in IndividualRecord /\ Sane(y) /\ (y.valid => Current(y))
          /\ ~KeyBelow(searchSelectionKey(y), searchSelectionKey(x))
        BY <1>12, <2>1, <2>2
    <2> HIDE DEF x, y
    <2>4. ~Below(SearchScore(x), SearchScore(y))
        BY <2>3, BetterComesFirst
    <2> QED BY <2>4 DEF x, y
<1> QED BY <1>6, <1>10, <1>13

(* Elitism per niche: breeding keeps a layout that no other of its niche    *)
(* outscores on all of its runs, in every niche of two slots or more.       *)
THEOREM BestLayoutSurvives == Spec => BestSurvives
<1> DEFINE Keeps == pc = "round" /\ pc' = "launch" /\ Evolve /\ ElitePerNiche > 0 => \A niche \in Niche :
               Cardinality(NicheSlots(niche)) >= 2 =>
                   \E k \in PoolOf(niche) :
                       /\ pop[k] \in Range(pop')
                       /\ \A j \in PoolOf(niche) :
                             ~Below(SearchScore(heap[pop[k]]), SearchScore(heap[pop[j]]))
<1>1. BudgetInv /\ PopulationInv /\ ResultsInv /\ [Next]_vars => [Keeps]_vars
    <2> SUFFICES ASSUME BudgetInv, PopulationInv, ResultsInv, Next, pc = "round", pc' = "launch"
                 PROVE  Keeps
        OBVIOUS
    <2>1. Breed
        <3>1. ~Launch
            BY LaunchEffect
        <3>2. ~(StartBatchWave \/ EndBatchWave \/ Evaluate \/ Rerun)
            BY DEF StartBatchWave, EndBatchWave, Evaluate, Rerun
        <3>3. ~(ElitesConfirmed \/ RoundDone \/ StartRefinement \/ RefinementDone \/ ReturnedBudgetDone \/ Select)
            BY DEF ElitesConfirmed, RoundDone, StartRefinement, RefinementDone, ReturnedBudgetDone, Select
        <3> QED BY <3>1, <3>2, <3>3 DEF Next
    <2> QED BY <2>1, BestIsCarried
<1> QED BY <1>1, CampaignInvariant, CampaignPopulation, CampaignResults, PTL DEF Spec, BestSurvives
=============================================================================
