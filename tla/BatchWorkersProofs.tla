------------------------- MODULE BatchWorkersProofs -------------------------
(***************************************************************************)
(* Theorems about one call of runRetryingBatch, for every number of        *)
(* workers, retry limit, budget and job list.                              *)
(***************************************************************************)
EXTENDS BatchWorkers, RetryingBatchProofs

(* Outside a wave no batch is in flight. *)
WaveShape == bpc # "wave" => wave = <<>>

(* The ledger and the finished attempts of the wave add up. *)
Finished == {i \in DOMAIN wave : wave[i] \in {"FLAKE", "CONSUMED"}}
LedgerInv == simulated = attemptsUsed + Cardinality(Finished)

(* Between its two appends a worker is exactly one measurement ahead. *)
AppendingAt(i, x) == wave[i] = "appending" /\ IndividualAt(i) = x
PairedInv ==
    \A x \in Individual :
        \/ /\ distances[x] = flightDurations[x]
           /\ \A i \in DOMAIN wave : ~AppendingAt(i, x)
        \/ \E i \in DOMAIN wave :
              AppendingAt(i, x) /\ distances[x] = Append(flightDurations[x], JobAt(i))

(* The inductive invariant. *)
IInv ==
    /\ TypeOK
    /\ WaveShape
    /\ AttemptsWithinBudget
    /\ OneAttemptPerIndividual
    /\ LedgerInv
    /\ PairedInv

USE WorkersAssumption, RetriesAssumption, UnusableAssumption, JobListsAssumption, BudgetsAssumption
USE DEF Outcome

-----------------------------------------------------------------------------
(* pending is a list of items, one domain for all its uses. *)
LEMMA PendingDomain ==
    ASSUME TypeOK
    PROVE  /\ DOMAIN pending = 1..Len(pending)
           /\ Len(pending) \in Nat
           /\ IsFiniteSet(DOMAIN pending)
           /\ IsFiniteSet(DOMAIN wave)
           /\ Cardinality(DOMAIN wave) \in Nat
           /\ DOMAIN wave \subseteq Nat
           /\ \A i \in DOMAIN pending : /\ pending[i] \in Item
                                        /\ JobAt(i) \in Job
                                        /\ IndividualAt(i) \in Individual
<1>1. DOMAIN pending = 1..Len(pending) /\ Len(pending) \in Nat
    BY DEF TypeOK
<1>2. IsFiniteSet(DOMAIN pending)
    BY <1>1, FS_Interval
<1>3. IsFiniteSet(DOMAIN wave) /\ Cardinality(DOMAIN wave) \in Nat
    BY <1>2, FS_Subset, FS_CardinalityType DEF TypeOK
<1>4. \A i \in DOMAIN pending : pending[i] \in Item
    BY <1>1 DEF TypeOK
<1>5. \A i \in DOMAIN pending : JobAt(i) \in Job
    BY <1>4 DEF Item, JobAt
<1>6. \A i \in DOMAIN pending : IndividualAt(i) \in Individual
    BY <1>4 DEF Item, Job, IndividualAt, TypeOK
<1> QED BY <1>1, <1>2, <1>3, <1>4, <1>5, <1>6 DEF TypeOK

(* The scheduler's lemmas apply. *)
LEMMA TypeImpliesScheduler ==
    ASSUME TypeOK
    PROVE  SchedulerOK
<1> DEFINE loose == [job : Nat, retry : 0..MaxFlakeRetries]
<1>1. Job \subseteq Nat
    BY DEF Job, TypeOK
<1>2. \A i \in 1..Len(pending) : pending[i] \in loose
    BY <1>1, PendingDomain DEF Item
<1>3. pending = [i \in 1..Len(pending) |-> pending[i]] /\ Len(pending) \in Nat
    BY ListElements DEF TypeOK
<1> HIDE DEF loose
<1>4. pending \in Seq(loose)
    BY <1>2, <1>3, ListOf
<1> QED BY <1>4 DEF TypeOK, SchedulerOK, loose

-----------------------------------------------------------------------------
(* The initial states satisfy the invariant. *)
LEMMA InitInv == Init => IInv
<1> SUFFICES ASSUME Init PROVE IInv
    OBVIOUS
<1>1. jobs \in Seq(Individual) /\ attemptBudget \in Nat
    BY DEF Init
<1>2. pending \in Seq(Item)
    BY <1>1 DEF Init, Item, Job
<1>3. wave = <<>> /\ DOMAIN wave = {} /\ wave \in [DOMAIN wave -> Outcome \union {"running", "appending"}]
    BY DEF Init
<1>4. Cardinality(DOMAIN wave) = 0 /\ Cardinality(Finished) = 0
    BY <1>3, FS_EmptySet DEF Finished
<1>5. TypeOK
    BY <1>1, <1>2, <1>3 DEF Init, TypeOK, Job
<1>6. AttemptsWithinBudget /\ OneAttemptPerIndividual /\ LedgerInv
    BY <1>1, <1>3, <1>4 DEF Init, AttemptsWithinBudget, OneAttemptPerIndividual, LedgerInv
<1>7. WaveShape /\ PairedInv
    BY <1>3 DEF Init, WaveShape, PairedInv
<1> QED BY <1>5, <1>6, <1>7 DEF IInv

(* Starting a wave. *)
LEMMA StartInv == IInv /\ Start => IInv'
<1> SUFFICES ASSUME IInv, Start PROVE IInv'
    OBVIOUS
<1> USE DEF IInv
<1>1. /\ Selected \subseteq DOMAIN pending
      /\ Cardinality(Selected) <= attemptBudget - attemptsUsed
      /\ \A i, k \in Selected : IndividualAt(i) = IndividualAt(k) => i = k
    BY SelectedFits, TypeImpliesScheduler DEF Start, StartWave, Looping
<1>2. /\ wave' = [i \in Selected |-> "running"]
      /\ DOMAIN wave' = Selected
      /\ bpc' = "wave"
      /\ UNCHANGED <<jobs, attemptBudget, pending, attemptsUsed>>
      /\ UNCHANGED workVars
    BY DEF Start, StartWave
<1>3. wave = <<>> /\ DOMAIN wave = {}
    BY DEF Start, StartWave, WaveShape
<1>4. Finished = {} /\ Finished' = {}
    BY <1>2, <1>3 DEF Finished
<1>5. TypeOK'
    BY <1>1, <1>2 DEF TypeOK, workVars, Job, Item
<1>6. AttemptsWithinBudget'
    <2>1. IsFiniteSet(Selected) /\ Cardinality(Selected) \in Nat
        BY <1>1, PendingDomain, FS_Subset, FS_CardinalityType
    <2> QED BY <1>1, <1>2, <2>1 DEF AttemptsWithinBudget, TypeOK
<1>7. OneAttemptPerIndividual'
    BY <1>1, <1>2 DEF OneAttemptPerIndividual, IndividualAt
<1>8. LedgerInv'
    BY <1>2, <1>4 DEF LedgerInv, workVars
<1>9. PairedInv'
    BY <1>2, <1>3 DEF PairedInv, AppendingAt, workVars
<1>10. WaveShape'
    BY <1>2 DEF WaveShape
<1> QED BY <1>5, <1>6, <1>7, <1>8, <1>9, <1>10

(* What every step of a worker leaves alone, and that it changes only its  *)
(* own entry of the wave.                                                  *)
LEMMA WorkerFrame ==
    ASSUME IInv, NEW i \in DOMAIN wave, Worker(i)
    PROVE  /\ bpc = "wave" /\ bpc' = bpc
           /\ UNCHANGED <<jobs, attemptBudget, pending, attemptsUsed, operation>>
           /\ DOMAIN wave' = DOMAIN wave
           /\ \A k \in DOMAIN wave : k # i => wave'[k] = wave[k]
           /\ wave[i] \in {"running", "appending"}
           /\ wave'[i] \in {"SKIPPED", "CONSUMED", "FLAKE", "appending"}
           /\ wave' \in [DOMAIN wave' -> Outcome \union {"running", "appending"}]
           /\ AttemptsWithinBudget' /\ OneAttemptPerIndividual' /\ WaveShape'
<1> USE DEF IInv
<1>1. PICK o \in {"SKIPPED", "CONSUMED", "FLAKE", "appending"} :
         /\ wave' = [wave EXCEPT ![i] = o]
         /\ bpc = "wave"
         /\ wave[i] \in {"running", "appending"}
         /\ UNCHANGED <<jobs, attemptBudget, pending, attemptsUsed, bpc, operation>>
    BY DEF Worker, Skip, Flake, Fail, AppendDistance, AppendDuration, Settle
<1>2. wave \in [DOMAIN wave -> Outcome \union {"running", "appending"}]
    BY DEF TypeOK
<1>3. /\ DOMAIN wave' = DOMAIN wave
      /\ \A k \in DOMAIN wave : k # i => wave'[k] = wave[k]
      /\ wave'[i] = o
    BY <1>1, <1>2
<1>4. wave' \in [DOMAIN wave' -> Outcome \union {"running", "appending"}]
    BY <1>1, <1>2
<1>5. AttemptsWithinBudget'
    BY <1>1, <1>3 DEF AttemptsWithinBudget
<1>6. OneAttemptPerIndividual'
    BY <1>1, <1>3 DEF OneAttemptPerIndividual, IndividualAt
<1>7. WaveShape'
    BY <1>1 DEF WaveShape
<1> QED BY <1>1, <1>3, <1>4, <1>5, <1>6, <1>7

(* A worker that finishes joins the finished ones, all others stay. *)
LEMMA WorkerLedger ==
    ASSUME IInv, NEW i \in DOMAIN wave, Worker(i)
    PROVE  LedgerInv'
<1> USE DEF IInv
<1>1. /\ DOMAIN wave' = DOMAIN wave
      /\ attemptsUsed' = attemptsUsed
      /\ \A k \in DOMAIN wave : k # i => wave'[k] = wave[k]
      /\ wave[i] \in {"running", "appending"}
    BY WorkerFrame
<1>2. IsFiniteSet(Finished) /\ Cardinality(Finished) \in Nat /\ i \notin Finished
    BY <1>1, PendingDomain, FS_Subset, FS_CardinalityType DEF Finished
<1>3. CASE wave'[i] \in {"FLAKE", "CONSUMED"} /\ simulated' = simulated + 1
    <2>1. Finished' = Finished \union {i}
        BY <1>1, <1>3 DEF Finished
    <2>2. Cardinality(Finished') = Cardinality(Finished) + 1
        BY <1>2, <2>1, FS_AddElement
    <2> QED BY <1>1, <1>2, <1>3, <2>2 DEF LedgerInv, TypeOK
<1>4. CASE wave'[i] \in {"SKIPPED", "appending"} /\ simulated' = simulated
    <2>1. Finished' = Finished
        BY <1>1, <1>4 DEF Finished
    <2> QED BY <1>1, <1>4, <2>1 DEF LedgerInv
<1>5. \/ wave'[i] \in {"FLAKE", "CONSUMED"} /\ simulated' = simulated + 1
      \/ wave'[i] \in {"SKIPPED", "appending"} /\ simulated' = simulated
    BY DEF Worker, Skip, Flake, Fail, AppendDistance, AppendDuration, Settle, TypeOK
<1> QED BY <1>3, <1>4, <1>5

(* A worker's step keeps the types. *)
LEMMA WorkerType ==
    ASSUME IInv, NEW i \in DOMAIN wave, Worker(i)
    PROVE  TypeOK'
<1> USE DEF IInv
<1>1. /\ bpc' = "wave"
      /\ UNCHANGED <<jobs, attemptBudget, pending, attemptsUsed, operation>>
      /\ DOMAIN wave' = DOMAIN wave
      /\ wave' \in [DOMAIN wave' -> Outcome \union {"running", "appending"}]
    BY WorkerFrame
<1>2. JobAt(i) \in Job /\ IndividualAt(i) \in Individual
    BY PendingDomain DEF TypeOK
<1>3. Job' = Job /\ Item' = Item
    BY <1>1 DEF Job, Item
<1>4. /\ distances' \in [Individual -> Seq(Job)]
      /\ flightDurations' \in [Individual -> Seq(Job)]
    <2>1. CASE Skip(i) \/ Flake(i) \/ Fail(i)
        BY <2>1 DEF Skip, Flake, Fail, TypeOK
    <2>2. CASE AppendDistance(i)
        BY <2>2, <1>2 DEF AppendDistance, TypeOK
    <2>3. CASE AppendDuration(i)
        BY <2>3, <1>2 DEF AppendDuration, TypeOK
    <2> QED BY <2>1, <2>2, <2>3 DEF Worker
<1>5. flaked' \in [Job -> Nat] /\ settled' \subseteq Job /\ simulated' \in Nat
    BY <1>2 DEF Worker, Skip, Flake, Fail, AppendDistance, AppendDuration, TypeOK
<1> QED BY <1>1, <1>3, <1>4, <1>5 DEF TypeOK

(* The pairing of the two lists survives every step of a worker: no other  *)
(* worker is on the same individual.                                       *)
LEMMA WorkerPaired ==
    ASSUME IInv, NEW i \in DOMAIN wave, Worker(i)
    PROVE  PairedInv'
<1> USE DEF IInv
<1>1. /\ UNCHANGED <<jobs, pending>>
      /\ DOMAIN wave' = DOMAIN wave
      /\ \A k \in DOMAIN wave : k # i => wave'[k] = wave[k]
    BY WorkerFrame
<1>2. /\ \A k \in DOMAIN wave : IndividualAt(k)' = IndividualAt(k) /\ JobAt(k)' = JobAt(k)
      /\ \A k \in DOMAIN wave : IndividualAt(k) = IndividualAt(i) => k = i
    BY <1>1 DEF IndividualAt, JobAt, OneAttemptPerIndividual
<1> DEFINE y == IndividualAt(i)
<1>3. y \in Individual /\ JobAt(i) \in Job
    BY PendingDomain DEF TypeOK
<1> SUFFICES ASSUME NEW x \in Individual
             PROVE  \/ /\ distances'[x] = flightDurations'[x]
                       /\ \A k \in DOMAIN wave : ~(wave'[k] = "appending" /\ IndividualAt(k) = x)
                    \/ \E k \in DOMAIN wave :
                          /\ wave'[k] = "appending" /\ IndividualAt(k) = x
                          /\ distances'[x] = Append(flightDurations'[x], JobAt(k))
    BY <1>1, <1>2 DEF PairedInv, AppendingAt
<1>4. \/ /\ distances[x] = flightDurations[x]
         /\ \A k \in DOMAIN wave : ~(wave[k] = "appending" /\ IndividualAt(k) = x)
      \/ \E k \in DOMAIN wave :
            /\ wave[k] = "appending" /\ IndividualAt(k) = x
            /\ distances[x] = Append(flightDurations[x], JobAt(k))
    BY DEF PairedInv, AppendingAt
<1>5. CASE x # y
    <2>1. distances'[x] = distances[x] /\ flightDurations'[x] = flightDurations[x]
        BY <1>5, <1>3 DEF Worker, Skip, Flake, Fail, AppendDistance, AppendDuration, TypeOK
    <2>2. \A k \in DOMAIN wave : IndividualAt(k) = x => wave'[k] = wave[k]
        BY <1>1, <1>5
    <2> QED BY <1>4, <2>1, <2>2
<1>6. CASE x = y /\ (Skip(i) \/ Flake(i) \/ Fail(i))
    <2>1. /\ distances' = distances /\ flightDurations' = flightDurations
          /\ wave[i] = "running" /\ wave'[i] # "appending"
        BY <1>6 DEF Skip, Flake, Fail, Settle, TypeOK
    <2> QED BY <1>2, <1>4, <1>6, <2>1
<1>7. CASE x = y /\ AppendDistance(i)
    <2>1. /\ wave[i] = "running" /\ wave'[i] = "appending"
          /\ flightDurations' = flightDurations
          /\ distances'[x] = Append(distances[x], JobAt(i))
        BY <1>7, <1>3 DEF AppendDistance, Settle, TypeOK
    <2>2. distances[x] = flightDurations[x]
        BY <1>2, <1>4, <1>7, <2>1
    <2> QED BY <1>7, <2>1, <2>2
<1>8. CASE x = y /\ AppendDuration(i)
    <2>1. /\ wave[i] = "appending" /\ wave'[i] = "CONSUMED"
          /\ distances' = distances
          /\ flightDurations'[x] = Append(flightDurations[x], JobAt(i))
        BY <1>8, <1>3 DEF AppendDuration, TypeOK
    <2>2. distances[x] = Append(flightDurations[x], JobAt(i))
        BY <1>2, <1>4, <1>8, <2>1
    <2>3. \A k \in DOMAIN wave : IndividualAt(k) = x => wave'[k] # "appending"
        BY <1>2, <1>8, <2>1
    <2> QED BY <2>1, <2>2, <2>3
<1> QED BY <1>5, <1>6, <1>7, <1>8 DEF Worker

(* The end of a wave. *)
LEMMA EndInv == IInv /\ End => IInv'
<1> SUFFICES ASSUME IInv, End PROVE IInv'
    OBVIOUS
<1> USE DEF IInv
<1>1. /\ \A k \in DOMAIN wave : wave[k] \in Outcome
      /\ attemptsUsed' = attemptsUsed + Cardinality({k \in DOMAIN wave : wave[k] # "SKIPPED"})
      /\ pending' = Retries \o Deferred
      /\ wave' = <<>> /\ DOMAIN wave' = {}
      /\ bpc' = "loop"
      /\ UNCHANGED <<jobs, attemptBudget>>
      /\ UNCHANGED workVars
    BY DEF End, EndWave
<1>2. Finished = {k \in DOMAIN wave : wave[k] # "SKIPPED"} /\ Finished' = {}
    BY <1>1 DEF Finished
<1>3. /\ Cardinality(Finished) \in Nat
      /\ Cardinality(Finished) <= Cardinality(DOMAIN wave)
      /\ Cardinality(DOMAIN wave) \in Nat
    BY <1>2, PendingDomain, FS_Subset, FS_CardinalityType
<1>4. Cardinality(Finished') = 0 /\ Cardinality(DOMAIN wave') = 0
    BY <1>1, <1>2, FS_EmptySet
<1>5. TypeOK'
    <2>1. pending' \in Seq(Item')
        <3>1. Retries \o Deferred \in Seq([job : Job, retry : 0..MaxFlakeRetries])
            BY PendingAfterWave DEF TypeOK, Item
        <3>2. Item' = [job : Job, retry : 0..MaxFlakeRetries]
            BY <1>1 DEF Item, Job
        <3> QED BY <1>1, <3>1, <3>2
    <2>2. attemptsUsed' \in Nat
        BY <1>1, <1>2, <1>3 DEF TypeOK
    <2>3. wave' \in [DOMAIN wave' -> Outcome \union {"running", "appending"}]
        BY <1>1
    <2>4. Job' = Job
        BY <1>1 DEF Job
    <2>5. DOMAIN wave' \subseteq DOMAIN pending'
        BY <1>1
    <2> HIDE DEF Outcome
    <2> QED BY <1>1, <2>1, <2>2, <2>3, <2>4, <2>5 DEF TypeOK, workVars
<1>6. AttemptsWithinBudget'
    BY <1>1, <1>2, <1>3, <1>4 DEF AttemptsWithinBudget, TypeOK
<1>7. LedgerInv'
    BY <1>1, <1>2, <1>3, <1>4 DEF LedgerInv, TypeOK, workVars
<1>8. PairedInv'
    BY <1>1 DEF PairedInv, AppendingAt, workVars
<1>9. OneAttemptPerIndividual' /\ WaveShape'
    BY <1>1 DEF OneAttemptPerIndividual, WaveShape
<1> QED BY <1>5, <1>6, <1>7, <1>8, <1>9

(* The call returns. *)
LEMMA ReturnInv == IInv /\ Return => IInv'
<1> SUFFICES ASSUME IInv, Return PROVE IInv'
    OBVIOUS
<1>1. /\ bpc = "loop" /\ bpc' = "idle"
      /\ UNCHANGED <<jobs, attemptBudget, pending, wave, attemptsUsed, workVars>>
    BY DEF Return, Returning
<1> QED BY <1>1 DEF IInv, TypeOK, Job, Item, WaveShape, AttemptsWithinBudget, OneAttemptPerIndividual,
                    IndividualAt, LedgerInv, Finished, PairedInv, AppendingAt, JobAt, workVars

-----------------------------------------------------------------------------
(* Every step of the call keeps the invariant. *)
LEMMA NextInv == IInv /\ [Next]_vars => IInv'
<1> SUFFICES ASSUME IInv, [Next]_vars PROVE IInv'
    OBVIOUS
<1>1. CASE Start
    BY <1>1, StartInv
<1>2. CASE \E i \in DOMAIN wave : Worker(i)
    <2>1. PICK i \in DOMAIN wave : Worker(i)
        BY <1>2
    <2> QED BY <2>1, WorkerFrame, WorkerLedger, WorkerType, WorkerPaired DEF IInv
<1>3. CASE End
    BY <1>3, EndInv
<1>4. CASE Return
    BY <1>4, ReturnInv
<1>5. CASE UNCHANGED vars
    BY <1>5 DEF vars, batchVars, workVars, IInv, TypeOK, Job, Item, WaveShape, AttemptsWithinBudget,
                OneAttemptPerIndividual, IndividualAt, LedgerInv, Finished, PairedInv, AppendingAt, JobAt
<1> QED BY <1>1, <1>2, <1>3, <1>4, <1>5 DEF Next

(* The invariant holds throughout a call. *)
THEOREM BatchInvariant == Spec => []IInv
BY InitInv, NextInv, PTL DEF Spec

(* The scheduler's state keeps its types, whatever the workers return. *)
THEOREM BatchTypes == Spec => []TypeOK
<1>1. IInv => TypeOK
    BY DEF IInv
<1> QED BY <1>1, BatchInvariant, PTL

(* No call of runRetryingBatch passes its attempt budget, counting the      *)
(* attempts in flight, for any number of workers.                          *)
THEOREM BatchBudget == Spec => []AttemptsWithinBudget
<1>1. IInv => AttemptsWithinBudget
    BY DEF IInv
<1> QED BY <1>1, BatchInvariant, PTL

(* No two attempts of a wave are on one individual, however often the job  *)
(* list names it.                                                          *)
THEOREM BatchExclusion == Spec => []OneAttemptPerIndividual
<1>1. IInv => OneAttemptPerIndividual
    BY DEF IInv
<1> QED BY <1>1, BatchInvariant, PTL

(* The distances and the flight durations of an individual stay paired     *)
(* under every interleaving of the workers' appends.                       *)
THEOREM BatchPairing == Spec => []MeasurementsPaired
<1>1. IInv => MeasurementsPaired
    BY DEF IInv, PairedInv, MeasurementsPaired, AppendingAt
<1> QED BY <1>1, BatchInvariant, PTL

(* The number runRetryingBatch returns is the number of simulations made.  *)
THEOREM BatchLedger == Spec => []LedgerExact
<1>1. IInv => LedgerExact
    <2> SUFFICES ASSUME IInv, bpc # "wave" PROVE attemptsUsed = simulated
        BY DEF LedgerExact
    <2>1. Finished = {}
        BY DEF IInv, WaveShape, Finished
    <2> QED BY <2>1, FS_EmptySet DEF IInv, LedgerInv, TypeOK
<1> QED BY <1>1, BatchInvariant, PTL
-----------------------------------------------------------------------------
(***************************************************************************)
(* What becomes of the jobs.                                               *)
(***************************************************************************)

(* A job is pending at most once. *)
PendingOnce == \A i, k \in DOMAIN pending : JobAt(i) = JobAt(k) => i = k

(* The retry count of a pending job is the number of its flakes, but for   *)
(* the flake the wave has just brought.                                    *)
Flaking(i) == i \in DOMAIN wave /\ wave[i] = "FLAKE"
FlakesCounted ==
    \A i \in DOMAIN pending :
        flaked[JobAt(i)] = IF Flaking(i) THEN pending[i].retry + 1 ELSE pending[i].retry

(* No job disappears without an answer or its last flake. *)
FlakedOut(j) == flaked[j] = MaxFlakeRetries + 1
NoJobLost == \A j \in Job : j \in settled \/ FlakedOut(j) \/ \E i \in DOMAIN pending : JobAt(i) = j
AnswersKept == \A i \in DOMAIN wave : wave[i] \in {"SKIPPED", "CONSUMED"} => JobAt(i) \in settled
FlakeLimit == \A j \in Job : flaked[j] <= MaxFlakeRetries + 1

(* Retries stand at the front, and each is the only or the first item of   *)
(* its individual: its other jobs waited while it flew.                    *)
RetriesInFront ==
    \A i, k \in DOMAIN pending : i < k /\ pending[k].retry > 0 => pending[i].retry > 0
RetriesAreFirst == \A i \in DOMAIN pending : pending[i].retry > 0 => FirstOfItsIndividual(i)
WaveIsFirst == \A i \in DOMAIN wave : FirstOfItsIndividual(i)

(* A call that has returned has nothing left to do, or nothing to do it with. *)
DoneInv == bpc = "idle" => pending = <<>> \/ attemptsUsed = attemptBudget

JobInv ==
    /\ PendingOnce /\ FlakesCounted /\ NoJobLost /\ AnswersKept /\ FlakeLimit
    /\ RetriesInFront /\ RetriesAreFirst /\ WaveIsFirst /\ RetriesGoFirst
    /\ DoneInv

(* At the start every job is pending, none has flaked. *)
LEMMA JobInit == Init => JobInv
<1> SUFFICES ASSUME Init PROVE JobInv
    OBVIOUS
<1>1. jobs \in Seq(Individual) /\ Len(jobs) \in Nat
    BY DEF Init
<1>2. /\ pending = [j \in 1..Len(jobs) |-> [job |-> j, retry |-> 0]]
      /\ DOMAIN pending = 1..Len(jobs)
      /\ \A i \in DOMAIN pending : JobAt(i) = i /\ pending[i].retry = 0
      /\ DOMAIN wave = {}
      /\ flaked = [j \in 1..Len(jobs) |-> 0]
      /\ bpc = "loop"
    BY <1>1 DEF Init, JobAt
<1>3. PendingOnce /\ FlakesCounted /\ NoJobLost /\ AnswersKept /\ FlakeLimit
    BY <1>2 DEF PendingOnce, FlakesCounted, Flaking, NoJobLost, AnswersKept, FlakeLimit, Job
<1>4. RetriesInFront /\ RetriesAreFirst /\ WaveIsFirst /\ RetriesGoFirst /\ DoneInv
    BY <1>2 DEF RetriesInFront, RetriesAreFirst, WaveIsFirst, RetriesGoFirst, DoneInv
<1> QED BY <1>3, <1>4 DEF JobInv

(* A wave takes the foremost items, retries before others. *)
LEMMA JobStart ==
    ASSUME IInv, JobInv, Start
    PROVE  JobInv'
<1>1. TypeOK /\ SchedulerOK /\ wave = <<>> /\ DOMAIN wave = {}
    BY TypeImpliesScheduler DEF IInv, WaveShape, Start, StartWave
<1>2. /\ DOMAIN wave' = Selected
      /\ \A i \in Selected : wave'[i] = "running"
      /\ bpc' = "wave"
      /\ attemptsUsed < attemptBudget
      /\ UNCHANGED <<jobs, attemptBudget, pending, attemptsUsed>>
      /\ UNCHANGED <<flaked, settled>>
    BY DEF Start, StartWave, Looping, workVars
<1>3. /\ \A k \in Selected : FirstOfItsIndividual(k)
      /\ \A k \in Selected : \A i \in DOMAIN pending :
            i < k /\ FirstOfItsIndividual(i) => i \in Selected
      /\ Selected \subseteq DOMAIN pending
    BY <1>1, <1>2, SelectedForemost, SelectedFits
<1>4. DOMAIN pending \subseteq Nat
    BY <1>1, PendingDomain
<1>5. Job' = Job /\ \A i \in DOMAIN pending : JobAt(i)' = JobAt(i)
    BY <1>2 DEF Job, JobAt
<1>6. PendingOnce' /\ FlakesCounted' /\ NoJobLost' /\ AnswersKept' /\ FlakeLimit'
    BY <1>1, <1>2, <1>3, <1>5
       DEF JobInv, PendingOnce, FlakesCounted, Flaking, NoJobLost, FlakedOut, AnswersKept, FlakeLimit
<1>7. WaveIsFirst' /\ RetriesInFront' /\ RetriesAreFirst' /\ DoneInv'
    BY <1>2, <1>3 DEF JobInv, WaveIsFirst, RetriesInFront, RetriesAreFirst, DoneInv,
                      FirstOfItsIndividual, IndividualAt
<1>8. RetriesGoFirst'
    <2> SUFFICES ASSUME NEW i \in DOMAIN pending \ Selected, NEW k \in Selected, pending[i].retry > 0
                 PROVE  pending[k].retry > 0
        BY <1>2 DEF RetriesGoFirst
    <2>1. FirstOfItsIndividual(i)
        BY DEF JobInv, RetriesAreFirst
    <2>2. k < i
        BY <2>1, <1>3, <1>4
    <2> QED BY <2>2, <1>3 DEF JobInv, RetriesInFront
<1> QED BY <1>6, <1>7, <1>8 DEF JobInv

(* A worker that returns answers its job or counts its flake. *)
LEMMA JobWorker ==
    ASSUME IInv, JobInv, NEW i \in DOMAIN wave, Worker(i)
    PROVE  JobInv'
<1>1. /\ bpc' = "wave"
      /\ UNCHANGED <<jobs, attemptBudget, pending, attemptsUsed>>
      /\ DOMAIN wave' = DOMAIN wave
      /\ \A k \in DOMAIN wave : k # i => wave'[k] = wave[k]
      /\ wave[i] \in {"running", "appending"}
    BY WorkerFrame
<1>2. TypeOK /\ i \in DOMAIN pending /\ JobAt(i) \in Job /\ pending[i] \in Item
    BY PendingDomain DEF IInv, TypeOK
<1>3. Job' = Job /\ \A k \in DOMAIN pending : JobAt(k)' = JobAt(k) /\ JobAt(k) \in Job
    BY <1>1, <1>2, PendingDomain DEF Job, JobAt
<1>4. flaked[JobAt(i)] = pending[i].retry /\ pending[i].retry \in 0..MaxFlakeRetries
    BY <1>1, <1>2 DEF JobInv, FlakesCounted, Flaking, Item
<1>5. \/ /\ wave'[i] = "FLAKE" /\ settled' = settled
         /\ flaked' = [flaked EXCEPT ![JobAt(i)] = @ + 1]
      \/ /\ wave'[i] \in {"SKIPPED", "CONSUMED"} /\ settled' = settled \union {JobAt(i)}
         /\ flaked' = flaked
      \/ wave'[i] = "appending" /\ settled' = settled /\ flaked' = flaked
    BY DEF Worker, Skip, Flake, Fail, AppendDistance, AppendDuration, Settle, IInv, TypeOK
<1>6. flaked \in [Job -> Nat]
    BY <1>2 DEF TypeOK
<1>7. \A k \in DOMAIN pending : k # i => JobAt(k) # JobAt(i)
    BY <1>2 DEF JobInv, PendingOnce
<1>8. PendingOnce' /\ RetriesInFront' /\ RetriesAreFirst' /\ WaveIsFirst' /\ RetriesGoFirst' /\ DoneInv'
    BY <1>1, <1>3 DEF JobInv, PendingOnce, RetriesInFront, RetriesAreFirst, WaveIsFirst, RetriesGoFirst,
                      DoneInv, FirstOfItsIndividual, IndividualAt
<1>9. FlakesCounted'
    <2> SUFFICES ASSUME NEW k \in DOMAIN pending
                 PROVE  flaked'[JobAt(k)] = IF k \in DOMAIN wave /\ wave'[k] = "FLAKE"
                                            THEN pending[k].retry + 1 ELSE pending[k].retry
        BY <1>1, <1>3 DEF FlakesCounted, Flaking
    <2>1. CASE k = i
        BY <2>1, <1>2, <1>4, <1>5, <1>6
    <2>2. CASE k # i
        <3>1. flaked'[JobAt(k)] = flaked[JobAt(k)]
            BY <2>2, <1>2, <1>3, <1>5, <1>6, <1>7
        <3> QED BY <2>2, <3>1, <1>1 DEF JobInv, FlakesCounted, Flaking
    <2> QED BY <2>1, <2>2
<1>10. FlakeLimit'
    BY <1>2, <1>3, <1>4, <1>5, <1>6 DEF JobInv, FlakeLimit
<1>11. AnswersKept'
    BY <1>1, <1>2, <1>3, <1>5 DEF JobInv, AnswersKept, IInv, TypeOK
<1>12. NoJobLost'
    <2> SUFFICES ASSUME NEW j \in Job
                 PROVE  j \in settled' \/ flaked'[j] = MaxFlakeRetries + 1 \/ \E k \in DOMAIN pending : JobAt(k) = j
        BY <1>1, <1>3 DEF NoJobLost, FlakedOut
    <2>1. CASE j = JobAt(i)
        BY <2>1, <1>2
    <2>2. CASE j # JobAt(i)
        BY <2>2, <1>2, <1>5, <1>6 DEF JobInv, NoJobLost, FlakedOut
    <2> QED BY <2>1, <2>2
<1> QED BY <1>8, <1>9, <1>10, <1>11, <1>12 DEF JobInv

(* After a wave: what the next pending list holds, and where it was.       *)
LEMMA EndMoves ==
    ASSUME IInv, End
    PROVE  /\ DOMAIN pending' \subseteq Nat
           /\ \E origin : /\ IsOrigin(origin, pending')
                          /\ \A n \in DOMAIN pending' :
                                /\ origin[n] \in DOMAIN pending
                                /\ JobAt(n)' = JobAt(origin[n])
                                /\ IndividualAt(n)' = IndividualAt(origin[n])
                                /\ pending'[n].retry = IF origin[n] \in Again
                                                       THEN pending[origin[n]].retry + 1
                                                       ELSE pending[origin[n]].retry
                          /\ \A m, n \in DOMAIN pending' : origin[m] = origin[n] => m = n
<1>1. TypeOK /\ SchedulerOK
    BY TypeImpliesScheduler DEF IInv
<1>2. pending' = Retries \o Deferred /\ jobs' = jobs
    BY DEF End, EndWave
<1>3. DOMAIN pending' \subseteq Nat /\ \E origin : IsOrigin(origin, pending')
    BY <1>1, <1>2, OriginOfPending
<1>4. PICK origin : IsOrigin(origin, pending')
    BY <1>3
<1>5. Again \subseteq DOMAIN pending /\ Rest \subseteq DOMAIN pending /\ Again \cap Rest = {}
      /\ DOMAIN pending \subseteq Nat
    BY <1>1, PendingDomain DEF Again, Rest, TypeOK
<1>6. ASSUME NEW n \in DOMAIN pending'
      PROVE  /\ origin[n] \in DOMAIN pending
             /\ JobAt(n)' = JobAt(origin[n])
             /\ IndividualAt(n)' = IndividualAt(origin[n])
             /\ pending'[n].retry = IF origin[n] \in Again
                                    THEN pending[origin[n]].retry + 1
                                    ELSE pending[origin[n]].retry
    <2>1. origin[n] \in DOMAIN pending
        BY <1>4, <1>5 DEF IsOrigin
    <2>2. pending[origin[n]] \in Item
        BY <2>1, <1>1, PendingDomain
    <2>3. /\ Raised(origin[n]).job = pending[origin[n]].job
          /\ Raised(origin[n]).retry = pending[origin[n]].retry + 1
        BY <2>2 DEF Raised, Item
    <2>4. pending'[n] = IF origin[n] \in Again THEN Raised(origin[n]) ELSE pending[origin[n]]
        BY <1>4 DEF IsOrigin
    <2>5. pending'[n].job = pending[origin[n]].job
        BY <2>3, <2>4
    <2> QED BY <1>2, <2>1, <2>3, <2>4, <2>5 DEF JobAt, IndividualAt
<1>7. ASSUME NEW m \in DOMAIN pending', NEW n \in DOMAIN pending', origin[m] = origin[n]
      PROVE  m = n
    <2>1. /\ m \in Nat /\ n \in Nat
          /\ origin[m] \in Nat /\ origin[n] \in Nat
        BY <1>3, <1>5, <1>6
    <2>2. ~(m < n)
        BY <2>1, <1>4, <1>5, <1>7 DEF IsOrigin
    <2>3. ~(n < m)
        BY <2>1, <1>4, <1>5, <1>7 DEF IsOrigin
    <2> QED BY <2>1, <2>2, <2>3
<1> QED BY <1>3, <1>4, <1>6, <1>7

(* The end of a wave drops the answered jobs and those that flaked out. *)
LEMMA JobEnd ==
    ASSUME IInv, JobInv, End
    PROVE  JobInv'
<1>1. /\ \A k \in DOMAIN wave : wave[k] \in Outcome
      /\ DOMAIN wave' = {}
      /\ bpc' = "loop"
      /\ Job' = Job
      /\ UNCHANGED <<flaked, settled>>
    BY DEF End, EndWave, workVars, Job
<1>2. TypeOK /\ DOMAIN wave \subseteq DOMAIN pending /\ DOMAIN pending \subseteq Nat
      /\ Again \subseteq DOMAIN wave /\ Again \cap Rest = {}
      /\ Again \subseteq DOMAIN pending /\ Rest \subseteq DOMAIN pending
    <2>1. TypeOK /\ DOMAIN wave \subseteq DOMAIN pending
        BY DEF IInv, TypeOK
    <2> QED BY <2>1, PendingDomain DEF Again, Rest
<1>3. /\ \A i \in DOMAIN pending : pending[i].retry \in 0..MaxFlakeRetries
      /\ DOMAIN pending' \subseteq Nat
    BY <1>2, PendingDomain, EndMoves DEF Item
<1>4. PICK origin :
         /\ IsOrigin(origin, pending')
         /\ \A n \in DOMAIN pending' :
               /\ origin[n] \in DOMAIN pending
               /\ JobAt(n)' = JobAt(origin[n])
               /\ IndividualAt(n)' = IndividualAt(origin[n])
               /\ pending'[n].retry = IF origin[n] \in Again
                                      THEN pending[origin[n]].retry + 1
                                      ELSE pending[origin[n]].retry
         /\ \A m, n \in DOMAIN pending' : origin[m] = origin[n] => m = n
    BY EndMoves
<1>5. /\ \A n \in DOMAIN pending' : origin[n] \in Again \union Rest
      /\ \A i \in Again \union Rest : \E n \in DOMAIN pending' : origin[n] = i
      /\ \A m, n \in DOMAIN pending' : m < n =>
            \/ origin[m] \in Again /\ origin[n] \in Rest
            \/ (origin[m] \in Again <=> origin[n] \in Again) /\ origin[m] < origin[n]
    BY <1>4 DEF IsOrigin
<1>6. PendingOnce'
    BY <1>4 DEF JobInv, PendingOnce
<1>7. FlakesCounted'
    <2> SUFFICES ASSUME NEW n \in DOMAIN pending'
                 PROVE  flaked[JobAt(origin[n])] = pending'[n].retry
        BY <1>1, <1>4 DEF FlakesCounted, Flaking
    <2>1. origin[n] \in Again => Flaking(origin[n])
        BY DEF Again, Flaking
    <2>2. origin[n] \in Rest => ~Flaking(origin[n])
        BY DEF Rest, Flaking
    <2> QED BY <2>1, <2>2, <1>2, <1>4, <1>5 DEF JobInv, FlakesCounted
<1>8. NoJobLost'
    <2> SUFFICES ASSUME NEW j \in Job, j \notin settled, ~FlakedOut(j)
                 PROVE  \E n \in DOMAIN pending' : JobAt(n)' = j
        BY <1>1 DEF NoJobLost, FlakedOut
    <2>1. PICK i \in DOMAIN pending : JobAt(i) = j
        BY DEF JobInv, NoJobLost
    <2>2. CASE i \in DOMAIN wave
        <3>1. wave[i] = "FLAKE"
            BY <2>1, <2>2, <1>1 DEF JobInv, AnswersKept
        <3>2. flaked[j] = pending[i].retry + 1
            BY <2>1, <2>2, <3>1 DEF JobInv, FlakesCounted, Flaking
        <3>3. pending[i].retry < MaxFlakeRetries
            BY <1>3, <3>2 DEF FlakedOut
        <3>4. i \in Again
            BY <2>2, <3>1, <3>3 DEF Again
        <3> QED BY <2>1, <3>4, <1>4, <1>5
    <2>3. CASE i \notin DOMAIN wave
        <3>1. i \in Rest
            BY <2>3 DEF Rest
        <3> QED BY <2>1, <3>1, <1>4, <1>5
    <2> QED BY <2>2, <2>3
<1>9. AnswersKept' /\ WaveIsFirst' /\ RetriesGoFirst' /\ DoneInv' /\ FlakeLimit'
    BY <1>1 DEF JobInv, AnswersKept, WaveIsFirst, RetriesGoFirst, DoneInv, FlakeLimit
<1>10. RetriesInFront'
    <2> SUFFICES ASSUME NEW m \in DOMAIN pending', NEW n \in DOMAIN pending',
                        m < n, pending'[n].retry > 0
                 PROVE  pending'[m].retry > 0
        BY DEF RetriesInFront
    <2>1. CASE origin[m] \in Again
        BY <2>1, <1>2, <1>3, <1>4
    <2>2. CASE origin[m] \notin Again
        <3>1. origin[n] \notin Again /\ origin[m] < origin[n]
            BY <2>2, <1>5
        <3> QED BY <2>2, <3>1, <1>4 DEF JobInv, RetriesInFront
    <2> QED BY <2>1, <2>2
<1>11. RetriesAreFirst'
    <2> SUFFICES ASSUME NEW n \in DOMAIN pending', pending'[n].retry > 0,
                        NEW m \in 1..(n - 1)
                 PROVE  IndividualAt(m)' # IndividualAt(n)'
        BY DEF RetriesAreFirst, FirstOfItsIndividual
    <2>1. n \in Nat /\ m \in Nat /\ m < n
        BY <1>3
    <2>2. m \in DOMAIN pending'
        <3>1. pending' \in Seq(Item') /\ DOMAIN pending' = 1..Len(pending') /\ Len(pending') \in Nat
            <4>1. TypeOK'
                BY EndInv DEF IInv
            <4> QED BY <4>1 DEF TypeOK
        <3> QED BY <3>1, <2>1
    <2> DEFINE p == origin[m]
               q == origin[n]
    <2>3. /\ p \in DOMAIN pending /\ q \in DOMAIN pending /\ p \in Nat /\ q \in Nat
          /\ p # q
        BY <2>1, <2>2, <1>2, <1>4
    <2>4. FirstOfItsIndividual(q) /\ (p \in Again => FirstOfItsIndividual(p))
        <3>1. q \in Again => FirstOfItsIndividual(q)
            BY <1>2 DEF JobInv, WaveIsFirst
        <3>2. q \notin Again => FirstOfItsIndividual(q)
            BY <2>3, <1>4 DEF JobInv, RetriesAreFirst
        <3>3. p \in Again => FirstOfItsIndividual(p)
            BY <1>2 DEF JobInv, WaveIsFirst
        <3> QED BY <3>1, <3>2, <3>3
    <2>5. CASE p < q
        <3>1. p \in 1..(q - 1)
            BY <2>3, <2>5, <1>2, PendingDomain
        <3> QED BY <2>4, <3>1, <2>2, <1>4 DEF FirstOfItsIndividual
    <2>6. CASE q < p
        <3>1. p \in Again
            BY <2>1, <2>2, <2>3, <2>6, <1>5
        <3>2. q \in 1..(p - 1)
            BY <2>3, <2>6, <1>2, PendingDomain
        <3> QED BY <2>4, <3>1, <3>2, <2>2, <1>4 DEF FirstOfItsIndividual
    <2> QED BY <2>3, <2>5, <2>6
<1> QED BY <1>6, <1>7, <1>8, <1>9, <1>10, <1>11 DEF JobInv

(* The loop is left only when nothing is pending or the budget is used up. *)
LEMMA ReturnsWhenDone ==
    ASSUME IInv, Return
    PROVE  pending = <<>> \/ attemptsUsed = attemptBudget
<1>1. SchedulerOK /\ TypeOK
    BY TypeImpliesScheduler DEF IInv
<1>2. ~Looping
    <2> SUFFICES ASSUME Looping PROVE FALSE
        OBVIOUS
    <2>1. Selected # {}
        BY <1>1, SelectedForemost DEF Looping
    <2> QED BY <2>1 DEF Return, Returning
<1>3. Cardinality(DOMAIN wave) \in Nat
    BY <1>1, PendingDomain
<1> QED BY <1>1, <1>2, <1>3 DEF Looping, IInv, AttemptsWithinBudget, TypeOK

LEMMA JobReturn ==
    ASSUME IInv, JobInv, Return
    PROVE  JobInv'
<1>1. /\ bpc' = "idle"
      /\ UNCHANGED <<jobs, attemptBudget, pending, wave, attemptsUsed, flaked, settled>>
    BY DEF Return, workVars
<1>2. DoneInv'
    BY <1>1, ReturnsWhenDone DEF DoneInv
<1> QED BY <1>1, <1>2 DEF JobInv, PendingOnce, FlakesCounted, Flaking, NoJobLost, FlakedOut, AnswersKept,
        FlakeLimit, RetriesInFront, RetriesAreFirst, WaveIsFirst, RetriesGoFirst, JobAt, Job,
        FirstOfItsIndividual, IndividualAt

(* Every step keeps the account of the jobs. *)
LEMMA JobNext == IInv /\ JobInv /\ [Next]_vars => JobInv'
<1> SUFFICES ASSUME IInv, JobInv, [Next]_vars PROVE JobInv'
    OBVIOUS
<1>1. CASE Start
    BY <1>1, JobStart
<1>2. CASE \E i \in DOMAIN wave : Worker(i)
    BY <1>2, JobWorker
<1>3. CASE End
    BY <1>3, JobEnd
<1>4. CASE Return
    BY <1>4, JobReturn
<1>5. CASE UNCHANGED vars
    BY <1>5 DEF vars, batchVars, workVars, JobInv, PendingOnce, FlakesCounted, Flaking, NoJobLost, FlakedOut,
        AnswersKept, FlakeLimit, RetriesInFront, RetriesAreFirst, WaveIsFirst, RetriesGoFirst, JobAt,
        Job, DoneInv, FirstOfItsIndividual, IndividualAt
<1> QED BY <1>1, <1>2, <1>3, <1>4, <1>5 DEF Next

THEOREM JobsAccountedFor == Spec => []JobInv
BY JobInit, JobNext, BatchInvariant, PTL DEF Spec

(* While a retry waits, no first attempt is in flight, for any number of   *)
(* workers and any mix of individuals in the job list.                     *)
THEOREM BatchRetriesFirst == Spec => []RetriesGoFirst
<1>1. JobInv => RetriesGoFirst
    BY DEF JobInv
<1> QED BY <1>1, JobsAccountedFor, PTL

(* A job is retried exactly maxFlakeRetries times: when the call returns,  *)
(* each was answered, or flaked once more than that, or the budget is gone. *)
THEOREM BatchRetriesExact == Spec => []RetriesExact
<1>1. IInv /\ JobInv => RetriesExact
    <2> SUFFICES ASSUME IInv, JobInv, NEW j \in Job
                 PROVE  /\ flaked[j] <= MaxFlakeRetries + 1
                        /\ bpc = "idle" => \/ j \in settled
                                           \/ flaked[j] = MaxFlakeRetries + 1
                                           \/ attemptsUsed = attemptBudget
        BY DEF RetriesExact
    <2>1. pending = <<>> => DOMAIN pending = {}
        OBVIOUS
    <2> QED BY <2>1 DEF JobInv, FlakeLimit, DoneInv, NoJobLost, FlakedOut
<1> QED BY <1>1, JobsAccountedFor, BatchInvariant, PTL
-----------------------------------------------------------------------------
(***************************************************************************)
(* The wave scheduler implements the abstract pool.                        *)
(***************************************************************************)

(* Between waves every pending job is open, none runs. *)
LEMMA PoolBetweenWaves ==
    ASSUME DOMAIN wave = {}
    PROVE  /\ OpenJobs = {JobAt(i) : i \in DOMAIN pending}
           /\ RunningJobs = {}
           /\ {i \in DOMAIN wave : wave[i] \in {"FLAKE", "CONSUMED"}} = {}
BY DEF OpenJobs, RunningJobs

(* A call starts as a pool with all jobs open. *)
LEMMA PoolInitially == Init => Pool!PoolInit
<1> SUFFICES ASSUME Init PROVE Pool!PoolInit
    OBVIOUS
<1>1. jobs \in Seq(Individual) /\ DOMAIN jobs = 1..Len(jobs)
    BY DEF Init
<1>2. /\ DOMAIN wave = {} /\ DOMAIN pending = 1..Len(jobs)
      /\ \A i \in DOMAIN pending : JobAt(i) = i
    BY <1>1 DEF Init, JobAt
<1>3. OpenJobs = DOMAIN jobs /\ RunningJobs = {}
    <2>1. OpenJobs = {JobAt(i) : i \in DOMAIN pending} /\ RunningJobs = {}
        BY <1>2, PoolBetweenWaves
    <2>2. {JobAt(i) : i \in DOMAIN pending} = DOMAIN pending
        BY <1>2
    <2> QED BY <2>1, <2>2, <1>1, <1>2
<1>4. Charged = 0
    BY <1>2, PoolBetweenWaves, FS_EmptySet DEF Charged, Init
<1>5. (bpc = "idle") = FALSE
    BY DEF Init
<1> QED BY <1>3, <1>4, <1>5 DEF Pool!PoolInit

(* A wave is a launch of its jobs. *)
LEMMA PoolStart ==
    ASSUME IInv, JobInv, Start
    PROVE  \E S \in SUBSET OpenJobs : Pool!Launch(S)
<1> DEFINE S == {JobAt(i) : i \in Selected}
<1>1. TypeOK /\ SchedulerOK /\ DOMAIN wave = {}
    BY TypeImpliesScheduler DEF IInv, WaveShape, Start, StartWave
<1>2. /\ DOMAIN wave' = Selected
      /\ \A i \in Selected : wave'[i] = "running"
      /\ bpc = "loop" /\ bpc' = "wave"
      /\ attemptsUsed < attemptBudget
      /\ Selected # {}
      /\ UNCHANGED <<jobs, attemptBudget, pending, attemptsUsed>>
    BY DEF Start, StartWave, Looping
<1>3. /\ Selected \subseteq DOMAIN pending
      /\ Cardinality(Selected) <= attemptBudget - attemptsUsed
      /\ \A i, k \in Selected : IndividualAt(i) = IndividualAt(k) => i = k
    BY <1>1, <1>2, SelectedFits
<1>4. OpenJobs = {JobAt(i) : i \in DOMAIN pending} /\ RunningJobs = {}
    BY <1>1, PoolBetweenWaves
<1>5. IsFiniteSet(S) /\ Cardinality(S) \in Nat /\ Cardinality(S) <= attemptBudget - attemptsUsed
    <2> DEFINE f == [i \in Selected |-> JobAt(i)]
    <2>1. IsFiniteSet(Selected) /\ Cardinality(Selected) \in Nat
        BY <1>1, <1>3, PendingDomain, FS_Subset, FS_CardinalityType
    <2>2. f \in Surjection(Selected, S)
        BY DEF Surjection
    <2>3. IsFiniteSet(S) /\ Cardinality(S) <= Cardinality(Selected)
        BY <2>1, <2>2, FS_Surjection
    <2>4. Cardinality(S) \in Nat
        BY <2>3, FS_CardinalityType
    <2>5. attemptBudget \in Nat /\ attemptsUsed \in Nat
        BY <1>1 DEF TypeOK
    <2> HIDE DEF S
    <2> QED BY <2>1, <2>3, <2>4, <2>5, <1>3
<1>6. S # {} /\ S \subseteq OpenJobs
    BY <1>2, <1>3, <1>4
<1>7. \A j \in S, k \in S \union RunningJobs : jobs[j] = jobs[k] => j = k
    BY <1>3, <1>4 DEF IndividualAt, JobAt
<1>8. OpenJobs' = OpenJobs \ S
    <2>1. OpenJobs' = {JobAt(i) : i \in DOMAIN pending \ Selected}
        BY <1>2 DEF OpenJobs, MayRetry, JobAt
    <2> QED BY <2>1, <1>3, <1>4 DEF JobInv, PendingOnce
<1>9. RunningJobs' = RunningJobs \union S
    BY <1>2, <1>4 DEF RunningJobs, JobAt
<1>10. Charged = attemptsUsed /\ Charged' = Charged
    <2>1. {i \in DOMAIN wave' : wave'[i] \in {"FLAKE", "CONSUMED"}} = {}
        BY <1>2
    <2>2. Charged = attemptsUsed + Cardinality({})
        BY <1>1, PoolBetweenWaves DEF Charged
    <2>3. Charged' = attemptsUsed + Cardinality({})
        BY <2>1, <1>2 DEF Charged
    <2>4. attemptsUsed + Cardinality({}) = attemptsUsed
        BY <1>1, FS_EmptySet DEF TypeOK
    <2> QED BY <2>2, <2>3, <2>4
<1>11. Charged + Cardinality(RunningJobs) + Cardinality(S) <= attemptBudget
    BY <1>4, <1>5, <1>10, FS_EmptySet, <1>1 DEF TypeOK
<1>12. (bpc = "idle") = FALSE /\ (bpc' = "idle") = FALSE
    BY <1>2
<1> HIDE DEF S
<1>13. Pool!Cardinality(S) = Cardinality(S) /\ Pool!Cardinality(RunningJobs) = Cardinality(RunningJobs)
    BY DEF Pool!Cardinality, Cardinality
<1>14. Pool!Launch(S)
    BY <1>2, <1>6, <1>7, <1>8, <1>9, <1>10, <1>11, <1>12, <1>13 DEF Pool!Launch
<1> QED BY <1>6, <1>14

(* A worker that returns finishes its job; the first append changes nothing. *)
LEMMA PoolWorker ==
    ASSUME IInv, JobInv, NEW i \in DOMAIN wave, Worker(i)
    PROVE  (\E j \in RunningJobs : Pool!Finish(j)) \/ UNCHANGED Pool!poolVars
<1> DEFINE finished == {k \in DOMAIN wave : wave[k] \in {"FLAKE", "CONSUMED"}}
           busy == {"running", "appending"}
<1>1. /\ bpc = "wave" /\ bpc' = bpc
      /\ UNCHANGED <<jobs, attemptBudget, pending, attemptsUsed>>
      /\ DOMAIN wave' = DOMAIN wave
      /\ \A k \in DOMAIN wave : k # i => wave'[k] = wave[k]
      /\ wave[i] \in busy
      /\ wave'[i] \in {"SKIPPED", "CONSUMED", "FLAKE", "appending"}
    BY WorkerFrame
<1>2. TypeOK /\ DOMAIN wave \subseteq DOMAIN pending /\ i \in DOMAIN pending
    BY DEF IInv, TypeOK
<1>3. \A k \in DOMAIN pending : JobAt(k)' = JobAt(k) /\ (JobAt(k) = JobAt(i) => k = i)
    BY <1>1, <1>2 DEF JobAt, JobInv, PendingOnce
<1>4. JobAt(i) \in RunningJobs
    BY <1>1 DEF RunningJobs
<1>5. (bpc = "idle") = FALSE /\ (bpc' = "idle") = FALSE
    BY <1>1
<1>6. \A k \in DOMAIN wave : k # i => MayRetry(k)' = MayRetry(k)
    BY <1>1 DEF MayRetry
<1>7. ~MayRetry(i)
    BY <1>1 DEF MayRetry
<1>8. OpenJobs' = IF MayRetry(i)' THEN OpenJobs \union {JobAt(i)} ELSE OpenJobs
    <2> DEFINE places == {k \in DOMAIN pending : k \in DOMAIN wave => MayRetry(k)}
               places1 == {k \in DOMAIN pending : k \in DOMAIN wave => MayRetry(k)'}
    <2>1. places1 = IF MayRetry(i)' THEN places \union {i} ELSE places
        BY <1>2, <1>6, <1>7
    <2>2. OpenJobs = {JobAt(k) : k \in places} /\ OpenJobs' = {JobAt(k) : k \in places1}
        BY <1>1, <1>3 DEF OpenJobs
    <2> HIDE DEF places, places1
    <2> QED BY <2>1, <2>2
<1>9. IsFiniteSet(finished) /\ Cardinality(finished) \in Nat /\ i \notin finished
    BY <1>1, <1>2, PendingDomain, FS_Subset, FS_CardinalityType
<1>10. CASE wave'[i] = "appending"
    <2>1. RunningJobs' = RunningJobs
        <3>1. {k \in DOMAIN wave' : wave'[k] \in busy} = {k \in DOMAIN wave : wave[k] \in busy}
            BY <1>1, <1>10
        <3>2. RunningJobs' = {JobAt(k)' : k \in {k \in DOMAIN wave' : wave'[k] \in busy}}
            BY DEF RunningJobs
        <3> QED BY <3>1, <3>2, <1>2, <1>3 DEF RunningJobs
    <2>2. OpenJobs' = OpenJobs
        BY <1>8, <1>10 DEF MayRetry
    <2>3. Charged' = Charged
        <3>1. {k \in DOMAIN wave' : wave'[k] \in {"FLAKE", "CONSUMED"}} = finished
            BY <1>1, <1>10
        <3> QED BY <3>1, <1>1 DEF Charged
    <2> QED BY <2>1, <2>2, <2>3, <1>1, <1>5 DEF Pool!poolVars
<1>11. CASE wave'[i] # "appending"
    <2>1. RunningJobs' = RunningJobs \ {JobAt(i)}
        <3>1. {k \in DOMAIN wave' : wave'[k] \in busy} = {k \in DOMAIN wave : wave[k] \in busy} \ {i}
            BY <1>1, <1>11
        <3>2. RunningJobs' = {JobAt(k)' : k \in {k \in DOMAIN wave' : wave'[k] \in busy}}
            BY DEF RunningJobs
        <3>3. RunningJobs' = {JobAt(k) : k \in {k \in DOMAIN wave : wave[k] \in busy} \ {i}}
            BY <3>1, <3>2, <1>2, <1>3
        <3> QED BY <3>3, <1>2, <1>3 DEF RunningJobs
    <2>2. OpenJobs' \in {OpenJobs, OpenJobs \union {JobAt(i)}}
        BY <1>8
    <2>3. Charged' \in {Charged, Charged + 1}
        <3> DEFINE after == {k \in DOMAIN wave' : wave'[k] \in {"FLAKE", "CONSUMED"}}
        <3>1. after = finished \/ after = finished \union {i}
            BY <1>1
        <3>2. Cardinality(after) = Cardinality(finished) \/ Cardinality(after) = Cardinality(finished) + 1
            BY <3>1, <1>9, FS_AddElement
        <3>3. Charged = attemptsUsed + Cardinality(finished) /\ Charged' = attemptsUsed + Cardinality(after)
            BY <1>1 DEF Charged
        <3> HIDE DEF after, finished
        <3> QED BY <3>2, <3>3, <1>2, <1>9 DEF TypeOK
    <2>4. Pool!Finish(JobAt(i))
        BY <2>1, <2>2, <2>3, <1>1, <1>4, <1>5 DEF Pool!Finish
    <2> QED BY <2>4, <1>4
<1> QED BY <1>10, <1>11

(* The end of a wave is invisible in the pool. *)
LEMMA PoolEnd ==
    ASSUME IInv, JobInv, End
    PROVE  UNCHANGED Pool!poolVars
<1>1. /\ bpc = "wave" /\ bpc' = "loop"
      /\ \A k \in DOMAIN wave : wave[k] \in Outcome
      /\ attemptsUsed' = attemptsUsed + Cardinality({k \in DOMAIN wave : wave[k] # "SKIPPED"})
      /\ DOMAIN wave' = {}
      /\ UNCHANGED <<jobs, attemptBudget>>
    BY DEF End, EndWave
<1>2. TypeOK /\ DOMAIN wave \subseteq DOMAIN pending
    BY DEF IInv, TypeOK
<1>3. PICK origin :
         /\ IsOrigin(origin, pending')
         /\ \A n \in DOMAIN pending' : JobAt(n)' = JobAt(origin[n])
    BY EndMoves
<1>4. OpenJobs' = OpenJobs
    <2>1. OpenJobs' = {JobAt(n)' : n \in DOMAIN pending'}
        BY <1>1 DEF OpenJobs
    <2>2. OpenJobs = {JobAt(k) : k \in Again \union Rest}
        <3>1. {k \in DOMAIN pending : k \in DOMAIN wave => MayRetry(k)} = Again \union Rest
            BY <1>2 DEF Again, Rest, MayRetry
        <3> QED BY <3>1 DEF OpenJobs
    <2>3. /\ \A n \in DOMAIN pending' : origin[n] \in Again \union Rest
          /\ \A i \in Again \union Rest : \E n \in DOMAIN pending' : origin[n] = i
        BY <1>3 DEF IsOrigin
    <2> QED BY <2>1, <2>2, <2>3, <1>3
<1>5. RunningJobs' = RunningJobs
    BY <1>1 DEF RunningJobs
<1>6. Charged' = Charged
    <2>1. {k \in DOMAIN wave : wave[k] # "SKIPPED"} = {k \in DOMAIN wave : wave[k] \in {"FLAKE", "CONSUMED"}}
        BY <1>1
    <2>2. {k \in DOMAIN wave' : wave'[k] \in {"FLAKE", "CONSUMED"}} = {}
        BY <1>1
    <2>3. Cardinality({k \in DOMAIN wave : wave[k] # "SKIPPED"}) \in Nat
        BY <1>2, PendingDomain, FS_Subset, FS_CardinalityType
    <2>4. Charged' = attemptsUsed' + Cardinality({})
        BY <2>2 DEF Charged
    <2>5. Charged = attemptsUsed'
        BY <2>1, <1>1 DEF Charged
    <2>6. attemptsUsed' \in Nat
        BY <2>3, <1>1, <1>2 DEF TypeOK
    <2> QED BY <2>4, <2>5, <2>6, FS_EmptySet
<1>7. (bpc = "idle") = FALSE /\ (bpc' = "idle") = FALSE
    BY <1>1
<1> QED BY <1>1, <1>4, <1>5, <1>6, <1>7 DEF Pool!poolVars

(* The call returns when the pool may be closed. *)
LEMMA PoolReturn ==
    ASSUME IInv, JobInv, Return
    PROVE  Pool!Close
<1>1. /\ bpc = "loop" /\ bpc' = "idle"
      /\ UNCHANGED <<jobs, attemptBudget, pending, wave, attemptsUsed>>
    BY DEF Return, Returning
<1>2. TypeOK /\ DOMAIN wave = {}
    BY <1>1 DEF IInv, WaveShape
<1>3. RunningJobs = {} /\ OpenJobs = {JobAt(i) : i \in DOMAIN pending} /\ Charged = attemptsUsed
    BY <1>2, PoolBetweenWaves, FS_EmptySet DEF Charged, TypeOK
<1>4. OpenJobs = {} \/ Charged = attemptBudget
    BY <1>3, ReturnsWhenDone
<1>5. /\ RunningJobs' = RunningJobs /\ OpenJobs' = OpenJobs /\ Charged' = Charged
    BY <1>1 DEF RunningJobs, OpenJobs, Charged, JobAt, MayRetry
<1>6. (bpc = "idle") = FALSE /\ (bpc' = "idle") = TRUE
    BY <1>1
<1> QED BY <1>1, <1>3, <1>4, <1>5, <1>6 DEF Pool!Close

(* Every step of the scheduler is a step of the pool or invisible in it. *)
LEMMA PoolStep == IInv /\ JobInv /\ [Next]_vars => [Pool!PoolNext]_(Pool!poolVars)
<1> SUFFICES ASSUME IInv, JobInv, [Next]_vars
             PROVE  Pool!PoolNext \/ UNCHANGED Pool!poolVars
    OBVIOUS
<1>1. CASE Start
    BY <1>1, PoolStart DEF Pool!PoolNext
<1>2. CASE \E i \in DOMAIN wave : Worker(i)
    BY <1>2, PoolWorker DEF Pool!PoolNext
<1>3. CASE End
    BY <1>3, PoolEnd
<1>4. CASE Return
    BY <1>4, PoolReturn DEF Pool!PoolNext
<1>5. CASE UNCHANGED vars
    BY <1>5 DEF vars, batchVars, workVars, Pool!poolVars, OpenJobs, RunningJobs, Charged, JobAt, MayRetry
<1> QED BY <1>1, <1>2, <1>3, <1>4, <1>5 DEF Next

(* runRetryingBatch keeps the promise of JobPool: whatever the workers     *)
(* return and in whatever order, a caller sees a pool of jobs that are     *)
(* launched within the budget, never two at a time on one individual, and  *)
(* closed when nothing is open or the budget is used up.                   *)
THEOREM BatchImplementsPool == Spec => ImplementsPool
<1>1. Init => Pool!PoolInit
    BY PoolInitially
<1>2. IInv /\ JobInv /\ [Next]_vars => [Pool!PoolNext]_(Pool!poolVars)
    BY PoolStep
<1> QED BY <1>1, <1>2, BatchInvariant, JobsAccountedFor, PTL DEF Spec, ImplementsPool, Pool!PoolSpec
=============================================================================
