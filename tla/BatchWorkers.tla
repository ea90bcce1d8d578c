---------------------------- MODULE BatchWorkers ----------------------------
(***************************************************************************)
(* One call of runRetryingBatch with its workers at the grain of their     *)
(* appends: evaluate and rerun record a measurement as two appends, to     *)
(* ind.distances and then to ind.flightDurations, on an object the worker  *)
(* threads of a wave could share.  A measurement is represented by the job *)
(* that made it.                                                           *)
(***************************************************************************)
EXTENDS RetryingBatch

CONSTANTS
    Individual,     \* the candidate layouts
    Unusable,       \* the layouts invalidLayout rejects: evaluate skips them
    EvaluateLists,  \* the job lists a call with `evaluate` is tried with
    RerunLists,     \* the job lists a call with `rerun` is tried with
    AttemptBudgets  \* the budgets a call is tried with

ASSUME UnusableAssumption == Unusable \subseteq Individual
ASSUME JobListsAssumption == EvaluateLists \union RerunLists \subseteq Seq(Individual)
ASSUME BudgetsAssumption  == AttemptBudgets \subseteq Nat

VARIABLES
    operation,        \* the operation of the call: "evaluate" or "rerun"
    distances,        \* ind.distances: the jobs that appended a distance
    flightDurations,  \* ind.flightDurations: the jobs that appended a duration
    flaked,           \* history: how often each job came back as a flake
    settled,          \* history: the jobs that came back as something else
    simulated         \* history: simulator attempts finished in this call

workVars == <<operation, distances, flightDurations, flaked, settled, simulated>>
vars == <<batchVars, workVars>>

JobAt(i) == pending[i].job

Init ==
    /\ operation \in {"evaluate", "rerun"}
    /\ jobs \in (IF operation = "evaluate" THEN EvaluateLists ELSE RerunLists)
    /\ attemptBudget \in AttemptBudgets
    /\ pending = [j \in 1..Len(jobs) |-> [job |-> j, retry |-> 0]]
    /\ wave = <<>>
    /\ attemptsUsed = 0
    /\ bpc = "loop"
    /\ distances = [x \in Individual |-> <<>>]
    /\ flightDurations = [x \in Individual |-> <<>>]
    /\ flaked = [j \in 1..Len(jobs) |-> 0]
    /\ settled = {}
    /\ simulated = 0

Start == StartWave /\ UNCHANGED workVars

(* evaluate looks at the layout first, rerun does not. *)
SkipsAt(i) == operation = "evaluate" /\ IndividualAt(i) \in Unusable

(* evaluate's early return: no simulation, nothing recorded. *)
Skip(i) ==
    /\ Settle(i, "SKIPPED")
    /\ SkipsAt(i)
    /\ settled' = settled \union {JobAt(i)}
    /\ UNCHANGED <<operation, distances, flightDurations, flaked, simulated>>

(* isFlakeRun: the run says nothing about the layout and is not recorded. *)
Flake(i) ==
    /\ Settle(i, "FLAKE")
    /\ ~SkipsAt(i)
    /\ flaked' = [flaked EXCEPT ![JobAt(i)] = @ + 1]
    /\ simulated' = simulated + 1
    /\ UNCHANGED <<operation, distances, flightDurations, settled>>

(* evaluate's except branch: the attempt is spent, nothing is recorded. *)
Fail(i) ==
    /\ Settle(i, "CONSUMED")
    /\ operation = "evaluate" /\ ~SkipsAt(i)
    /\ settled' = settled \union {JobAt(i)}
    /\ simulated' = simulated + 1
    /\ UNCHANGED <<operation, distances, flightDurations, flaked>>

(* ind.distances.append(...): a good run, or the sentinel of a failed rerun. *)
AppendDistance(i) ==
    /\ Settle(i, "appending")
    /\ ~SkipsAt(i)
    /\ distances' = [distances EXCEPT ![IndividualAt(i)] = Append(@, JobAt(i))]
    /\ UNCHANGED <<operation, flightDurations, flaked, settled, simulated>>

(* ind.flightDurations.append(...), then the worker returns CONSUMED. *)
AppendDuration(i) ==
    /\ bpc = "wave"
    /\ i \in DOMAIN wave
    /\ wave[i] = "appending"
    /\ wave' = [wave EXCEPT ![i] = "CONSUMED"]
    /\ flightDurations' = [flightDurations EXCEPT ![IndividualAt(i)] = Append(@, JobAt(i))]
    /\ settled' = settled \union {JobAt(i)}
    /\ simulated' = simulated + 1
    /\ UNCHANGED <<jobs, attemptBudget, pending, attemptsUsed, bpc, operation, distances, flaked>>

Worker(i) ==
    \/ Skip(i)
    \/ Flake(i)
    \/ Fail(i)
    \/ AppendDistance(i)
    \/ AppendDuration(i)

End == EndWave /\ UNCHANGED workVars

Return ==
    /\ Returning
    /\ bpc' = "idle"
    /\ UNCHANGED <<jobs, attemptBudget, pending, wave, attemptsUsed, workVars>>

Next ==
    \/ Start
    \/ \E i \in DOMAIN wave : Worker(i)
    \/ End
    \/ Return

(***************************************************************************)
(* The scheduler's thread runs on, and every attempt ends.  For local runs *)
(* the watchdog sees to that; for worker containers this code has no bound *)
(* of its own and relies on the agent honouring DOCKER_TIMEOUT.            *)
(***************************************************************************)
Fairness == WF_vars(Next)

Spec == Init /\ [][Next]_vars /\ Fairness

-----------------------------------------------------------------------------
(***************************************************************************)
(* Properties.                                                             *)
(***************************************************************************)
Job == 1..Len(jobs)
Item == [job : Job, retry : 0..MaxFlakeRetries]

(* Types of the scheduler's and the workers' state. *)
TypeOK ==
    /\ jobs \in Seq(Individual)
    /\ attemptBudget \in Nat
    /\ pending \in Seq(Item)
    /\ wave \in [DOMAIN wave -> Outcome \union {"running", "appending"}]
    /\ DOMAIN wave \subseteq DOMAIN pending
    /\ attemptsUsed \in Nat
    /\ bpc \in {"idle", "loop", "wave"}
    /\ operation \in {"evaluate", "rerun"}
    /\ distances \in [Individual -> Seq(Job)]
    /\ flightDurations \in [Individual -> Seq(Job)]
    /\ flaked \in [Job -> Nat]
    /\ settled \subseteq Job
    /\ simulated \in Nat

(* The attempts charged and those in flight never pass attemptBudget: the  *)
(* capacity of a wave is what is left, however the earlier waves went.     *)
AttemptsWithinBudget == attemptsUsed + Cardinality(DOMAIN wave) <= attemptBudget

(* `batched`: two attempts on one individual never share a wave, although  *)
(* refinement lists the same individual once per rerun.                    *)
OneAttemptPerIndividual ==
    \A i, k \in DOMAIN wave : IndividualAt(i) = IndividualAt(k) => i = k

(* officialTestScore pairs distances with flightDurations by position and  *)
(* raises when they differ in length: whenever no worker is between its    *)
(* two appends, the two lists of an individual hold the same measurements  *)
(* in the same order.                                                      *)
MeasurementsPaired ==
    \A x \in Individual :
        \/ distances[x] = flightDurations[x]
        \/ \E i \in DOMAIN wave : IndividualAt(i) = x /\ wave[i] = "appending"

(* "Retry flakes before spending the remaining budget on new jobs": while  *)
(* a retry is left waiting, no first attempt is in flight.                 *)
RetriesGoFirst ==
    \A i \in DOMAIN pending \ DOMAIN wave : \A k \in DOMAIN wave :
        pending[i].retry > 0 => pending[k].retry > 0

(* A job is dropped at its (maxFlakeRetries + 1)-th flake, not later and   *)
(* not before: when the call returns, each job was answered, or flaked     *)
(* that often, or the budget is used up.                                   *)
RetriesExact ==
    \A j \in Job :
        /\ flaked[j] <= MaxFlakeRetries + 1
        /\ bpc = "idle" =>
              j \in settled \/ flaked[j] = MaxFlakeRetries + 1 \/ attemptsUsed = attemptBudget

(* Between waves the returned ledger is the number of simulations made:    *)
(* flakes and failures are charged, skipped layouts are not.               *)
LedgerExact == bpc # "wave" => attemptsUsed = simulated

(* The call returns: skipped jobs use no budget, yet cannot keep the loop  *)
(* going, and neither can flakes.                                          *)
Returns == <>(bpc = "idle")

(* Every behaviour of the wave scheduler is one of the abstract pool.      *)
MayRetry(i) == wave[i] = "FLAKE" /\ pending[i].retry < MaxFlakeRetries

OpenJobs == {JobAt(i) : i \in {k \in DOMAIN pending : k \in DOMAIN wave => MayRetry(k)}}

RunningJobs == {JobAt(i) : i \in {k \in DOMAIN wave : wave[k] \in {"running", "appending"}}}

Charged ==
    attemptsUsed + Cardinality({i \in DOMAIN wave : wave[i] \in {"FLAKE", "CONSUMED"}})

Pool == INSTANCE JobPool WITH
    poolJobs   <- jobs,
    poolBudget <- attemptBudget,
    open       <- OpenJobs,
    running    <- RunningJobs,
    spent      <- Charged,
    returned   <- (bpc = "idle")

(* runRetryingBatch keeps the promise of JobPool. *)
ImplementsPool == Pool!PoolSpec
=============================================================================
