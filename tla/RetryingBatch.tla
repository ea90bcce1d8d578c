--------------------------- MODULE RetryingBatch ---------------------------
(***************************************************************************)
(* The attempt scheduler of the generator: runRetryingBatch and the        *)
(* runParallelBatch it calls (snippets/geneticAlgorithm/generator.py).     *)
(*                                                                         *)
(* A call is given a list of jobs and a budget of simulator attempts.  It  *)
(* works in waves.  A wave takes pending jobs from the front, at most one  *)
(* per individual, at most as many as there are workers and attempts left; *)
(* the workers run at the same time and the wave ends when the last one    *)
(* has returned.  A flaked job goes back to the FRONT of the list until it *)
(* has been retried MaxFlakeRetries times.                                 *)
(*                                                                         *)
(* This module holds the scheduler's state and steps.  What an attempt     *)
(* does to its individual is supplied by the modules that extend it:       *)
(* BatchWorkers (the appends of concurrent workers, one at a time) and     *)
(* Campaign (evaluate and rerun inside the whole search).                  *)
(***************************************************************************)
EXTENDS Positions

CONSTANTS
    ParallelWorkers,  \* cfg.parallelWorkers
    MaxFlakeRetries   \* cfg.maxFlakeRetries

(* GA_WORKERS is clamped to at least 1; the retry limit is a plain int. *)
ASSUME WorkersAssumption == ParallelWorkers \in Nat \ {0}
ASSUME RetriesAssumption == MaxFlakeRetries \in Nat

(* AttemptOutcome: what one simulator attempt returns. *)
Outcome == {"SKIPPED", "CONSUMED", "FLAKE"}

VARIABLES
    jobs,           \* the call's job list: the individual of each job
    attemptBudget,  \* the call's attemptBudget
    pending,        \* list of [job, retry]: the job's index and retryCount
    wave,           \* the batch in flight: position in pending -> its outcome
    attemptsUsed,   \* attempts charged so far, the value the call returns
    bpc             \* "idle" (no call), "loop" (while test), "wave" (in flight)

batchVars == <<jobs, attemptBudget, pending, wave, attemptsUsed, bpc>>

IndividualAt(i) == jobs[pending[i].job]

(* `while pending and attemptsUsed < attemptBudget` *)
Looping == pending # <<>> /\ attemptsUsed < attemptBudget

(* Mutant: the attempts left are forgotten. *)
CapacityOfWorkersOnly == ParallelWorkers

(* How many attempts a wave may start. *)
Capacity == MinOf(ParallelWorkers, attemptBudget - attemptsUsed)

(* Mutant: `batched` is not consulted. *)
AnyItem(i) == TRUE

(* No earlier pending item is for the same individual (`batched`). *)
FirstOfItsIndividual(i) == \A j \in 1..(i - 1) : IndividualAt(j) # IndividualAt(i)

(* The items the scan over pending puts into the batch. *)
Selected ==
    LET first == {i \in DOMAIN pending : FirstOfItsIndividual(i)}
    IN  {i \in first : RankIn(first, i) <= Capacity}

(* The call: every job pending, none retried. *)
Call(js, budget) ==
    /\ jobs' = js
    /\ attemptBudget' = budget
    /\ pending' = [j \in 1..Len(js) |-> [job |-> j, retry |-> 0]]
    /\ wave' = <<>>
    /\ attemptsUsed' = 0
    /\ bpc' = "loop"

(* One pass of the loop up to the hand-over to the worker pool. *)
StartWave ==
    /\ bpc = "loop"
    /\ Looping
    /\ Selected # {}
    /\ wave' = [i \in Selected |-> "running"]
    /\ bpc' = "wave"
    /\ UNCHANGED <<jobs, attemptBudget, pending, attemptsUsed>>

(* A worker's operation returns its outcome. *)
Settle(i, outcome) ==
    /\ bpc = "wave"
    /\ i \in DOMAIN wave
    /\ wave[i] = "running"
    /\ wave' = [wave EXCEPT ![i] = outcome]
    /\ UNCHANGED <<jobs, attemptBudget, pending, attemptsUsed, bpc>>

(* Mutant: one retry too few. *)
RetriesOneLess ==
    LET again == {i \in DOMAIN wave : wave[i] = "FLAKE" /\ pending[i].retry + 1 < MaxFlakeRetries}
    IN  At([i \in DOMAIN pending |-> [pending[i] EXCEPT !.retry = @ + 1]], again)

(* The flaked items that may be tried again, with their count raised. *)
Retries ==
    LET again == {i \in DOMAIN wave : wave[i] = "FLAKE" /\ pending[i].retry < MaxFlakeRetries}
    IN  At([i \in DOMAIN pending |-> [pending[i] EXCEPT !.retry = @ + 1]], again)

(* Mutants: the batch is not taken out; the batch is taken to be a prefix. *)
DeferredEverything == pending
DeferredAfterPrefix == At(pending, {i \in DOMAIN pending : i > Cardinality(DOMAIN wave)})

(* The items left for later waves. *)
Deferred == At(pending, DOMAIN pending \ DOMAIN wave)

(* Mutants: retries go behind the rest; skipped layouts are charged. *)
EndWaveRetriesLast ==
    /\ bpc = "wave"
    /\ \A i \in DOMAIN wave : wave[i] \in Outcome
    /\ attemptsUsed' = attemptsUsed + Cardinality({i \in DOMAIN wave : wave[i] # "SKIPPED"})
    /\ pending' = Deferred \o Retries
    /\ wave' = <<>>
    /\ bpc' = "loop"
    /\ UNCHANGED <<jobs, attemptBudget>>
EndWaveChargesSkipped ==
    /\ bpc = "wave"
    /\ \A i \in DOMAIN wave : wave[i] \in Outcome
    /\ attemptsUsed' = attemptsUsed + Cardinality(DOMAIN wave)
    /\ pending' = Retries \o Deferred
    /\ wave' = <<>>
    /\ bpc' = "loop"
    /\ UNCHANGED <<jobs, attemptBudget>>

(* Every future is done: charge the attempts, retries before the rest. *)
EndWave ==
    /\ bpc = "wave"
    /\ \A i \in DOMAIN wave : wave[i] \in Outcome
    /\ attemptsUsed' = attemptsUsed + Cardinality({i \in DOMAIN wave : wave[i] # "SKIPPED"})
    /\ pending' = Retries \o Deferred
    /\ wave' = <<>>
    /\ bpc' = "loop"
    /\ UNCHANGED <<jobs, attemptBudget>>

(* Mutant: only an empty list ends the loop. *)
ReturningWhenDrained == bpc = "loop" /\ pending = <<>>

(* The loop is over, or its `if not batch: break` leaves it. *)
Returning ==
    /\ bpc = "loop"
    /\ Looping => Selected = {}
=============================================================================
