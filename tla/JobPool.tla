------------------------------ MODULE JobPool ------------------------------
(***************************************************************************)
(* What runRetryingBatch promises its callers, with no waves, no order and *)
(* no retry counts: a pool of open jobs from which attempts are launched,  *)
(* never two at a time on one individual, never more than the budget       *)
(* allows; a job is closed by its answer, or after a flake may be open     *)
(* again; the call returns only when nothing is open or the budget is      *)
(* used up.                                                                *)
(***************************************************************************)
EXTENDS Naturals, FiniteSets, Sequences

VARIABLES
    poolJobs,    \* the individual of each job
    poolBudget,  \* the attempts the call may use
    open,        \* jobs an attempt may be launched for
    running,     \* jobs with an attempt in flight
    spent,       \* attempts finished and charged
    returned     \* the call is over

poolVars == <<poolJobs, poolBudget, open, running, spent, returned>>

PoolInit ==
    /\ open = DOMAIN poolJobs
    /\ running = {}
    /\ spent = 0
    /\ returned = FALSE

(* Several attempts start together, on different individuals. *)
Launch(S) ==
    /\ ~returned
    /\ S # {}
    /\ S \subseteq open
    /\ \A j \in S, k \in S \union running : poolJobs[j] = poolJobs[k] => j = k
    /\ spent + Cardinality(running) + Cardinality(S) <= poolBudget
    /\ open' = open \ S
    /\ running' = running \union S
    /\ UNCHANGED <<poolJobs, poolBudget, spent, returned>>

(* An attempt ends: it may be free, and it may leave its job open. *)
Finish(j) ==
    /\ j \in running
    /\ running' = running \ {j}
    /\ open' \in {open, open \union {j}}
    /\ spent' \in {spent, spent + 1}
    /\ UNCHANGED <<poolJobs, poolBudget, returned>>

Close ==
    /\ ~returned
    /\ running = {}
    /\ open = {} \/ spent = poolBudget
    /\ returned' = TRUE
    /\ UNCHANGED <<poolJobs, poolBudget, open, running, spent>>

PoolNext ==
    \/ \E S \in SUBSET open : Launch(S)
    \/ \E j \in running : Finish(j)
    \/ Close

PoolSpec == PoolInit /\ [][PoolNext]_poolVars
=============================================================================
