# TLA+ verification of the UAV test generator

This directory models the genetic test generator of the repository
(`snippets/geneticAlgorithm/` and what it calls), checks the models with TLC and
proves the most important of their properties with TLAPS. Everything is
translated from the source; `PROJECT.json` maps every definition to its lines.

## 1. The system

`cli.py` patches the Aerialist library, builds a `GeneticGenerator` for one mission
and calls `generate(budget)`: at most `budget` simulator runs, a list of test cases
in return. A simulation takes minutes, fails, hangs and gives different results for
the same layout, so most of the code is about spending the budget well.

| Component | State | Operations | Interacts with |
|---|---|---|---|
| Attempt scheduler (`runRetryingBatch`, `runParallelBatch`) | pending jobs with retry counts, attempts used, the wave in flight | select a wave, run it on a thread pool, retry flakes, charge | called by the search three times over; runs `evaluate`/`rerun` on shared `Individual` objects |
| Attempts (`evaluate`, `rerun`, `armWatchdog`, `cleanupSimState`) | the fields of one `Individual`; a timer | simulate, measure, classify as flake, record or fail | worker threads, timer thread, simulator processes |
| Search loop (`generate`, `runDiscovery`, `nextGeneration`) | population, evaluated list, budgets, no-progress count, slowest good run | breed, evaluate, confirm elites, reseed, refine, select | scheduler, scoring, suite |
| Scoring | none | tiers, shaping, official and search score, sort keys | search, suite |
| Suite (`suite.py`) | none | filter, rank, drop look-alike flights | search |
| Genes (`genes.py`, breeding in `generator.py`) | the genomes of a population | seed, crossover inside a frame, mutate and clamp one gene | search; legality |
| Motifs, geometry, mission | none | read a plan, find the segments, decode walls and gates, test legality | genes (a layout or "illegal") |
| Test execution (`testcase.py`, `parallel_docker_agent.py`) | a disposable worker container per attempt, a plot lock, plot files | create, set up, run, remove; plot | Docker daemon, worker threads, Aerialist |
| Aerialist patches (`patchAerialist.py`) | three files of the installed library | guarded text replacement in place | image build, `run.sh`, every `cli.py` |
| Command line (`cli.py`) | the imported modules, the suite's folder | import, patch, generate, copy the suite | patches, search, disk |
| Launch helpers (`run.sh`, `kill_simulations.sh`) | none | kill stale processes and containers, patch, start | host or coordinator's processes, Docker daemon |
| Random generator | none | draw a layout and run it | test execution |

What is hard here, and the properties that answer it (the list with line numbers is
under `hazards` in `PROJECT.json`):

* worker threads of one wave write to `Individual` objects, and refinement lists the
  same individual several times: measurements must stay paired (`MeasurementsPaired`);
* one budget is spent through nested ledgers: waves in a batch, batches in a
  discovery call, two discovery calls, elite confirmation and refinement in a
  campaign, with flakes that cost and skipped layouts that do not
  (`AttemptsWithinBudget`, `BudgetKept`, `LedgerExact`, `BudgetUsedUp`);
* retries: a flaked job must be tried again first, not twice, not for ever
  (`RetriesGoFirst`, `RetriesExact`, `ImplementsPool`, `Returns`);
* long sequences of generations: niches must not die out, the best layout must
  survive, no measurement may be lost (`NicheQuota`, `BestSurvives`,
  `MeasuredAreEvaluated`);
* layouts that never run, niches without a legal layout: the search must move on
  and end (`EffortBounded`, `BudgetUsedUp`, `Terminates`);
* cached scores and a watchdog limit computed from earlier runs
  (`ScoresFresh`, `GoodPaceSurvives`);
* a timer thread that kills processes and deletes files while the main thread may be
  doing the same, or may have gone on to the next attempt (`StartsClean`,
  `CutIsNoFailure`, `HungAttemptsEnd`, `KillsOnlyOverdue`);
* what is finally submitted (`SuiteSound`), and how look-alike flights, the frame quota
  and the relaxed threshold decide it (`FlightsDistinct`, `LeftOutForAReason`,
  `RelaxedAsNeeded`, `BestSubmitted`);
* a worker container outlives its thread, its coordinator and its campaign: who removes
  it when a docker call fails, when the campaign dies, and what a kill script that races
  with them reaches (`NothingLeftBehind`, `NoFlightBehindScript`, `AttemptsEnd`);
* library files that several starting processes patch in place and that are truncated
  first: patched twice, left torn, or read too early (`PatchedOnce`, `TornOnlyByCrash`,
  `FinishedMeansPatched`);
* threads that share one plotting state, campaigns that share a folder named after the
  second, copies that fail half-way (`FilesShowTheirTest`, which joins
  `PlotsShowTheirFlight` and `FolderHoldsTheSuite`; `CampaignsEnd`);
* geometry at its edges: touching, collinear and degenerate segments, boxes that meet in
  a corner (`GeometryAgrees`: `SegmentsMeet`, `OverlapsUnlessParted`, `GapsMeasured`), a yaw
  stored with swapped sizes, a bisection that must stop on the right side
  (`DecodedAsTheGenesSay`: `WallCutsItsLeg`, `GateAsWideAsItsGene`);
* plans with skipped items, repeated positions and short hops, and two passes of legality
  (`SeededWhereItFlies`: `SeedsOnFlownLegs`, `FlyingMissionsAreSeeded`; `AcceptedIsLegal`:
  `LegalInsideArea`, `StrictCutsOwnLegOnly`);
* genes bred over a long line of parents (`BredByTheRules`: `BredInsideFrame`,
  `BredCutNothing`, `IllegalIsUnplaceable`);
* a search score that must break the official score's ties and never overrule it
  (`ScoresInOrder`: `TiersComeFirst`, `CloserScoresHigher`, `StuckYields`).

## 2. Modules

* **Positions**: selections from a list as sets of positions. Python code that walks
  a list and keeps what passes a test becomes `At(list, positions)`.
* **RetryingBatch**: state and steps of one `runRetryingBatch` call, without what an
  attempt does. `Call` is the entry, `StartWave` one pass of the loop up to the
  thread pool, `Settle` a worker's return, `EndWave` the collection of the outcomes
  (`attemptsUsed`, `retries + deferred`), `Returning` the exits of the loop.
  `wave` maps the positions of `pending` that are in flight to their outcome.
* **BatchWorkers** (extends RetryingBatch): one call with its workers at the grain of
  single appends. `AppendDistance` and `AppendDuration` are the two `append` lines of
  a measurement, and steps of other workers may come between them. A measurement is
  the number of the job that made it, so a duplicate can be seen.
* **JobPool**: the abstract contract of `runRetryingBatch`: a pool of open jobs, no
  waves, no order, no retry counts. `BatchWorkers` implements it under
  `OpenJobs`, `RunningJobs`, `Charged`; the run checks `Pool!PoolSpec`.
* **Scoring**: tiers, shaping and both scores as exact fractions. Scores are only
  compared, so common factors are dropped; the exponential beyond the last tier is
  replaced by halvings every 0.69 m, which keeps its order up to that step.
* **Campaign** (extends RetryingBatch, Scoring): `generate`. Individuals are objects, so
  `heap` holds their fields and the other variables hold references. Actions:
  `Breed` (`nextGeneration`), `Launch` (candidates, watchdog limit, first batch of the
  round), `StartBatchWave`/`EndBatchWave` (scheduler), `Evaluate` and `Rerun` (one attempt
  with everything it writes), `ElitesConfirmed` (charge, rescore, evaluate the rest),
  `RoundDone` (accounting, evaluated list, threshold, reseeding, no-progress count),
  `StartRefinement`, `RefinementDone` (rescore, return the unspent budget),
  `ReturnedBudgetDone`, `Select`. The simulator answers with any flight of a small set,
  or a crash, after any wall-clock time of a small set.
* **Watchdog**: successive local attempts as the threads see them. `mpc` is the place of
  the main thread in `evaluate` (or `rerun`, which has the same frame), `timer` and `killed`
  belong to `armWatchdog`, `cleanup` is the place of each thread in `cleanupSimState`: the
  SIGTERM pass (`Terminate`, some processes exit), the SIGKILL pass (`Kill`), the files
  (`RemoveStale`). A timer is due once the simulator has started; `Fire` begins its callback;
  `Finally` cancels it, which has no effect on a callback that has begun. `RunReturns` is the return of `agent.run`: the
  simulator ended, failed, or was killed while it hung.
* **Suite** (extends Positions): one call of `selectSuite` with the threshold of
  `calibrateThreshold`. `Rank` is everything before the loop, `Take` and `PassOver` one
  candidate of `greedyFill`, `Relax` and `Return` the end of a pass.
* **Workers**: the threads of a pool, each with the place it has reached in
  `TestCase.execute` and `ParallelDockerAgent` and the container id it holds; the daemon's
  containers; the campaign; `kill_simulations.sh`. `DockerRun` asks for a container,
  `Created` is its return, `CopyCookie`, `Prepare`, `Exec`, `Executed`, `FindLog`,
  `ProcessOutput` the attempt, `Remove` its `finally`. `StartScript`, `ScriptTerm`,
  `ScriptKill` (with `DockerPs`) and `ScriptStop` are the script's passes; `place` says where it
  runs and as whom: in the coordinator, on the host by root, or on the host by a user who
  may talk to Docker but may not signal root's processes, which those of every container
  are. `lost` records the live containers whose owner failed to keep or remove them, `seen`
  those that were up when root's script ran `docker ps`.
* **Startup**: processes that run the patches (`Patcher`) and campaigns that import the
  library and then patch it (`Cli`). `Import`, `Read` (text and guards), `Open` (truncates),
  `OpenRefused`, `Write`; `Crash` anywhere.
* **Geometry**: `geometry.py` in exact integers.
* **FunctionChecks** (extends Geometry, Scoring): puts down segments and boxes on a grid and
  compares the operators of `Geometry` with definitions that compute the same by other
  means; measures two layouts side by side and compares the order of their search scores
  with that of their official scores and distances.
* **Layouts** (extends Geometry): `ReadPosition` and `SkipItem` are one item of a plan in
  `parseWaypoints`, `EndOfPlan` the end with its error, `Draw` one draw of
  `freshIndividual` with `decode` and `layoutProblem`, strict or not.
* **Breeding**: `nextGeneration` child by child over genes: `CarryElite`, `AddImmigrant`,
  `AddChild` (tournament, crossover, mutation, the fall-backs), `NextGeneration`.
* **Artifacts**: `Acquire`, `DrawFlight`, `SavePlot`, `PlotFails` are a thread in
  `TestCase.plot`; `MakeFolder`, `WriteFile`, `WriteFails`, `Report` are
  `cli.py` after `generate`.
* **MCBatchWorkers**, **MCCampaign**, **MCWatchdog**, **MCSuite**, **MCWorkers**,
  **MCStartup**, **MCLayouts**, **MCBreeding**, **MCArtifacts**: the instances.
* **RetryingBatchProofs** (with the facts about `Positions`), **BatchWorkersProofs**,
  **CampaignProofs**, **SuiteProofs**, **AttemptsProofs** (`Watchdog` and `Workers`, the two
  ways an attempt is made), **FilesProofs** (`Startup` and `Artifacts`), **OperatorProofs**
  (the pure functions of `Scoring` and `Geometry`), **GenesProofs** (`Layouts`, `Breeding`,
  `FunctionChecks`): lemmas and theorems. Where one of them extends two state machines, the
  second names its specification apart (`WatchdogSpec`, `BreedNext`, `CheckInit`, ...).

`Campaign` composes the scheduler, scoring and a loose suite; `Suite`, `Watchdog`,
`Workers`, `Breeding` and `Layouts` each open up one thing `Campaign` treats as a single
step: the selection, a local attempt, an isolated attempt, a child, a legal layout.

Definitions commented "Mutant" are plausible bugs of the definition that follows them.
They are used in no specification; each one replaces its original to show that a
property can fail.

### Abstractions

* In `Campaign` a layout is its niche (1 wall, 2 gate) and whether it is legal. `Legal` says which
  niches have legal and illegal draws; a child of legal parents may always be legal.
  Immigrants are fresh seeds, so `immigrantShare` needs no case of its own. Which
  parents `tournament` draws makes no difference at this level.
* A run is its minimum distance, flight time and whether it reached the goal.
* A stored score is the number of runs it was computed from and the stuck flag it was
  computed with, so a stale score is visible.
* In `Campaign` the watchdog is a deadline on the wall-clock time of a local attempt. The
  time between the simulator's end and `timer.cancel()` is taken as zero, and a callback
  that outlives its attempt shows only as a crash of the next one. `Watchdog` has the
  steps in between, and no clock: a timer may fire any time after the simulator has
  started (starting it takes far less than `minTimeout`, 300 s), and never in an attempt whose
  simulator does not start. The steps of a thread may be as far apart as the scheduler
  likes, so a callback may be overtaken by main's cleanup, which sleeps as long as its own.
* In `Watchdog` PX4 exits at once when it finds its files, a process killed with SIGKILL
  is dead when the pass is over, and `agent.run` returns when no process holds its pipe;
  that is what the comments of `cleanupSimState` and `armWatchdog` say of them.
* In `Campaign` `selectSuite` filters exactly and submits something if it can; which tests
  are too similar is left open, so every suite of the code is one of `Suites`.
* In `Suite` a flight is one number, its offset from the mission, as in `test_suite.py`:
  the mean distance of two resampled flights is then the difference of two numbers, and
  the mean trajectory their average. Flights that cross are left out by this.
* In `Geometry` a point has integer coordinates, 50 to the metre, and a direction comes from
  a 3-4-5 triangle, so every comparison of the code is exact; tolerances of `1e-9` vanish.
  The gate's blocker stands at 36.9 degrees instead of 30, the crossing angles are 36.9 and
  53.1 degrees, and the blocker's offset is searched for in tenths of a metre (nine halvings
  of 30 m) instead of to `1e-3`. Plans whose legs are not on this grid are left out.
* In `Breeding` a gene is a small integer, a mutation step may reach any value of its range,
  and fitness is left open: any member may win a tournament or be the elite. A draw that can
  fail can fail as often as it is repeated, so retries are not counted. Which genomes cannot
  be placed and which cut another segment are parameters; `Layouts` says what they mean.
* In `Startup` a file is what the patches can tell about it: missing, without the anchor,
  old, patched, patched twice, or torn.
* In `Workers` a docker call may fail: `docker run`, `cp`, `exec`, `rm` (in the `finally`
  clause and on the way out of `create_container`), `ps` and `stop`. A container may die at any
  time; a simulation ends, fails or hangs. Which containers the script's `grep` keeps is left
  open: with the shipped image, `docker-uav-testing`, only those whose random name happens to
  match (`ros` is in some), with another `DOCKER_IMG` perhaps all. A `kill` fails where the
  kernel refuses it, for a user on the host; elsewhere it ends `python3 cli.py` at once. Any of
  a simulation's processes may survive the signals it is sent. There is one campaign at a
  time, started after the script as `run.sh --sim` does; a user's script may leave it running.
* In `Artifacts` a drawing is the test it shows and a plot's name is its identifier or the
  second, which is what decides whether two names collide.
* `wgs84ToLocal` and the JSON syntax of a plan are left out: positions are in metres.
* An exception of `runParallelBatch` itself (not of an attempt) ends the program and is
  not modelled. `budget <= 0` returns before any state exists.

## 3. Runs

All runs use `CHECK_DEADLOCK FALSE`: a call, a campaign or a start-up ends, and nothing
happens after that.

| Run | Instance | Shows |
|---|---|---|
| `batch` | 2 workers, 1 retry, 4 individuals one of them unusable, 7 job lists, budgets 0 to 9 (3 872 states) | one call under every interleaving of appends; refinement of JobPool; the call returns |
| `campaign` | budget 7, 3 slots (2 walls, 1 gate), 2 isolated workers, 1 retry, 30 % refinement, 4 kinds of flight and crashes (492 k states) | budget, niches, retiring, suite, elitism |
| `local` | budget 4, 2 wall slots, 1 local worker, 1 retry, elite confirmation, watchdog with two wall-clock times, every draw may be illegal (73 k states) | exact ledger, fresh scores, watchdog, termination, unspent budget only after giving up |
| `watchdog` | 2 attempts, PX4 and one more process, any leftovers at the start (21 k states) | clean starts, cut runs, hanging simulators |
| `suite` | lists of up to 4 of 7 individuals (a duplicate, identical flights, a gate, a stuck one), 5 configurations, thresholds 30 and less (122 k states) | the suite under relaxation, quota and kept gate |
| `workers` | 2 threads, 3 containers, 2 campaigns, display cookie on (401 k states) | no container is left without an owner or a recorded failure; no simulation behind the back of root's script; attempts end |
| `startup` | a patcher and 2 campaigns, every start content of the 3 files, crashes (625 k states) | patched once, torn by a crash only, finished means patched |
| `layouts` | plans of up to 3 items over 4 positions, both motifs, end values of the genes, 2 draws a pass (13 k states, each with a decoded layout) | seeds, decoding and legality |
| `breeding` | 3 walls and a gate on 2 segments, 1 elite, 1 immigrant (701 k states) | ranges, frames, legality of children |
| `artifacts` | 2 campaigns with 3 and 1 flights, suites of up to 2, a clock of 2 seconds (67 k states) | plots and saved files show their own test; nobody waits for ever |
| `functions` | all pairs of segments on a 4 by 4 grid, all pairs of boxes up to 4 m apart in 4 directions; 3 runs of two layouts, distances at and around every tier bound (357 k states) | geometry agrees with its definitions, the search score with the official order |
| `kill_claim` | as `watchdog` | a watchdog callback that is held up kills the next attempt's simulator (below) |

Why the bounds are enough to be interesting: with 2 workers a wave is cut off by the
workers, by the remaining budget and by repeated individuals; budget 7 with 3 slots
reaches a second generation, refinement, a dropped flake and a second discovery call;
3 slots hold a niche with an elite and one without, and 2 slots of one niche are enough for
elites to be confirmed in later rounds; `MaxRunFailures = 2` with one retry
lets failures and flakes mix over several rounds; `WallClock = {10, 20}` with
`MinTimeout = 20` makes the same run survive or not depending on the runs before it.
Two attempts are enough for a callback to meet the next simulation (three give the same
results and a million states). Four individuals and `topK` 2 or 3 make the limit, the
quota and look-alikes exclude tests in every combination; 3 m is halved five times
before it reaches 0.1 m.
Three containers let two threads hold one each while a third is left by an earlier
campaign. In `workers` the switch `UseGPU` is on, since the other setting only leaves a step
out. Three starters give a file a reader with an old text, a writer and a crashed
process at once. One generation is enough in `breeding`: its initial states are all
populations of seeds, and `BredInsideFrame` and `BredCutNothing` are about a child and the
parents it was made from; that the rules hold over several generations rests on the theorem
`BreedingRules`. A budget smaller than the population, which `generate` shrinks to at least
two, is in no run's instance and rests on `CampaignBudget` and `NichesProtected`. A gate has one
length, one overhang and, its range holding no other angle of the grid, one crossing angle in
`layouts`; the other values on the grid rest on `LayoutsDecoded`. The waypoints of `layouts` are a 3-4-5 triangle,
flown round or to and fro, with a hop below `MIN_SEGMENT_LENGTH` and a leg of exactly that
length. The distances of `functions` lie on, just below and far above each bound, and
three runs are what the official score averages.
The population, budget and retry limits of the real configuration (20, 100, 2) are out
of reach; the theorems cover them.

Fairness in `batch`, `local` and `campaign` is weak fairness of the whole next-state
relation: the program goes on as long as it can do something. That an attempt ends is part
of it. For local runs the watchdog kills a simulation that does not, so `Terminates` is
checked in `local`. For worker containers nothing under `src/` bounds a run; `Returns` in
`batch` rests on the agent honouring `DOCKER_TIMEOUT` (docker/docker-compose.yml:15).
`Watchdog` justifies the local case: there only the threads and the timer are fair, the
simulator may hang, and `HungAttemptsEnd` shows that the attempt ends. In `workers` the
threads, the daemon's starting of containers and the flights that do not hang are fair;
failures, deaths and the script are not. A hung flight is the exception that `AttemptsEnd`
names: no code under `src/` ends it, only the script or the container's
death. In `artifacts` threads and processes are weakly fair, taking the plot lock
included: the lock is held for a drawing and released by its `with` block also when that
fails, and there are only so many others to wait for.

### Disagreements found

The run `kill_claim` refutes `KillsOnlyOverdue`, what the docstring of `armWatchdog` says. In
its trace a flight ends just as `killAfter` is up: the callback has begun, and neither
`timer.cancel()` nor anything else stops it or waits for it. Main runs the same passes in its
own `finally` clause (SIGTERM, sleep 1 s, SIGKILL, sleep 1 s), goes on and starts the next
simulator; then the callback's remaining pass kills that one. For this the callback has to
be held up as well: by more than about one second before its SIGKILL pass, or two before its
SIGTERM pass, as may happen on a loaded host, where each pass starts some twenty `pkill`
processes. Undelayed it is through its passes before main is. The attempt hit is recorded as
failed, not as stuck, and every attempt still starts on a clean host (`StartsClean`). The
callback also deletes the live files of that PX4; the model records this but gives it no
effect of its own.

Ten more statements of comments, tests and docs are not what the code does. They are
stated, with the line they quote, at the end of the modules; TLC finds a short
counterexample when one of them is given as INVARIANT in the configuration named:

* `rerunElites` confirms every valid member of the population in every round, not only
  the elites at the start of a generation (`OnlyElitesConfirmed`, MCLocal.cfg with
  `PopSize = 3`, `GatePercent = 30`).
* A layout whose first attempt was killed stays "stuck" although its later runs reach
  the goal, and is never submitted (`StuckMissedTheGoal`, MCLocal.cfg).
* The watchdog's limit follows the slowest *first* measurement, not the slowest run
  that reached the goal (`ThresholdTracksSlowestGood`, MCLocal.cfg). `GoodPaceSurvives` in
  `local` shows that with its instance's times this does no harm.
* Refinement can finish a third run of one layout before another has its second
  (`SecondRunBeforeThird`, MCCampaign.cfg with `RefinePercent = 50`,
  `MaxFlakeRetries = 2`), through flakes.
* With `relaxSimilarity`, the default, tests closer than the rerun spread are submitted,
  which README.md:87 excludes (`FlightsToldApart`, MCSuite.cfg). They are never closer than the
  threshold `selectSuite` returns (`FlightsDistinct`).
* `run.sh` kills stale runs inside the coordinator's container only, where neither the
  processes nor the containers of workers can be seen; a killed campaign's simulations go
  on beside the next one (`StaleRunsKilled`, MCWorkers.cfg).
* On the host the script means to stop the worker containers too (kill_simulations.sh:79), but its
  `grep` for `aerialist|px4|gazebo|jmavsim|ros` does not match the image that
  docker-compose.yml:14 sets, `docker-uav-testing`: unless the name docker drew for it happens
  to match, no worker container is listed, and none is stopped although every docker call
  works (`SiblingsStopped`, MCWorkers.cfg; the counterexample is an empty `listed`). Root's
  signals still reach the simulator's processes inside them. A user who is not root
  signals nothing of this, and the script reports success while the campaign goes on. What
  does hold is `NoFlightBehindScript`: with `cli.py` dead, no simulation begins in a
  container that was still starting when `docker ps` ran.
* `cli.py` imports the modules of Aerialist before it patches their files, so a first start
  on an unpatched library works with the old ones (`BuiltFromPatched`, MCStartup.cfg).
* When every strict draw fails, a wall that cuts another segment is accepted and simulated
  (`LegalCutsOwnLegOnly`, MCLayouts.cfg); with the strict rule it never is (`StrictCutsOwnLegOnly`).
* A mutated gene that is clamped can leave the child identical to a parent
  (`ChildrenDiffer`, MCBreeding.cfg).

## 4. Proofs

Proved by TLAPS for every value of the constants, under the named assumptions of the
modules. These say what the code needs to make sense and no more: counts and limits are
numbers, at least one worker, a positive budget and population; a positive `minTimeout`
(300 s in the code) and runs with a positive flight time; finitely many tests per
campaign (`TestsAssumption`); candidates whose scores, distances and trajectories are
numbers (`CandidateAssumption`); a bound on the list that `Suite` is given
(`BoundAssumption`); waypoints and bounds in whole metres; at least one slot (`CountsAssumption`).
Four are limits of what is covered or of what holds. `RangesAssumption`: of the genes within
`GENE_RANGES` (genes.py:30-44) those on the grid, that is the crossing angles 36.9 and 53.1
degrees, sizes in whole metres and `t` in fifths; with `Exact`, which keeps the missions whose
legs have one of twelve directions, it bounds what is proved of `Layouts`, and the angles
between are covered by nothing here. `RunsAssumption`: the official score averages at most
four runs, because the shaping of one run adds up to a quarter of a point; with five,
`TiersComeFirst` would be false. The refinement stops at three, but nothing ties
`rerunElites` to this: an elite confirmed over many generations has more runs, and for it
the claim of generator.py:93-96 may fail. `ResolutionAssumption`: beyond the last tier bound
the distances are told apart by whole halvings, up to eight, which is the grid of the
halving abstraction. `SizesAssumption`: boxes have sides and the gap asked for has a width,
as gates do; at a gap of 0 touching boxes would be reported as too close.
Each property below that a run checks is checked there on a small instance as well.

* **RetryingBatchProofs**: the facts about lists and waves that the scheduler's users share.
  A selection of positions is a list of the elements there, each once; the scan picks no
  more items than there is room for (an injection into `1..capacity`), one per individual;
  what is pending after a wave is again a list of items.
* **BatchWorkersProofs**, the scheduler. `MeasurementsPaired` is not inductive: while a
  worker is between its appends its individual's lists differ by one element. `IInv` adds
  what they look like then (`PairedInv`: the distances are the durations plus that worker's
  job), that at most one position of the wave belongs to an individual, and that the
  finished attempts of the wave bridge `attemptsUsed` and `simulated`: `BatchTypes`,
  `BatchBudget`, `BatchExclusion`, `BatchPairing`, `BatchLedger`.
  `JobInv` follows single jobs: a job is pending at most once (`PendingOnce`), its retry
  count is the number of flakes it has had (`FlakesCounted`, `FlakeLimit`), a job neither
  pending nor settled has had its last flake (`NoJobLost`, `AnswersKept`), retried items are
  a prefix of the queue, each the first of its individual, and a wave takes only such
  (`RetriesInFront`, `RetriesAreFirst`, `WaveIsFirst`), and a call that has returned has
  nothing left to do or nothing to do it with (`DoneInv`). From it follow
  `BatchRetriesFirst`, `BatchRetriesExact`, and `BatchImplementsPool`: every step of
  `BatchWorkers` is a step of `JobPool` or leaves its variables alone. The step that ends a
  wave needs the origin of every new position (`IsOrigin`) to show that no job changes hands.
* **CampaignProofs**, the search. Its invariants build on one another.
  * `BudgetInv` says, for each place `generate` can be in, how the simulations split into
    the nested ledgers: finished phases, the current discovery call, the current batch, the
    finished attempts of the wave; and that each ledger's budget fits into what the
    enclosing one has left. It uses no typing of individuals, so `CampaignBudget` and
    `CampaignLedger` hold whatever the simulator answers and whatever breeding and
    selection do. `GaveUpInv` adds which exit of a phase left budget over:
    `UnspentOnlyByGivingUp`.
  * `PopulationInv`: types, every slot its own individual (`OwnSlots`) of the niche the
    schedule gave it, scores of no more runs than there are, pending jobs of the running
    batch. It gives `CampaignTypes` and `NichesProtected`. It needs that the elites of a
    niche are that many different members of it, hence that `searchSelectionKey` with the
    position as tie-break is a strict total order: scores are fractions compared by
    cross-multiplication, whose denominators are sums of flight times.
  * `PaceInv`: the kill limit in force never passes the one the next batch would get, and no
    completed local run was slower than it. Gives `GoodPaceKept`.
  * `ResultsInv`: an individual's fields fit together (`SaneInv`), the batch works on
    whom it should (`BatchJobs`), the valid layouts are the evaluated ones but for the round
    in progress (`EvaluatedInv`), unsettled items have no measurement (`OpenInv`), scores
    are out of date only for what is being rerun (`CurrentInv`). Gives
    `NothingMeasuredLost`, `ScoresNeverStale` and, with the filter of `Select`,
    `SubmittedTestsSound`.
  * `AttemptsInv`: between rounds a free slot has attempts left (`AttemptsLeft`); within a
    batch only a layout's own flakes take it over `maxRunFailures` (`FlakesPaid`). `RunsInv`,
    without elite confirmation: runs plus open refinement jobs of a layout stay within
    `1 + nReruns`, which holds because each rerun round takes a layout at most once and only
    from its number of runs on. Gives `EffortPerLayout`.
  * `BestLayoutSurvives` (`BestSurvives`, an action property): at a `Breed` step the first
    of a niche in the sorted population is its first elite, and elites keep a slot.
* **SuiteProofs**, the selection: `SuiteOfDistinctFlights`, `NothingDroppedSilently`,
  `BestIsSubmitted`, `RelaxedOnlyAsNeeded`. `IInv` says what the walk of `greedyFill` has
  established so far: what is taken was looked at, once (`TakenInv`), within the frame
  quota and the threshold apart (`QuotaInv`, `ApartInv`); each test passed over still has its
  frame full or a look-alike taken before it (`ReasonInv`); the head of the ranking is taken
  (`HeadInv`); without look-alikes a pass takes exactly the places the quota has room for
  (`WalkInv`); the threshold was halved for look-alikes only (`HalvedInv`); the last pass is
  over and good enough (`DoneInv`). None of the four properties is inductive, since they
  speak of the end: the verdict on a test depends on those taken before it, and persists
  because the selection only grows within a pass.
* **AttemptsProofs**, attempts. Local ones: `WatchdogStartsClean` and `WatchdogCut`, for
  every number of attempts and every set of processes. `CleanInv` says what main's cleanup has achieved at each of
  its stages and that nothing but `Execute` undoes it; `CutInv` that a callback in
  `cleanupSimState` has set its flag, and that an attempt is recorded only after main has
  left `agent.run`.
  Isolated ones: `TypeCorrect`, `ContainersAccountedFor` (`NothingLeftBehind`),
  `HostScriptLeavesNoStarter` (`NoFlightBehindScript`), for
  every number of threads, containers and campaigns, with docker calls failing as in the model.
  `NothingLeftBehind` needs that whoever ends an attempt has asked for its container's removal
  or is recorded in `lost` (`LetGo`). `ScriptInv` says that simulations run only in containers
  that are up, that `cli.py` is dead once a script that may signal it has done so, so that none
  begins behind its back, and that those which go on were up when root's `docker ps` ran.
* **FilesProofs**, files. Patches: `TypeCorrect`, `NeverPatchedTwice`, `TornByCrashOnly`,
  `FinishedStartPatches`, `UnknownStays`, for every number of processes. `PatchedOnce` is
  not inductive: two processes may both be about to write the same file. `WriterInv` says
  that the text of each is the unpatched one whatever the file has become meanwhile, so the
  second write repeats the first; `PassedInv` that a file somebody has gone past is not
  unpatched again, which gives `FinishedMeansPatched`; `TornOnlyByCrash` keeps, for each torn
  file, a writer that has still to write or that died.
  Output: `FilesAreRight`, for every set of campaigns and tests. A thread between
  taking and releasing `PLOT_LOCK` holds it (`LockInv`), so what it has drawn stays on the
  shared figure until it saves it (`FigureInv`), and a saved plot stays that of its test
  (`PlotInv`); a suite holds plotted tests (`SuiteInv`); a folder nobody made is empty and one
  that a single campaign made holds what it has written so far, and nothing else
  (`UnusedInv`, `FolderInv`).
* **OperatorProofs**, the pure functions. Sums of runs and the two scores: one run's shaping
  adds at most a quarter of a point and falls with the distance, within a tier and across
  its bounds (`PointsFall`). `IntersectsIffMeet`: for all segments with integer ends, also
  single points and segments of one line, `segmentsIntersect` finds those that meet. Where it
  falls short of a plain sign test the ends lie on one line, and then an end lies on the
  other segment. Points near boxes, segments and corners (`FarFromSegment`, `NearCorners`,
  `FarCorners`), for the layouts.
* **GenesProofs**, genes.
  * `Layouts`: `SeedsAreFlown`, `LayoutsDecoded`, `LayoutsAccepted`, for every area and every
    mission and set of genes on the grid (above). `LayoutInv` is inductive: `SeedInv` says of the last draw what its genes,
    its obstacles and the verdict on them have to do with one another, and the plan and its
    legs stay what `parseWaypoints` made of the items. The geometry is done in the frame of
    the gene's leg, where a wall is an interval across the leg whichever way `makeWall` stored
    it (`MakeWallShape`). `GateAsWideAsItsGene` rests on the bisection: the blocker is too near
    at offset 0 and far enough at 300 tenths (`GateNear`, `GateFar`), `IsBracket` is kept by
    each halving, and nine halvings leave one tenth (`OffsetFound`).
  * `Breeding`: `BreedingRules`. `BreedInv` says that each member of the population and each
    child so far has genes within the ranges of its slot's niche and is marked illegal
    exactly if it cannot be placed, and that a bred child lies in the frame its parents span
    and cuts no other leg.
  * `FunctionChecks`: `FunctionScores`. `RunsInv` keeps the two lists of runs equally long with
    equal times; the rest is sums of fractions over one denominator. `GeometryIsRight`: the
    invariant is only that what is put down lies on the grid; the rest are lemmas about all
    segments, and about all boxes with an axis of length `Unit`, wherever they are and
    whatever their sides. Everything is measured in the frame of a box: along the outward
    normal of an edge and along the edge. `Support` reads the extreme corner of a box off
    `projectionRadius`, so a box is past an edge of another exactly if their shadows on that
    normal are apart (`BeyondOnAxes`), and `overlaps` finds the boxes that no edge parts
    (`PartsAreOverlaps`). `NearestOnEdge` takes the distance from an edge apart into its two
    `Excess`es, hence a point outside a box is as near to the box as to its nearest edge
    (`NearEdgeNearBox`, `NearBoxNearEdge`). Edges of boxes that do not overlap meet, if at
    all, in an end of one (`BeyondDontCross`), so corners are all `footprintGap` needs
    (`GapIsMeasured`).

Three techniques recur. Induction over numbers is done by least counterexample or by the set
of numbers that satisfy the claim, since an induction theorem cannot be instantiated. A sum
over a set is shown to be the one table over its subsets that satisfies the recursion of the
library's fold, and the rounds of reruns likewise are shown to exist before anything is said
of them. A sort is reduced to its order: that it is strict and total on the elements, and
that the n-th element is the one with n - 1 before it.

Type invariants are proved and checked by no run, as are `UnknownLeftAlone` (a file that is
missing or not recognised is never touched) and `OneAttemptPerIndividual`.

Only model-checked: liveness (`Returns`, `Terminates`, `AttemptsEnd`, `HungAttemptsEnd`,
`CampaignsEnd`), which needs fairness and ENABLED. Every other property of a passing run is
a theorem.

## 5. Plan

Done: scheduler and its contract, campaign, scoring and its order, watchdog, suite, worker
containers and the kill script, start-up patches, geometry, layouts, breeding, output
files; proofs of every safety property, of the action properties and of the scheduler's
contract. What is left is beyond the prover: liveness, and the disagreements of section 3,
which are counterexamples.

### Not modelled

* The random generator: the starter kit's baseline, a loop of independent runs that keeps
  nothing between them but its result list.
* Argument parsing, log handlers and the virtual display of `cli.py` and `run.sh`: set-up
  that no later step changes. `run.ps1` repeats `run.sh` for Windows.
* `wgs84ToLocal` and the syntax of plan files: a floating-point conversion and I/O.
* Aerialist, PX4, Gazebo and Docker beyond what `src/snippets/` observes of them.
* `docker/sysroot`: headers and libraries of the target system, third-party files without
  logic of this program, and the compose files.
