------------------------------ MODULE Watchdog ------------------------------
(***************************************************************************)
(* Local simulator attempts (evaluate and rerun in generator.py with an    *)
(* agent that is not isolated), one after the other, at the grain of the   *)
(* threads involved: the main thread that runs an attempt, the threading   *)
(* Timer of armWatchdog, and the simulator's processes.  Both threads may  *)
(* be inside cleanupSimState at the same time, and timer.cancel() does not *)
(* stop a callback that has begun.                                         *)
(*                                                                         *)
(* There is no clock.  killAfter is at least minTimeout (300 s), so an     *)
(* attempt whose simulator never starts is over long before its timer is   *)
(* due, and a timer may fire at any moment once the simulator has started. *)
(* The steps of a thread may be as far apart as the scheduler likes.       *)
(***************************************************************************)
EXTENDS Naturals, FiniteSets

CONSTANTS
    Proc,        \* the processes roslaunch starts
    PX4,         \* the one that keeps a socket and a lock file in /tmp
    MaxAttempts  \* bound: how many attempts are looked at

ASSUME ProcAssumption == PX4 \in Proc
ASSUME AttemptsAssumption == MaxAttempts \in Nat

Attempt == 1..MaxAttempts

(* The threads that may run cleanupSimState: main, and the callback of the *)
(* timer of each attempt.                                                  *)
Main == 0
Thread == {Main} \union Attempt

VARIABLES
    attempt,  \* the number of the attempt main is in, or was in last
    mpc,      \* where main is
    timer,    \* attempt -> its Timer: "off", "started", "due", "cancelled", "fired"
    killed,   \* attempt -> killed[0]
    cleanup,  \* thread -> where it is in cleanupSimState
    procs,    \* the simulator processes alive
    files,    \* do PX4's socket and lock file exist
    outcome,  \* attempt -> how it was recorded
    cutBy     \* history: attempt -> the callbacks that killed its simulation

watchdogVars == <<attempt, mpc, timer, killed, cleanup, procs, files, outcome, cutBy>>

(* A campaign may start on a host with leftovers of an earlier one. *)
WatchdogInit ==
    /\ attempt = 0
    /\ mpc = "next"
    /\ timer = [n \in Attempt |-> "off"]
    /\ killed = [n \in Attempt |-> FALSE]
    /\ cleanup = [th \in Thread |-> "out"]
    /\ procs \in SUBSET Proc
    /\ files \in BOOLEAN
    /\ outcome = [n \in Attempt |-> "none"]
    /\ cutBy = [n \in Attempt |-> {}]

-----------------------------------------------------------------------------
(* The main thread: one attempt. *)

(* armWatchdog; killAfter is at least minTimeout, hence positive. *)
Arm ==
    /\ mpc = "next" /\ attempt < MaxAttempts
    /\ attempt' = attempt + 1
    /\ timer' = [timer EXCEPT ![attempt + 1] = "started"]
    /\ mpc' = "armed"
    /\ UNCHANGED <<killed, cleanup, procs, files, outcome, cutBy>>

(* tc.execute starts the simulator, which may outlast killAfter; over      *)
(* stale files PX4 exits at once.                                          *)
Execute ==
    /\ mpc = "armed"
    /\ IF files
       THEN mpc' = "except" /\ UNCHANGED <<timer, procs, files>>
       ELSE /\ mpc' = "execute"
            /\ timer' = [timer EXCEPT ![attempt] = "due"]
            /\ procs' = Proc
            /\ files' = TRUE
    /\ UNCHANGED <<attempt, killed, cleanup, outcome, cutBy>>

(* agent.run returns with a record, perhaps of a flight that a kill has    *)
(* just begun to cut short; some processes may linger.                     *)
RunReturns ==
    /\ mpc = "execute"
    /\ procs # {}
    /\ procs' \in SUBSET procs
    /\ files' \in BOOLEAN
    /\ mpc' = "measure"
    /\ UNCHANGED <<attempt, timer, killed, cleanup, outcome, cutBy>>

(* agent.run fails by itself. *)
SimulatorFails ==
    /\ mpc = "execute"
    /\ procs' \in SUBSET procs
    /\ files' \in BOOLEAN
    /\ mpc' = "except"
    /\ UNCHANGED <<attempt, timer, killed, cleanup, outcome, cutBy>>

(* agent.run reads a pipe that every process holds open: it is unblocked,  *)
(* with an exception, when the last one is dead.                           *)
RunUnblocked ==
    /\ mpc = "execute"
    /\ procs = {}
    /\ mpc' = "except"
    /\ UNCHANGED <<attempt, timer, killed, cleanup, procs, files, outcome, cutBy>>

(* Distances, the flake test, plot and scores; any of it may raise. *)
Measure ==
    /\ mpc = "measure"
    /\ \/ /\ mpc' = "finally"
          /\ \E result \in {"measured", "flake"} : outcome' = [outcome EXCEPT ![attempt] = result]
       \/ mpc' = "except" /\ UNCHANGED outcome
    /\ UNCHANGED <<attempt, timer, killed, cleanup, procs, files, cutBy>>

(* The except clause. *)
Except ==
    /\ mpc = "except"
    /\ outcome' = [outcome EXCEPT ![attempt] = IF killed[attempt] THEN "stuck" ELSE "failed"]
    /\ mpc' = "finally"
    /\ UNCHANGED <<attempt, timer, killed, cleanup, procs, files, cutBy>>

(* Mutant: the timer is cancelled and nothing is cleaned up. *)
FinallyCancelOnly ==
    /\ mpc = "finally"
    /\ timer' = [timer EXCEPT ![attempt] = IF @ = "fired" THEN @ ELSE "cancelled"]
    /\ mpc' = "next"
    /\ UNCHANGED <<attempt, killed, cleanup, procs, files, outcome, cutBy>>

(* The finally clause: cancel the timer, then clean up. *)
Finally ==
    /\ mpc = "finally"
    /\ timer' = [timer EXCEPT ![attempt] = IF @ = "fired" THEN @ ELSE "cancelled"]
    /\ cleanup' = [cleanup EXCEPT ![Main] = "TERM"]
    /\ mpc' = "cleanup"
    /\ UNCHANGED <<attempt, killed, procs, files, outcome, cutBy>>

(* cleanupSimState is back: the attempt returns. *)
Return ==
    /\ mpc = "cleanup"
    /\ cleanup[Main] = "out"
    /\ mpc' = "next"
    /\ UNCHANGED <<attempt, timer, killed, cleanup, procs, files, outcome, cutBy>>

-----------------------------------------------------------------------------
(* The timer thread. *)

(* Mutant: the callback's flag is a local variable. *)
FireUnflagged(n) ==
    /\ timer[n] = "due"
    /\ timer' = [timer EXCEPT ![n] = "fired"]
    /\ cleanup' = [cleanup EXCEPT ![n] = "TERM"]
    /\ UNCHANGED <<attempt, mpc, killed, procs, files, outcome, cutBy>>

(* The callback begins: it sets the flag before it kills anything. *)
Fire(n) ==
    /\ timer[n] = "due"
    /\ timer' = [timer EXCEPT ![n] = "fired"]
    /\ killed' = [killed EXCEPT ![n] = TRUE]
    /\ cleanup' = [cleanup EXCEPT ![n] = "TERM"]
    /\ UNCHANGED <<attempt, mpc, procs, files, outcome, cutBy>>

-----------------------------------------------------------------------------
(* cleanupSimState, in either thread. *)

(* Mutant: the processes roslaunch leaves behind are not listed. *)
PatternsWithoutHelpers == {PX4}

(* _CLEANUP_PATTERNS: every process of the simulator matches one. *)
Patterns == Proc

(* Which simulation a thread's kill cuts short: one that main is waiting for. *)
CutBy(th, dead) ==
    IF mpc = "execute" /\ dead # {} THEN [cutBy EXCEPT ![attempt] = @ \union {th}] ELSE cutBy

(* The SIGTERM pass: a process may exit, PX4 then removing its files. *)
Terminate(th) ==
    /\ cleanup[th] = "TERM"
    /\ \E dead \in SUBSET (procs \intersect Patterns) :
          /\ procs' = procs \ dead
          /\ files' = (files /\ PX4 \notin dead)
          /\ cutBy' = CutBy(th, dead)
    /\ cleanup' = [cleanup EXCEPT ![th] = "KILL"]
    /\ UNCHANGED <<attempt, mpc, timer, killed, outcome>>

(* The SIGKILL pass: no process survives it, PX4's files do. *)
Kill(th) ==
    /\ cleanup[th] = "KILL"
    /\ procs' = procs \ Patterns
    /\ cutBy' = CutBy(th, procs \intersect Patterns)
    /\ cleanup' = [cleanup EXCEPT ![th] = "files"]
    /\ UNCHANGED <<attempt, mpc, timer, killed, files, outcome>>

(* The stale files are removed. *)
RemoveStale(th) ==
    /\ cleanup[th] = "files"
    /\ files' = FALSE
    /\ cleanup' = [cleanup EXCEPT ![th] = "out"]
    /\ UNCHANGED <<attempt, mpc, timer, killed, procs, outcome, cutBy>>

-----------------------------------------------------------------------------
MainStep ==
    \/ Arm
    \/ Execute
    \/ RunUnblocked
    \/ Measure
    \/ Except
    \/ Finally
    \/ Return

CleanupStep(th) == Terminate(th) \/ Kill(th) \/ RemoveStale(th)

WatchdogNext ==
    \/ MainStep
    \/ RunReturns
    \/ SimulatorFails
    \/ \E n \in Attempt : Fire(n)
    \/ \E th \in Thread : CleanupStep(th)

(***************************************************************************)
(* Threads run on and a timer that is not cancelled fires.  Nothing is     *)
(* assumed of the simulator: it may hang.                                  *)
(***************************************************************************)
WatchdogFairness ==
    /\ WF_watchdogVars(MainStep)
    /\ \A n \in Attempt : WF_watchdogVars(Fire(n))
    /\ \A th \in Thread : WF_watchdogVars(CleanupStep(th))

WatchdogSpec == WatchdogInit /\ [][WatchdogNext]_watchdogVars /\ WatchdogFairness

-----------------------------------------------------------------------------
(***************************************************************************)
(* Properties.                                                             *)
(***************************************************************************)

(* Types of the threads' and the simulator's state. *)
WatchdogTypeOK ==
    /\ attempt \in 0..MaxAttempts
    /\ mpc \in {"next", "armed", "execute", "measure", "except", "finally", "cleanup"}
    /\ mpc # "next" => attempt \in Attempt
    /\ timer \in [Attempt -> {"off", "started", "due", "cancelled", "fired"}]
    /\ killed \in [Attempt -> BOOLEAN]
    /\ cleanup \in [Thread -> {"out", "TERM", "KILL", "files"}]
    /\ procs \subseteq Proc
    /\ files \in BOOLEAN
    /\ outcome \in [Attempt -> {"none", "measured", "flake", "failed", "stuck"}]
    /\ cutBy \in [Attempt -> SUBSET Thread]

(* Every attempt but the first starts on a clean host, with no process of  *)
(* an earlier simulation and none of the files that make PX4 exit, however *)
(* that simulation ended and whatever a late callback still does.          *)
StartsClean == mpc = "armed" /\ attempt > 1 => procs = {} /\ ~files

(* A simulation that its own watchdog cut short is never recorded as a     *)
(* simulator failure: the flag is set before the processes die and read    *)
(* after that, whichever of the kill passes unblocks agent.run.            *)
CutIsNoFailure == \A n \in Attempt : n \in cutBy[n] => outcome[n] # "failed"

(* Every attempt ends, also when the simulator hangs and some of its       *)
(* processes ignore SIGTERM.                                               *)
HungAttemptsEnd == mpc = "execute" ~> mpc = "next"

(* armWatchdog: "Start a timer that kills a simulation still running after *)
(* killAfter seconds."  A simulation would then be killed by its own timer *)
(* only.  A callback held up while main runs both of its own passes and    *)
(* goes on kills the next simulation with the pass it has left.            *)
KillsOnlyOverdue == \A n \in Attempt : cutBy[n] \subseteq {n}
=============================================================================
