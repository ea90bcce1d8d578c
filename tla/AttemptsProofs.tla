--------------------------- MODULE AttemptsProofs ---------------------------
(***************************************************************************)
(* The safety properties of simulator attempts, local and in containers:   *)
(* those of Watchdog for any number of attempts and any set of simulator   *)
(* processes, those of Workers for any set of threads, any number of       *)
(* containers and campaigns, with and without the display cookie.          *)
(***************************************************************************)
EXTENDS Watchdog, Workers, TLAPS

(* Watchdog: local attempts and the timer that kills them. *)

(* What main's cleanup has established at each of its stages.  Nothing but *)
(* Execute creates processes or files, so no late callback disturbs it.    *)
CleanInv ==
    /\ cleanup[Main] # "out" => mpc = "cleanup"
    /\ mpc = "cleanup" /\ cleanup[Main] \in {"files", "out"} => procs = {}
    /\ mpc = "cleanup" /\ cleanup[Main] = "out" => ~files
    /\ mpc = "next" /\ attempt > 0 => procs = {} /\ ~files
    /\ StartsClean

(* A callback that has begun has set its flag, and a simulation is cut     *)
(* short only before its attempt is recorded.                              *)
CutInv ==
    /\ \A n \in Attempt : cleanup[n] # "out" \/ n \in cutBy[n] => killed[n]
    /\ \A n \in Attempt : outcome[n] # "none" =>
          n < attempt \/ (n = attempt /\ mpc \in {"finally", "cleanup", "next"})
    /\ CutIsNoFailure

WatchdogInv == WatchdogTypeOK /\ CleanInv /\ CutInv

-----------------------------------------------------------------------------
LEMMA MainIsNoAttempt == Main \in Thread /\ Attempt \subseteq Thread /\ Main \notin Attempt
  BY AttemptsAssumption DEF Main, Thread, Attempt

LEMMA WatchdogInvInit == WatchdogInit => WatchdogInv
  BY AttemptsAssumption, MainIsNoAttempt
  DEF WatchdogInit, WatchdogInv, WatchdogTypeOK, CleanInv, StartsClean, CutInv, CutIsNoFailure

LEMMA TypeStep == WatchdogTypeOK /\ [WatchdogNext]_watchdogVars => WatchdogTypeOK'
<1> SUFFICES ASSUME WatchdogTypeOK, [WatchdogNext]_watchdogVars
             PROVE  WatchdogTypeOK'
  OBVIOUS
<1> USE AttemptsAssumption, MainIsNoAttempt
<1>1. CASE Arm
  BY <1>1 DEF Arm, WatchdogTypeOK, Attempt
<1>2. CASE Execute
  BY <1>2 DEF Execute, WatchdogTypeOK
<1>3. CASE RunReturns \/ SimulatorFails \/ RunUnblocked
  BY <1>3 DEF RunReturns, SimulatorFails, RunUnblocked, WatchdogTypeOK
<1>4. CASE Measure
  BY <1>4 DEF Measure, WatchdogTypeOK
<1>5. CASE Except
  BY <1>5 DEF Except, WatchdogTypeOK
<1>6. CASE Finally
  BY <1>6 DEF Finally, WatchdogTypeOK
<1>7. CASE Return
  BY <1>7 DEF Return, WatchdogTypeOK
<1>8. ASSUME NEW n \in Attempt, Fire(n)
      PROVE  WatchdogTypeOK'
  BY <1>8 DEF Fire, WatchdogTypeOK
<1>9. ASSUME NEW th \in Thread, Terminate(th)
      PROVE  WatchdogTypeOK'
  BY <1>9 DEF Terminate, WatchdogTypeOK, CutBy
<1>10. ASSUME NEW th \in Thread, Kill(th)
       PROVE  WatchdogTypeOK'
  BY <1>10 DEF Kill, WatchdogTypeOK, CutBy
<1>11. ASSUME NEW th \in Thread, RemoveStale(th)
       PROVE  WatchdogTypeOK'
  BY <1>11 DEF RemoveStale, WatchdogTypeOK
<1>12. CASE UNCHANGED watchdogVars
  BY <1>12 DEF watchdogVars, WatchdogTypeOK
<1> QED
  BY <1>1, <1>2, <1>3, <1>4, <1>5, <1>6, <1>7, <1>8, <1>9, <1>10, <1>11, <1>12
  DEF WatchdogNext, MainStep, CleanupStep

LEMMA CleanStep == WatchdogTypeOK /\ CleanInv /\ [WatchdogNext]_watchdogVars => CleanInv'
<1> SUFFICES ASSUME WatchdogTypeOK, CleanInv, [WatchdogNext]_watchdogVars
             PROVE  CleanInv'
  OBVIOUS
<1> USE AttemptsAssumption, MainIsNoAttempt DEF CleanInv, StartsClean, WatchdogTypeOK
<1>1. CASE Arm
  BY <1>1 DEF Arm
<1>2. CASE Execute
  BY <1>2 DEF Execute
<1>3. CASE RunReturns \/ SimulatorFails \/ RunUnblocked
  BY <1>3 DEF RunReturns, SimulatorFails, RunUnblocked
<1>4. CASE Measure \/ Except
  BY <1>4 DEF Measure, Except
<1>5. CASE Finally
  BY <1>5 DEF Finally
<1>6. CASE Return
  BY <1>6 DEF Return
<1>7. ASSUME NEW n \in Attempt, Fire(n)
      PROVE  CleanInv'
  BY <1>7 DEF Fire
<1>8. ASSUME NEW th \in Thread, Terminate(th)
      PROVE  CleanInv'
  BY <1>8 DEF Terminate
<1>9. ASSUME NEW th \in Thread, Kill(th)
      PROVE  CleanInv'
  BY <1>9 DEF Kill, Patterns
<1>10. ASSUME NEW th \in Thread, RemoveStale(th)
       PROVE  CleanInv'
  BY <1>10 DEF RemoveStale
<1>11. CASE UNCHANGED watchdogVars
  BY <1>11 DEF watchdogVars
<1> QED
  BY <1>1, <1>2, <1>3, <1>4, <1>5, <1>6, <1>7, <1>8, <1>9, <1>10, <1>11
  DEF WatchdogNext, MainStep, CleanupStep

LEMMA CutStep == WatchdogTypeOK /\ CutInv /\ [WatchdogNext]_watchdogVars => CutInv'
<1> SUFFICES ASSUME WatchdogTypeOK, CutInv, [WatchdogNext]_watchdogVars
             PROVE  CutInv'
  OBVIOUS
<1> USE AttemptsAssumption, MainIsNoAttempt DEF CutInv, CutIsNoFailure, WatchdogTypeOK, Attempt
<1>1. CASE Arm
  BY <1>1 DEF Arm
<1>2. CASE Execute
  BY <1>2 DEF Execute
<1>3. CASE RunReturns \/ SimulatorFails \/ RunUnblocked
  BY <1>3 DEF RunReturns, SimulatorFails, RunUnblocked
<1>4. CASE Measure
  BY <1>4 DEF Measure
<1>5. CASE Except
  BY <1>5 DEF Except
<1>6. CASE Finally
  BY <1>6 DEF Finally
<1>7. CASE Return
  BY <1>7 DEF Return
<1>8. ASSUME NEW n \in Attempt, Fire(n)
      PROVE  CutInv'
  BY <1>8 DEF Fire
<1>9. ASSUME NEW th \in Thread, Terminate(th)
      PROVE  CutInv'
  BY <1>9 DEF Terminate, CutBy
<1>10. ASSUME NEW th \in Thread, Kill(th)
       PROVE  CutInv'
  BY <1>10 DEF Kill, CutBy
<1>11. ASSUME NEW th \in Thread, RemoveStale(th)
       PROVE  CutInv'
  BY <1>11 DEF RemoveStale
<1>12. CASE UNCHANGED watchdogVars
  BY <1>12 DEF watchdogVars
<1> QED
  BY <1>1, <1>2, <1>3, <1>4, <1>5, <1>6, <1>7, <1>8, <1>9, <1>10, <1>11, <1>12
  DEF WatchdogNext, MainStep, CleanupStep

(* The inductive invariant holds throughout: what cleanupSimState achieves *)
(* stage by stage, and how the watchdog's flag precedes its kills.         *)
THEOREM WatchdogInvariant == WatchdogSpec => []WatchdogInv
<1>1. WatchdogInv /\ [WatchdogNext]_watchdogVars => WatchdogInv'
  BY TypeStep, CleanStep, CutStep DEF WatchdogInv
<1> QED
  BY WatchdogInvInit, <1>1, PTL DEF WatchdogSpec

(* Every attempt after the first starts without processes or stale files   *)
(* of an earlier one, whatever late watchdog callbacks are still running.  *)
THEOREM WatchdogStartsClean == WatchdogSpec => []StartsClean
<1>1. WatchdogInv => StartsClean
  BY DEF WatchdogInv, CleanInv
<1> QED
  BY WatchdogInvariant, <1>1, PTL

(* A run its own watchdog cut short is never recorded as a plain failure   *)
(* of the simulator (the except clause reads killed[0] in time).           *)
THEOREM WatchdogCut == WatchdogSpec => []CutIsNoFailure
<1>1. WatchdogInv => CutIsNoFailure
  BY DEF WatchdogInv, CutInv
<1> QED
  BY WatchdogInvariant, <1>1, PTL

-----------------------------------------------------------------------------
(* Workers: attempts in containers, and the scripts that remove them. *)

Simulating(c) == flight[c] \in {"flying", "hung"}

(* A simulation runs in a container that is up; once a script that may     *)
(* signal cli.py has done so none begins, and the containers of those that *)
(* go on were up when root's script ran docker ps.                         *)
ScriptInv ==
    /\ \A c \in Container : Simulating(c) => status[c] = "up"
    /\ script \in {"KILL", "docker", "ready"} /\ place # "user" => ~up
    /\ script = "docker" => place # "coordinator"
    /\ script \in {"docker", "ready"} /\ place = "root" =>
          \A c \in Container : Simulating(c) => c \in seen

(* A container whose owner lets go of it in this step lives on only if it  *)
(* is noted as lost.                                                       *)
LetGo(c) == status'[c] \in {"starting", "up"} => c \in lost'

IInv == TypeOK /\ NothingLeftBehind /\ ScriptInv

-----------------------------------------------------------------------------
LEMMA HeldIsOwned == \A c : c \in Held <=> \E w \in Worker : pc[w] # "idle" /\ id[w] = c
  BY DEF Held

LEMMA InitIInv == Init => IInv
<1> SUFFICES ASSUME Init
             PROVE  IInv
  OBVIOUS
<1>1. TypeOK
  <2>1. campaigns \in 0..MaxCampaigns
    BY CampaignsAssumption DEF Init
  <2>2. up \in BOOLEAN /\ {listed, seen, lost} \subseteq SUBSET Container
    BY DEF Init
  <2>3. pc \in [Worker -> {"idle", "create", "cookie", "prepare", "exec", "wait", "find",
                           "process", "remove"}]
    BY DEF Init
  <2>4. \A w \in Worker : pc[w] = "idle"
    BY DEF Init
  <2>5. /\ id \in [Worker -> Container \union {NoContainer}]
        /\ status \in [Container -> {"none", "starting", "failed", "up", "gone"}]
        /\ flight \in [Container -> {"none", "flying", "hung", "over"}]
    BY DEF Init
  <2> QED
    BY <2>1, <2>2, <2>3, <2>4, <2>5 DEF Init, TypeOK
<1>2. NothingLeftBehind
  BY DEF Init, NothingLeftBehind, Alive
<1>3. ScriptInv
  BY DEF Init, ScriptInv, Simulating
<1> QED
  BY <1>1, <1>2, <1>3 DEF IInv

(* What docker rm -f does to the daemon's state. *)
LEMMA RemovalFacts ==
  ASSUME TypeOK, NEW cs \in SUBSET Container
  PROVE  /\ Without(cs) \in [Container -> {"none", "starting", "failed", "up", "gone"}]
         /\ Landed(cs) \in [Container -> {"none", "flying", "hung", "over"}]
         /\ \A c \in cs : Without(cs)[c] = "gone" /\ Landed(cs)[c] \in {"none", "over"}
         /\ \A c \in Container \ cs : Without(cs)[c] = status[c] /\ Landed(cs)[c] = flight[c]
  BY DEF TypeOK, Without, Landed

(* A step of one thread that leaves its container alone or has it removed, *)
(* begins no simulation and lets go of no container that goes on living.   *)
LEMMA ThreadFrame ==
  ASSUME IInv, NEW w \in Worker, pc[w] # "idle",
         \/ \E place2 \in {"cookie", "prepare", "exec", "wait", "find", "process", "remove"} :
               Goto(w, place2)
         \/ Leave(w) /\ LetGo(id[w]),
         UNCHANGED <<campaigns, up, script, place, listed, seen>>,
         \/ UNCHANGED <<status, flight>>
         \/ status' = Without({id[w]}) /\ flight' = Landed({id[w]}),
         UNCHANGED lost \/ Lose({id[w]})
  PROVE  IInv'
<1> USE DEF IInv
<1>1. id[w] \in Container
  BY DEF TypeOK
<1>2. PICK place2 \in {"idle", "cookie", "prepare", "exec", "wait", "find", "process", "remove"} :
        /\ pc' = [pc EXCEPT ![w] = place2]
        /\ \/ place2 # "idle" /\ id' = id
           \/ /\ place2 = "idle" /\ id' = [id EXCEPT ![w] = NoContainer]
              /\ LetGo(id[w])
  BY DEF Goto, Leave
<1>3. TypeOK'
  <2>1. /\ status' \in [Container -> {"none", "starting", "failed", "up", "gone"}]
        /\ flight' \in [Container -> {"none", "flying", "hung", "over"}]
    BY <1>1, RemovalFacts DEF TypeOK
  <2>2. /\ pc' \in [Worker -> {"idle", "create", "cookie", "prepare", "exec", "wait", "find",
                               "process", "remove"}]
        /\ id' \in [Worker -> Container \union {NoContainer}]
    BY <1>2 DEF TypeOK
  <2>3. \A v \in Worker : pc'[v] # "idle" => id'[v] \in Container
    BY <1>1, <1>2 DEF TypeOK
  <2>4. lost' \subseteq Container
    BY <1>1 DEF TypeOK, Lose
  <2> QED
    BY <2>1, <2>2, <2>3, <2>4 DEF TypeOK
<1>4. NothingLeftBehind'
  <2> SUFFICES ASSUME NEW c \in Container, Alive(c)'
               PROVE  (c \in Held \/ c \in lost)'
    BY DEF NothingLeftBehind
  <2>1. Alive(c)
    BY <1>1, RemovalFacts DEF Alive
  <2>2. CASE c \in lost
    BY <2>2 DEF Lose
  <2>3. CASE c \in Held
    <3>1. PICK v \in Worker : pc[v] # "idle" /\ id[v] = c
      BY <2>3, HeldIsOwned
    <3>2. CASE v = w /\ place2 = "idle"
      BY <1>2, <3>1, <3>2 DEF LetGo, Alive
    <3>3. CASE v # w \/ place2 # "idle"
      <4>1. pc'[v] # "idle" /\ id'[v] = c
        BY <1>2, <3>1, <3>3 DEF TypeOK
      <4> QED
        BY <4>1 DEF Held
    <3> QED
      BY <3>2, <3>3
  <2> QED
    BY <2>1, <2>2, <2>3 DEF NothingLeftBehind
<1>5. ScriptInv'
  BY <1>1, RemovalFacts DEF ScriptInv, Simulating
<1> QED
  BY <1>3, <1>4, <1>5

(* A container whose removal was asked for is gone or noted as lost. *)
LEMMA RemoveContainerFacts ==
  ASSUME IInv, NEW w \in Worker, id[w] \in Container, RemoveContainer(w)
  PROVE  /\ \/ UNCHANGED <<status, flight>>
            \/ status' = Without({id[w]}) /\ flight' = Landed({id[w]})
         /\ UNCHANGED lost \/ Lose({id[w]})
         /\ LetGo(id[w])
<1>1. CASE status' = Without({id[w]}) /\ flight' = Landed({id[w]}) /\ UNCHANGED lost
  BY <1>1, RemovalFacts DEF IInv, LetGo
<1>2. CASE UNCHANGED <<status, flight>> /\ Lose({id[w]})
  BY <1>2 DEF Lose, Alive, LetGo
<1> QED
  BY <1>1, <1>2 DEF RemoveContainer, dockerVars

LEMMA DockerRunStep == ASSUME IInv, NEW w \in Worker, DockerRun(w)
                       PROVE  IInv'
<1> USE DEF IInv
<1>1. PICK c \in Container : /\ status[c] = "none"
                             /\ status' = [status EXCEPT ![c] = "starting"]
                             /\ id' = [id EXCEPT ![w] = c]
  BY DEF DockerRun
<1>2. /\ up /\ pc[w] = "idle" /\ pc' = [pc EXCEPT ![w] = "create"]
      /\ UNCHANGED <<campaigns, up, script, place, listed, seen, flight, lost>>
  BY DEF DockerRun, scriptVars
<1>3. TypeOK'
  BY <1>1, <1>2 DEF TypeOK
<1>4. NothingLeftBehind'
  <2> SUFFICES ASSUME NEW d \in Container, Alive(d)'
               PROVE  (d \in Held \/ d \in lost)'
    BY DEF NothingLeftBehind
  <2>1. CASE d = c
    <3>1. pc'[w] # "idle" /\ id'[w] = c
      BY <1>1, <1>2 DEF TypeOK
    <3> QED
      BY <2>1, <3>1 DEF Held
  <2>2. CASE d # c
    <3>1. Alive(d)
      BY <1>1, <2>2 DEF Alive, TypeOK
    <3>2. CASE d \in lost
      BY <1>2, <3>2
    <3>3. CASE d \in Held
      <4>1. PICK v \in Worker : pc[v] # "idle" /\ id[v] = d
        BY <3>3, HeldIsOwned
      <4>2. pc'[v] # "idle" /\ id'[v] = d
        BY <1>1, <1>2, <4>1 DEF TypeOK
      <4> QED
        BY <4>2 DEF Held
    <3> QED
      BY <3>1, <3>2, <3>3 DEF NothingLeftBehind
  <2> QED
    BY <2>1, <2>2
<1>5. ScriptInv'
  BY <1>1, <1>2 DEF ScriptInv, Simulating, TypeOK
<1> QED
  BY <1>3, <1>4, <1>5

(* The further steps of an attempt. *)
LEMMA AttemptStep == ASSUME IInv, NEW w \in Worker, ThreadStep(w), ~DockerRun(w), ~Exec(w)
                     PROVE  IInv'
<1> USE DEF scriptVars, dockerVars
<1>1. id[w] \in Container \/ pc[w] = "idle"
  BY DEF IInv, TypeOK
<1>2. CASE Created(w)
  <2>1. /\ pc[w] = "create" /\ status[id[w]] # "starting"
        /\ UNCHANGED <<campaigns, up, script, place, listed, seen, status, flight, lost>>
    BY <1>2 DEF Created
  <2>2. CASE status[id[w]] = "failed" /\ Leave(w)
    <3>1. LetGo(id[w])
      BY <2>1, <2>2 DEF LetGo
    <3> QED
      BY <2>1, <2>2, <3>1, ThreadFrame
  <2>3. CASE Goto(w, "cookie") \/ Goto(w, "prepare")
    BY <2>1, <2>3, ThreadFrame
  <2> QED
    BY <1>2, <2>2, <2>3 DEF Created
<1>3. CASE CopyCookie(w)
  <2>1. /\ pc[w] = "cookie"
        /\ UNCHANGED <<campaigns, up, script, place, listed, seen>>
    BY <1>3 DEF CopyCookie
  <2>2. CASE Goto(w, "prepare") /\ UNCHANGED <<status, flight, lost>>
    BY <2>1, <2>2, ThreadFrame
  <2>3. CASE Leave(w) /\ RemoveContainer(w)
    BY <1>1, <2>1, <2>3, RemoveContainerFacts, ThreadFrame
  <2> QED
    BY <1>3, <2>2, <2>3 DEF CopyCookie
<1>4. CASE Prepare(w)
  <2>1. /\ pc[w] = "prepare"
        /\ UNCHANGED <<campaigns, up, script, place, listed, seen, status, flight>>
    BY <1>4 DEF Prepare
  <2>2. CASE Goto(w, "exec") /\ UNCHANGED lost
    BY <2>1, <2>2, ThreadFrame
  <2>3. CASE Leave(w) /\ Lose({id[w]})
    <3>1. LetGo(id[w])
      BY <2>1, <2>3 DEF Lose, Alive, LetGo
    <3> QED
      BY <2>1, <2>3, <3>1, ThreadFrame
  <2> QED
    BY <1>4, <2>2, <2>3 DEF Prepare
<1>5. CASE Executed(w) \/ FindLog(w) \/ ProcessOutput(w)
  <2>1. /\ pc[w] # "idle"
        /\ UNCHANGED <<campaigns, up, script, place, listed, seen, status, flight, lost>>
        /\ Goto(w, "process") \/ Goto(w, "find") \/ Goto(w, "remove")
    BY <1>5 DEF Executed, FindLog, ProcessOutput
  <2> QED
    BY <2>1, ThreadFrame
<1>6. CASE Remove(w)
  <2>1. /\ pc[w] = "remove" /\ Leave(w) /\ RemoveContainer(w)
        /\ UNCHANGED <<campaigns, up, script, place, listed, seen>>
    BY <1>6 DEF Remove
  <2> QED
    BY <1>1, <2>1, RemoveContainerFacts, ThreadFrame
<1> QED
  BY <1>2, <1>3, <1>4, <1>5, <1>6 DEF ThreadStep

(* A simulation begins only in a container that is up, under a campaign    *)
(* that is up: not behind the back of a script that has killed it.         *)
LEMMA ExecStep == ASSUME IInv, NEW w \in Worker, Exec(w)
                  PROVE  IInv'
<1> USE DEF IInv
<1>1. /\ up /\ pc[w] = "exec" /\ id[w] \in Container
      /\ UNCHANGED <<campaigns, up, script, place, listed, seen, id, status, lost>>
  BY DEF Exec, scriptVars, TypeOK, Goto
<1>2. CASE Goto(w, "process") /\ flight' = flight
  BY <1>1, <1>2, ThreadFrame
<1>3. CASE /\ status[id[w]] = "up" /\ Goto(w, "wait")
           /\ flight' = [flight EXCEPT ![id[w]] = "flying"]
  <2>1. pc' = [pc EXCEPT ![w] = "wait"]
    BY <1>3 DEF Goto
  <2>2. TypeOK'
    BY <1>1, <1>3, <2>1 DEF TypeOK
  <2>3. \A v \in Worker : pc[v] # "idle" => pc'[v] # "idle"
    BY <2>1 DEF TypeOK
  <2>4. Held \subseteq Held'
    BY <1>1, <2>3 DEF Held
  <2>5. NothingLeftBehind'
    BY <1>1, <2>4 DEF NothingLeftBehind, Alive
  <2>6. ScriptInv'
    BY <1>1, <1>3 DEF ScriptInv, Simulating, TypeOK
  <2> QED
    BY <2>2, <2>5, <2>6
<1> QED
  BY <1>2, <1>3 DEF Exec

(* The daemon starts a container, a simulation ends or hangs, a container  *)
(* dies: nothing comes to life.                                            *)
LEMMA DaemonStep ==
  ASSUME IInv, NEW c \in Container,
         Starts(c) \/ FlightEnds(c) \/ FlightHangs(c) \/ ContainerDies(c)
  PROVE  IInv'
<1> USE DEF IInv, scriptVars, threadVars
<1>1. UNCHANGED <<campaigns, up, script, place, listed, seen, pc, id, lost>>
  BY DEF Starts, FlightEnds, FlightHangs, ContainerDies
<1>2. /\ status' \in [Container -> {"none", "starting", "failed", "up", "gone"}]
      /\ flight' \in [Container -> {"none", "flying", "hung", "over"}]
      /\ \A d \in Container : Alive(d)' => Alive(d)
      /\ \A d \in Container : Simulating(d)' => Simulating(d) /\ status'[d] = "up"
  <2>1. CASE Starts(c)
    <3>1. PICK result \in {"up", "failed"} : status' = [status EXCEPT ![c] = result]
      BY <2>1 DEF Starts
    <3> QED
      BY <2>1, <3>1 DEF Starts, TypeOK, Alive, ScriptInv, Simulating
  <2>2. CASE FlightEnds(c)
    BY <2>2 DEF FlightEnds, TypeOK, Alive, ScriptInv, Simulating
  <2>3. CASE FlightHangs(c)
    BY <2>3 DEF FlightHangs, TypeOK, Alive, ScriptInv, Simulating
  <2>4. CASE ContainerDies(c)
    BY <2>4, RemovalFacts DEF ContainerDies, TypeOK, Alive, ScriptInv, Simulating
  <2> QED
    BY <2>1, <2>2, <2>3, <2>4
<1>3. TypeOK'
  BY <1>1, <1>2 DEF TypeOK
<1>4. NothingLeftBehind'
  BY <1>1, <1>2 DEF NothingLeftBehind, Held
<1>5. ScriptInv'
  BY <1>1, <1>2 DEF ScriptInv, Simulating
<1> QED
  BY <1>3, <1>4, <1>5

(* The death of cli.py loses what its threads held. *)
LEMMA KilledFacts ==
  ASSUME IInv, Killed, status' = status
  PROVE  /\ ~up' /\ up' \in BOOLEAN
         /\ pc' \in [Worker -> {"idle"}] /\ \A w \in Worker : pc'[w] = "idle"
         /\ id' \in [Worker -> {NoContainer}]
         /\ lost' \subseteq Container
         /\ NothingLeftBehind'
<1>1. /\ ~up' /\ up' \in BOOLEAN
      /\ pc' \in [Worker -> {"idle"}] /\ \A w \in Worker : pc'[w] = "idle"
      /\ id' \in [Worker -> {NoContainer}]
  BY DEF Killed
<1>2. lost' = lost \union {c \in Held : Alive(c)}
  BY DEF Killed, Lose
<1>3. Held \subseteq Container
  BY DEF IInv, TypeOK, Held
<1>4. NothingLeftBehind'
  BY <1>2 DEF IInv, NothingLeftBehind, Alive
<1> QED
  BY <1>1, <1>2, <1>3, <1>4 DEF IInv, TypeOK

(* Campaigns begin, end and are killed. *)
LEMMA CampaignStep == ASSUME IInv, StartCampaign \/ EndCampaign \/ CliKilled \/ StartScript
                      PROVE  IInv'
<1> USE DEF IInv, scriptVars, threadVars, dockerVars
<1>1. CASE StartCampaign
  <2>1. TypeOK'
    BY <1>1, CampaignsAssumption DEF StartCampaign, TypeOK
  <2>2. NothingLeftBehind'
    BY <1>1 DEF StartCampaign, NothingLeftBehind, Alive, Held
  <2>3. ScriptInv'
    BY <1>1 DEF StartCampaign, ScriptInv, Simulating
  <2> QED
    BY <2>1, <2>2, <2>3
<1>2. CASE EndCampaign
  <2>1. TypeOK'
    BY <1>2 DEF EndCampaign, TypeOK
  <2>2. NothingLeftBehind'
    BY <1>2 DEF EndCampaign, NothingLeftBehind, Alive, Held
  <2>3. ScriptInv'
    BY <1>2 DEF EndCampaign, ScriptInv, Simulating
  <2> QED
    BY <2>1, <2>2, <2>3
<1>3. CASE CliKilled
  <2>1. Killed /\ UNCHANGED <<campaigns, script, place, listed, seen, status, flight>>
    BY <1>3 DEF CliKilled
  <2>2. TypeOK'
    BY <2>1, KilledFacts DEF TypeOK
  <2>3. ScriptInv'
    BY <2>1, KilledFacts DEF ScriptInv, Simulating
  <2> QED
    BY <2>1, <2>2, <2>3, KilledFacts
<1>4. CASE StartScript
  <2>1. TypeOK'
    BY <1>4 DEF StartScript, TypeOK
  <2>2. NothingLeftBehind'
    BY <1>4 DEF StartScript, NothingLeftBehind, Alive, Held
  <2>3. ScriptInv'
    BY <1>4 DEF StartScript, ScriptInv, Simulating
  <2> QED
    BY <2>1, <2>2, <2>3
<1> QED
  BY <1>1, <1>2, <1>3, <1>4

(* Signals end simulations and begin none. *)
LEMMA SignalFacts ==
  ASSUME TypeOK, SignalFlights
  PROVE  /\ flight' \in [Container -> {"none", "flying", "hung", "over"}]
         /\ \A c \in Container : Simulating(c)' => Simulating(c)
<1>1. PICK cs \in SUBSET Container :
        flight' = [c \in Container |->
            IF c \in cs /\ flight[c] \in {"flying", "hung"} THEN "over" ELSE flight[c]]
  BY DEF SignalFlights
<1> QED
  BY <1>1 DEF TypeOK, Simulating

(* The script: unless it may not, it kills cli.py before the containers    *)
(* are listed, and every simulation left then is in one that is up.        *)
LEMMA ScriptStep == ASSUME IInv, ScriptTerm \/ ScriptKill \/ ScriptStop
                    PROVE  IInv'
<1> USE DEF IInv, threadVars
<1>1. CASE ScriptTerm
  <2>1. /\ SignalFlights /\ script' = "KILL"
        /\ UNCHANGED <<campaigns, place, listed, seen, status>>
    BY <1>1 DEF ScriptTerm
  <2>2. CASE place = "user" /\ UNCHANGED <<up, pc, id, lost>>
    <3>1. TypeOK'
      BY <2>1, <2>2, SignalFacts DEF TypeOK
    <3>2. NothingLeftBehind'
      BY <2>1, <2>2 DEF NothingLeftBehind, Alive, Held
    <3>3. ScriptInv'
      BY <2>1, <2>2, SignalFacts DEF ScriptInv, Simulating
    <3> QED
      BY <3>1, <3>2, <3>3
  <2>3. CASE Killed
    <3>1. TypeOK'
      BY <2>1, <2>3, KilledFacts, SignalFacts DEF TypeOK
    <3>2. ScriptInv'
      BY <2>1, <2>3, KilledFacts, SignalFacts DEF ScriptInv, Simulating
    <3> QED
      BY <2>1, <2>3, <3>1, <3>2, KilledFacts
  <2> QED
    BY <1>1, <2>2, <2>3 DEF ScriptTerm
<1>2. CASE ScriptKill
  <2>1. /\ script = "KILL" /\ SignalFlights
        /\ UNCHANGED <<campaigns, up, place, pc, id, status, lost>>
    BY <1>2 DEF ScriptKill
  <2>2. \/ /\ place # "coordinator" /\ script' = "docker" /\ listed' \subseteq Container
           /\ seen' \subseteq Container
           /\ place = "root" => seen' = {c \in Container : status[c] = "up"}
        \/ place = "coordinator" /\ script' = "ready" /\ UNCHANGED <<listed, seen>>
    BY <1>2 DEF ScriptKill, DockerPs, Running
  <2>3. TypeOK'
    BY <2>1, <2>2, SignalFacts DEF TypeOK
  <2>4. NothingLeftBehind'
    BY <2>1 DEF NothingLeftBehind, Alive, Held
  <2>5. ScriptInv'
    BY <2>1, <2>2, SignalFacts DEF ScriptInv, Simulating
  <2> QED
    BY <2>3, <2>4, <2>5
<1>3. CASE ScriptStop
  <2>1. PICK stopped \in SUBSET listed : status' = Without(stopped) /\ flight' = Landed(stopped)
    BY <1>3 DEF ScriptStop
  <2>2. /\ script = "docker" /\ script' = "ready" /\ listed' = {}
        /\ UNCHANGED <<campaigns, up, place, seen, pc, id, lost>>
    BY <1>3 DEF ScriptStop
  <2>3. stopped \in SUBSET Container
    BY DEF TypeOK
  <2>4. TypeOK'
    BY <2>1, <2>2, <2>3, RemovalFacts DEF TypeOK
  <2>5. NothingLeftBehind'
    BY <2>1, <2>2, <2>3, RemovalFacts DEF NothingLeftBehind, Alive, Held
  <2>6. ScriptInv'
    BY <2>1, <2>2, <2>3, RemovalFacts DEF ScriptInv, Simulating
  <2> QED
    BY <2>4, <2>5, <2>6
<1> QED
  BY <1>1, <1>2, <1>3

LEMMA NextIInv == IInv /\ [Next]_vars => IInv'
<1> SUFFICES ASSUME IInv, [Next]_vars
             PROVE  IInv'
  OBVIOUS
<1>1. ASSUME NEW w \in Worker, ThreadStep(w)
      PROVE  IInv'
  BY <1>1, DockerRunStep, ExecStep, AttemptStep
<1>2. ASSUME NEW c \in Container,
             Starts(c) \/ FlightEnds(c) \/ FlightHangs(c) \/ ContainerDies(c)
      PROVE  IInv'
  BY <1>2, DaemonStep
<1>3. CASE StartCampaign \/ EndCampaign \/ CliKilled \/ StartScript
  BY <1>3, CampaignStep
<1>4. CASE ScriptTerm \/ ScriptKill \/ ScriptStop
  BY <1>4, ScriptStep
<1>5. CASE UNCHANGED vars
  BY <1>5 DEF vars, IInv, TypeOK, NothingLeftBehind, Alive, Held, ScriptInv, Simulating
<1> QED
  BY <1>1, <1>2, <1>3, <1>4, <1>5 DEF Next

-----------------------------------------------------------------------------
(* The inductive invariant holds in every reachable state. *)
THEOREM Invariance == Spec => []IInv
<1> QED
  BY InitIInv, NextIInv, PTL DEF Spec

(* The state keeps its types. *)
THEOREM TypeCorrect == Spec => []TypeOK
<1>1. IInv => TypeOK
  BY DEF IInv
<1> QED
  BY Invariance, <1>1, PTL

(* A container that lives is held by a running attempt or was lost in one  *)
(* of the ways the code does not guard against: a set-up that fails after  *)
(* the cookie, a docker rm that fails, the death of the coordinator.       *)
THEOREM ContainersAccountedFor == Spec => []NothingLeftBehind
<1>1. IInv => NothingLeftBehind
  BY DEF IInv
<1> QED
  BY Invariance, <1>1, PTL

(* After root's script on the host a simulation can only be in a container *)
(* that was up when docker ps ran: none is, or gets, under way in one that *)
(* was starting then, whatever the grep dropped and docker failed to do.   *)
THEOREM HostScriptLeavesNoStarter == Spec => []NoFlightBehindScript
<1>1. IInv => NoFlightBehindScript
  BY DEF IInv, ScriptInv, NoFlightBehindScript, Simulating
<1> QED
  BY Invariance, <1>1, PTL
=============================================================================
