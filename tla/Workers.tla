------------------------------- MODULE Workers -------------------------------
(***************************************************************************)
(* The worker containers of a campaign (ParallelDockerAgent, driven by the *)
(* threads of runParallelBatch through TestCase.execute), the Docker       *)
(* daemon, and what stops a campaign from outside: kill_simulations.sh, on *)
(* the host or, through run.sh --sim, in the coordinator's container.      *)
(*                                                                         *)
(* A thread keeps the id of its container in its agent; the daemon knows   *)
(* the containers and nothing of threads.  A container outlives the        *)
(* thread, the coordinator and the campaign unless somebody removes it.    *)
(***************************************************************************)
EXTENDS Naturals, FiniteSets

CONSTANTS
    Worker,         \* the threads of the pool (GA_WORKERS)
    MaxContainers,  \* bound: how many containers are ever created
    MaxCampaigns,   \* bound: how many campaigns are started
    UseGPU          \* SIM_WORKER_GPU

ASSUME ContainersAssumption == MaxContainers \in Nat
ASSUME CampaignsAssumption == MaxCampaigns \in Nat
ASSUME SwitchAssumption == UseGPU \in BOOLEAN

Container == 1..MaxContainers
NoContainer == 0

VARIABLES
    campaigns,  \* how many campaigns have been started
    up,         \* is python3 cli.py running
    script,     \* kill_simulations.sh: "out", "TERM", "KILL", "docker", "ready"
    place,      \* where the script runs: in the "coordinator", or on the host by "root" or a "user"
    listed,     \* the containers its docker ps matched
    seen,       \* history: those that were up when root's script ran docker ps
    pc,         \* thread -> where it is in TestCase.execute
    id,         \* thread -> the container it asked for
    status,     \* container -> "none", "starting", "failed", "up" or "gone"
    flight,     \* container -> "none", "flying", "hung" or "over"
    lost        \* history: the live containers whose owner failed to keep or to remove them

vars == <<campaigns, up, script, place, listed, seen, pc, id, status, flight, lost>>

threadVars == <<pc, id>>
scriptVars == <<script, place, listed, seen>>
dockerVars == <<status, flight>>

Init ==
    /\ campaigns = 0
    /\ up = FALSE
    /\ script = "out"
    /\ place = "coordinator"
    /\ listed = {}
    /\ seen = {}
    /\ pc = [w \in Worker |-> "idle"]
    /\ id = [w \in Worker |-> NoContainer]
    /\ status = [c \in Container |-> "none"]
    /\ flight = [c \in Container |-> "none"]
    /\ lost = {}

Alive(c) == status[c] \in {"starting", "up"}

(* docker rm -f: the container is gone, and whatever ran in it over. *)
Without(cs) == [c \in Container |-> IF c \in cs THEN "gone" ELSE status[c]]
Landed(cs) == [c \in Container |-> IF c \in cs THEN "over" ELSE flight[c]]

Goto(w, place2) == pc' = [pc EXCEPT ![w] = place2] /\ UNCHANGED id

(* The attempt is over; its agent is gone with the id it knew. *)
Leave(w) == pc' = [pc EXCEPT ![w] = "idle"] /\ id' = [id EXCEPT ![w] = NoContainer]

(* The threads that held these containers have no more to do with them. *)
Lose(cs) == lost' = lost \union {c \in cs : Alive(c)}

(* A thread has its container removed; whether docker rm worked is not     *)
(* looked at.                                                              *)
RemoveContainer(w) ==
    \/ status' = Without({id[w]}) /\ flight' = Landed({id[w]}) /\ UNCHANGED lost
    \/ UNCHANGED dockerVars /\ Lose({id[w]})

-----------------------------------------------------------------------------
(* One attempt in a thread of the pool. *)

(* TestCase.execute builds the agent, which calls docker run. *)
DockerRun(w) ==
    /\ up /\ pc[w] = "idle"
    /\ \E c \in Container :
          /\ status[c] = "none"
          /\ \A d \in Container : d < c => status[d] # "none"
          /\ status' = [status EXCEPT ![c] = "starting"]
          /\ id' = [id EXCEPT ![w] = c]
    /\ pc' = [pc EXCEPT ![w] = "create"]
    /\ UNCHANGED <<campaigns, up, scriptVars, flight, lost>>

(* docker run returns: the container is up, or create_container raises. *)
Created(w) ==
    /\ up /\ pc[w] = "create" /\ status[id[w]] # "starting"
    /\ IF status[id[w]] = "failed" THEN Leave(w)
       ELSE Goto(w, IF UseGPU THEN "cookie" ELSE "prepare")
    /\ UNCHANGED <<campaigns, up, scriptVars, dockerVars, lost>>

(* Mutant: the exception leaves the container behind. *)
CopyCookieKeeps(w) ==
    /\ up /\ pc[w] = "cookie"
    /\ \/ status[id[w]] = "up" /\ Goto(w, "prepare")
       \/ Leave(w)
    /\ UNCHANGED <<campaigns, up, scriptVars, dockerVars, lost>>

(* docker cp of the X cookie; if it fails create_container raises, after a *)
(* docker rm of whose success it takes no notice.                          *)
CopyCookie(w) ==
    /\ up /\ pc[w] = "cookie"
    /\ \/ status[id[w]] = "up" /\ Goto(w, "prepare") /\ UNCHANGED <<dockerVars, lost>>
       \/ Leave(w) /\ RemoveContainer(w)
    /\ UNCHANGED <<campaigns, up, scriptVars>>

(* The rest of the inherited constructor copies the test into the          *)
(* container.  It may raise: run is then never called, nor its finally.    *)
Prepare(w) ==
    /\ up /\ pc[w] = "prepare"
    /\ \/ status[id[w]] = "up" /\ Goto(w, "exec") /\ UNCHANGED lost
       \/ Leave(w) /\ Lose({id[w]})
    /\ UNCHANGED <<campaigns, up, scriptVars, dockerVars>>

(* docker exec starts the simulation, or fails at once. *)
Exec(w) ==
    /\ up /\ pc[w] = "exec"
    /\ IF status[id[w]] = "up"
       THEN flight' = [flight EXCEPT ![id[w]] = "flying"] /\ Goto(w, "wait")
       ELSE Goto(w, "process") /\ UNCHANGED flight
    /\ UNCHANGED <<campaigns, up, scriptVars, status, lost>>

(* docker exec returns, with any status and with or without a log line in  *)
(* its output; without one the container is searched for a log.            *)
Executed(w) ==
    /\ up /\ pc[w] = "wait" /\ flight[id[w]] = "over"
    /\ Goto(w, "process") \/ Goto(w, "find")
    /\ UNCHANGED <<campaigns, up, scriptVars, dockerVars, lost>>

(* Mutant: the search is repeated until the container has a log. *)
FindLogAgain(w) ==
    /\ up /\ pc[w] = "find" /\ status[id[w]] = "up"
    /\ Goto(w, "process") \/ Goto(w, "remove")
    /\ UNCHANGED <<campaigns, up, scriptVars, dockerVars, lost>>

(* find prints the logs, or nothing (an error is an empty list); a line    *)
(* that is no time stamp raises.                                           *)
FindLog(w) ==
    /\ up /\ pc[w] = "find"
    /\ Goto(w, "process") \/ Goto(w, "remove")
    /\ UNCHANGED <<campaigns, up, scriptVars, dockerVars, lost>>

(* process_output: with results, without any, or an exception. *)
ProcessOutput(w) ==
    /\ up /\ pc[w] = "process"
    /\ Goto(w, "remove")
    /\ UNCHANGED <<campaigns, up, scriptVars, dockerVars, lost>>

(* The finally clause. *)
Remove(w) ==
    /\ up /\ pc[w] = "remove"
    /\ RemoveContainer(w)
    /\ Leave(w)
    /\ UNCHANGED <<campaigns, up, scriptVars>>

-----------------------------------------------------------------------------
(* The daemon and the simulations. *)

(* docker run -td --rm succeeds or fails. *)
Starts(c) ==
    /\ status[c] = "starting"
    /\ \E result \in {"up", "failed"} : status' = [status EXCEPT ![c] = result]
    /\ UNCHANGED <<campaigns, up, scriptVars, threadVars, flight, lost>>

(* The simulation ends, well or badly. *)
FlightEnds(c) ==
    /\ flight[c] = "flying"
    /\ flight' = [flight EXCEPT ![c] = "over"]
    /\ UNCHANGED <<campaigns, up, scriptVars, threadVars, status, lost>>

(* It hangs, and nothing in the coordinator notices. *)
FlightHangs(c) ==
    /\ flight[c] = "flying"
    /\ flight' = [flight EXCEPT ![c] = "hung"]
    /\ UNCHANGED <<campaigns, up, scriptVars, threadVars, status, lost>>

(* A worker container dies by itself; with --rm it is removed. *)
ContainerDies(c) ==
    /\ status[c] = "up"
    /\ status' = Without({c})
    /\ flight' = Landed({c})
    /\ UNCHANGED <<campaigns, up, scriptVars, threadVars, lost>>

-----------------------------------------------------------------------------
(* Campaigns and the script that stops them. *)

(* run.sh --sim starts cli.py once its call of the script is over; so does *)
(* a user who has run the script on the host.  One campaign at a time.     *)
StartCampaign ==
    /\ script = "ready" /\ ~up /\ campaigns < MaxCampaigns
    /\ campaigns' = campaigns + 1
    /\ up' = TRUE
    /\ script' = "out"
    /\ place' = "coordinator" /\ seen' = {}
    /\ UNCHANGED <<listed, threadVars, dockerVars, lost>>

(* generate has returned: every thread of the pool has ended. *)
EndCampaign ==
    /\ up
    /\ \A w \in Worker : pc[w] = "idle"
    /\ up' = FALSE
    /\ UNCHANGED <<campaigns, scriptVars, threadVars, dockerVars, lost>>

Held == {id[w] : w \in {v \in Worker : pc[v] # "idle"}}

(* A signal ends cli.py with all its threads; no finally clause runs. *)
Killed ==
    /\ up' = FALSE
    /\ Lose(Held)
    /\ pc' = [w \in Worker |-> "idle"]
    /\ id' = [w \in Worker |-> NoContainer]

CliKilled ==
    /\ up
    /\ Killed
    /\ UNCHANGED <<campaigns, scriptVars, dockerVars>>

(* The script is started in the coordinator, or on the host by root or by  *)
(* a user.                                                                 *)
StartScript ==
    /\ script \in {"out", "ready"}
    /\ script' = "TERM"
    /\ place' \in {"coordinator", "root", "user"}
    /\ seen' = {}
    /\ UNCHANGED <<campaigns, up, listed, threadVars, dockerVars, lost>>

(* Processes in a worker container are seen from the host only and belong  *)
(* to root; any of them may go on, and its flight with it.                 *)
SignalFlights ==
    \E cs \in SUBSET Container :
        /\ place # "root" => cs = {}
        /\ flight' = [c \in Container |->
              IF c \in cs /\ flight[c] \in {"flying", "hung"} THEN "over" ELSE flight[c]]

(* Mutant: the list of patterns lacks "python3 cli.py". *)
ScriptTermSparesCli ==
    /\ script = "TERM"
    /\ SignalFlights
    /\ script' = "KILL"
    /\ UNCHANGED <<campaigns, up, lost, place, listed, seen, pc, id, status>>

(* kill_pattern TERM.  python3 cli.py has no handler for it; it is root's, *)
(* in the coordinator's container, and a kill that a user on the host is   *)
(* not allowed goes unnoticed.                                             *)
ScriptTerm ==
    /\ script = "TERM"
    /\ IF place = "user" THEN UNCHANGED <<up, threadVars, lost>> ELSE Killed
    /\ SignalFlights
    /\ script' = "KILL"
    /\ UNCHANGED <<campaigns, place, listed, seen, status>>

Running == {c \in Container : status[c] = "up"}

(* docker ps through the grep.  A container is listed if DOCKER_IMG or the *)
(* name docker drew for it happens to match, which the image that          *)
(* docker-compose.yml names does not; none is if docker ps fails.          *)
DockerPs ==
    /\ listed' \in SUBSET Running
    /\ seen' = IF place = "root" THEN Running ELSE {}

(* kill_pattern KILL, which for cli.py has no more effect than TERM had;   *)
(* on the host docker ps is then searched.                                 *)
ScriptKill ==
    /\ script = "KILL"
    /\ SignalFlights
    /\ IF place = "coordinator"
       THEN script' = "ready" /\ UNCHANGED <<listed, seen>>
       ELSE script' = "docker" /\ DockerPs
    /\ UNCHANGED <<campaigns, up, place, threadVars, status, lost>>

(* docker stop of what docker ps listed, --rm removing what stops; one     *)
(* that does not is not noticed.                                           *)
ScriptStop ==
    /\ script = "docker"
    /\ \E stopped \in SUBSET listed :
          /\ status' = Without(stopped)
          /\ flight' = Landed(stopped)
    /\ listed' = {}
    /\ script' = "ready"
    /\ UNCHANGED <<campaigns, up, place, seen, threadVars, lost>>

-----------------------------------------------------------------------------
ThreadStep(w) ==
    \/ DockerRun(w)
    \/ Created(w)
    \/ CopyCookie(w)
    \/ Prepare(w)
    \/ Exec(w)
    \/ Executed(w)
    \/ FindLog(w)
    \/ ProcessOutput(w)
    \/ Remove(w)

Next ==
    \/ \E w \in Worker : ThreadStep(w)
    \/ \E c \in Container : Starts(c) \/ FlightEnds(c) \/ FlightHangs(c) \/ ContainerDies(c)
    \/ StartCampaign
    \/ EndCampaign
    \/ CliKilled
    \/ StartScript
    \/ ScriptTerm
    \/ ScriptKill
    \/ ScriptStop

(***************************************************************************)
(* Threads run on, docker run returns, a simulation that does not hang     *)
(* comes to its end.                                                       *)
(***************************************************************************)
Fairness ==
    /\ \A w \in Worker : WF_vars(ThreadStep(w))
    /\ \A c \in Container : WF_vars(Starts(c)) /\ WF_vars(FlightEnds(c))

Spec == Init /\ [][Next]_vars /\ Fairness

-----------------------------------------------------------------------------
(***************************************************************************)
(* Properties.                                                             *)
(***************************************************************************)

(* Types; a thread past docker run has asked for a container. *)
TypeOK ==
    /\ campaigns \in 0..MaxCampaigns
    /\ up \in BOOLEAN
    /\ script \in {"out", "TERM", "KILL", "docker", "ready"}
    /\ place \in {"coordinator", "root", "user"}
    /\ listed \subseteq Container
    /\ seen \subseteq Container
    /\ pc \in [Worker -> {"idle", "create", "cookie", "prepare", "exec", "wait", "find",
                          "process", "remove"}]
    /\ id \in [Worker -> Container \union {NoContainer}]
    /\ \A w \in Worker : pc[w] # "idle" => id[w] \in Container
    /\ status \in [Container -> {"none", "starting", "failed", "up", "gone"}]
    /\ flight \in [Container -> {"none", "flying", "hung", "over"}]
    /\ lost \subseteq Container

(* Whatever an attempt runs into (no cookie, no log, an unreadable log, a  *)
(* dead container), it asks for its container's removal before it is over. *)
(* What is left running was lost by a set-up that fails after the cookie,  *)
(* by a docker rm that fails, in the finally clause or on the way out of   *)
(* create_container, or by the death of the coordinator, and by nothing    *)
(* else.                                                                   *)
NothingLeftBehind == \A c \in Container : Alive(c) => c \in Held \/ c \in lost

(* No simulation begins behind the back of the script that root runs on    *)
(* the host.  One that goes on when it is over, or begins before the next  *)
(* campaign, is in a container that was up when docker ps ran, so that the *)
(* grep dropped it or docker failed to list or to stop it.  It is never in *)
(* one that was still starting then, which no docker ps prints: the owner  *)
(* of that one is dead.                                                    *)
NoFlightBehindScript ==
    script = "ready" /\ place = "root"
        => \A c \in Container : flight[c] \in {"flying", "hung"} => c \in seen

(* An attempt ends, unless its simulation hangs in a container that lives  *)
(* on: a dead container releases the thread, whatever it was waiting for,  *)
(* and a run without a log is not waited for.                              *)
AttemptsEnd ==
    \A w \in Worker :
        pc[w] # "idle" ~> \/ pc[w] = "idle"
                          \/ pc[w] = "wait" /\ flight[id[w]] = "hung" /\ status[id[w]] = "up"

(* run.sh: "Killing any leftover simulation processes...", before cli.py   *)
(* is started again.  The simulations of the killed run are in worker      *)
(* containers, which the script does not reach from the coordinator.       *)
StaleRunsKilled ==
    script = "ready" => \A c \in Container : flight[c] \notin {"flying", "hung"}

(* kill_simulations.sh:79: "Host-side cleanup: only stop sibling Aerialist *)
(* containers when we're NOT running inside a container".  It would then   *)
(* stop those that docker ps prints.  Its grep does not match the image    *)
(* docker-compose.yml names, so it lists none of them.                     *)
SiblingsStopped ==
    script = "ready" /\ place = "root" => \A c \in seen : status[c] # "up"
=============================================================================
