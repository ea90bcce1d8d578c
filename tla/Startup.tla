------------------------------- MODULE Startup -------------------------------
(***************************************************************************)
(* Starting up: processes that patch the installed Aerialist library in    *)
(* place (patchAerialist.py, run by the image build and by run.sh) and     *)
(* campaigns (cli.py), which import the library first and patch it then.   *)
(* Several may run in one container, and any of them may die at any step.  *)
(*                                                                         *)
(* A file is what the patches can tell about it: "missing", "other" (no    *)
(* anchor), "old" (the anchor, no marker), "new" (patched), "twice"        *)
(* (patched twice) or "torn" (a prefix of the patched text, perhaps empty; *)
(* such a prefix that holds the anchor of a patch also holds its marker).  *)
(***************************************************************************)
EXTENDS Naturals

CONSTANTS
    Patcher,  \* the processes that run patchAerialist.py
    Cli       \* the processes that run cli.py

ASSUME ProcessAssumption == Patcher \intersect Cli = {}

Process == Patcher \union Cli

(* patchLaunch, patchSimulator and patchDrone, in the order applyPatches   *)
(* calls them.                                                             *)
Launch == 1
Simulator == 2
Drone == 3
File == 1..3
AllDone == 4

(* The files that are Python modules of the library. *)
Module == {Simulator, Drone}

Content == {"missing", "other", "old", "new", "twice", "torn"}

VARIABLES
    file,    \* the files
    pc,      \* process -> where it is
    at,      \* process -> the patch it is at
    text,    \* process -> the text its current patch has read
    loaded   \* process -> the module texts it has imported

startupVars == <<file, pc, at, text, loaded>>

StartupInit ==
    /\ file \in [File -> {"missing", "other", "old", "new"}]
    /\ \A m \in Module : file[m] # "missing"
    /\ pc = [p \in Process |-> IF p \in Cli THEN "import" ELSE "read"]
    /\ at = [p \in Process |-> IF p \in Cli THEN Simulator ELSE Launch]
    /\ text = [p \in Process |-> "other"]
    /\ loaded = [p \in Process |-> [m \in Module |-> "other"]]

-----------------------------------------------------------------------------
(* cli.py imports the generator, which imports the agent and with it the   *)
(* modules that are to be patched; a torn module may fail to load.           *)
Import(p) ==
    /\ pc[p] = "import"
    /\ loaded' = [loaded EXCEPT ![p][at[p]] = file[at[p]]]
    /\ \/ /\ file[at[p]] = "torn"
          /\ pc' = [pc EXCEPT ![p] = "failed"]
          /\ UNCHANGED at
       \/ /\ at[p] # Drone
          /\ at' = [at EXCEPT ![p] = Drone]
          /\ UNCHANGED pc
       \/ /\ at[p] = Drone
          /\ at' = [at EXCEPT ![p] = Launch]
          /\ pc' = [pc EXCEPT ![p] = "read"]
    /\ UNCHANGED <<file, text>>

(* The next patch, or the end of applyPatches. *)
NextPatch(p) ==
    /\ at' = [at EXCEPT ![p] = @ + 1]
    /\ pc' = [pc EXCEPT ![p] = IF at[p] + 1 = AllDone THEN "done" ELSE "read"]

ToOpen(p) == pc' = [pc EXCEPT ![p] = "open"] /\ UNCHANGED at

(* Mutant: the marker is not looked for. *)
ReadWithoutMarker(p) ==
    /\ pc[p] = "read"
    /\ text' = [text EXCEPT ![p] = file[at[p]]]
    /\ IF file[at[p]] = "old" \/ (file[at[p]] = "new" /\ at[p] = Simulator)
       THEN ToOpen(p) ELSE NextPatch(p)
    /\ UNCHANGED <<file, loaded>>

(* Mutant: one patched file is taken for a patched library. *)
ReadStopsEarly(p) ==
    /\ pc[p] = "read"
    /\ text' = [text EXCEPT ![p] = file[at[p]]]
    /\ CASE file[at[p]] = "old" -> ToOpen(p)
         [] file[at[p]] = "new" -> pc' = [pc EXCEPT ![p] = "done"] /\ UNCHANGED at
         [] OTHER -> NextPatch(p)
    /\ UNCHANGED <<file, loaded>>

(* A patch reads its file and leaves it alone when it is missing, when the *)
(* marker is there or when the anchor is not.                              *)
Read(p) ==
    /\ pc[p] = "read"
    /\ text' = [text EXCEPT ![p] = file[at[p]]]
    /\ IF file[at[p]] = "old" THEN ToOpen(p) ELSE NextPatch(p)
    /\ UNCHANGED <<file, loaded>>

(* open(path, "w") truncates. *)
Open(p) ==
    /\ pc[p] = "open"
    /\ file' = [file EXCEPT ![at[p]] = "torn"]
    /\ pc' = [pc EXCEPT ![p] = "write"]
    /\ UNCHANGED <<at, text, loaded>>

(* open may be refused: the exception ends the process. *)
OpenRefused(p) ==
    /\ pc[p] = "open"
    /\ pc' = [pc EXCEPT ![p] = "failed"]
    /\ UNCHANGED <<file, at, text, loaded>>

(* What text.replace makes of a text.  Only the simulator's anchor is      *)
(* still there after the patch.                                            *)
Patched(f, t) ==
    CASE t = "old" -> "new"
      [] t = "new" /\ f = Simulator -> "twice"
      [] OTHER -> t

(* Mutant: the file is read through the handle it is written with. *)
WriteRereads(p) ==
    /\ pc[p] = "write"
    /\ file' = [file EXCEPT ![at[p]] = Patched(at[p], @)]
    /\ NextPatch(p)
    /\ UNCHANGED <<text, loaded>>

(* The new text is written and the file closed. *)
Write(p) ==
    /\ pc[p] = "write"
    /\ file' = [file EXCEPT ![at[p]] = Patched(at[p], text[p])]
    /\ NextPatch(p)
    /\ UNCHANGED <<text, loaded>>

(* A process dies; in the middle of a write it leaves a torn file. *)
Crash(p) ==
    /\ pc[p] \in {"import", "read", "open", "write", "done"}
    /\ pc' = [pc EXCEPT ![p] = IF @ = "write" THEN "broke off" ELSE "crashed"]
    /\ UNCHANGED <<file, at, text, loaded>>

Step(p) == Import(p) \/ Read(p) \/ Open(p) \/ OpenRefused(p) \/ Write(p)

StartupNext == \E p \in Process : Step(p) \/ Crash(p)

StartupSpec == StartupInit /\ [][StartupNext]_startupVars

-----------------------------------------------------------------------------
(***************************************************************************)
(* Properties.                                                             *)
(***************************************************************************)

(* Types of the files' and the processes' state. *)
StartupTypeOK ==
    /\ file \in [File -> Content]
    /\ pc \in [Process -> {"import", "read", "open", "write", "done",
                           "failed", "crashed", "broke off"}]
    /\ at \in [Process -> 1..AllDone]
    /\ text \in [Process -> Content]
    /\ loaded \in [Process -> [Module -> Content]]

(* No interleaving of starts patches a file twice, which for the simulator *)
(* would export the speed factor twice: what is written was made from a    *)
(* text without the marker, whoever has patched the file in the meantime.  *)
PatchedOnce == \A f \in File : file[f] # "twice"

WritingAt(f) == \E p \in Process : pc[p] = "write" /\ at[p] = f
BrokeOffAt(f) == \E p \in Process : pc[p] = "broke off" /\ at[p] = f

(* A truncated file is being written, or its writer died: starts that race *)
(* with each other but live leave whole files.                             *)
TornOnlyByCrash == \A f \in File : file[f] = "torn" => WritingAt(f) \/ BrokeOffAt(f)

(* A file the patches do not recognise, and one that is not there, stay    *)
(* as they are.                                                            *)
UnknownLeftAlone ==
    [][\A f \in File : file[f] \in {"missing", "other"} => file'[f] = file[f]]_startupVars

Finished(p) == pc[p] = "done"
Pending(p) == pc[p] \in {"open", "write", "broke off"}

(* Once one start has finished its patches, however many others it raced   *)
(* with and however they failed, every file that can be patched is         *)
(* patched, up to files that another start is about to write or died       *)
(* writing.                                                                *)
FinishedMeansPatched ==
    (\E p \in Process : Finished(p)) /\ (\A p \in Process : ~Pending(p))
        => \A f \in File : file[f] \notin {"old", "torn"}

(* patchAerialist.py: "All three patches must run before any Aerialist     *)
(* simulator is built".  cli.py builds them from modules it has imported   *)
(* before the patches run.                                                 *)
BuiltFromPatched ==
    \A p \in Cli : Finished(p) => \A m \in Module : loaded[p][m] # "old"
=============================================================================
