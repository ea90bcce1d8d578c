---------------------------- MODULE FilesProofs -----------------------------
(***************************************************************************)
(* The safety properties of the files that several processes share: those  *)
(* of Startup for any set of processes that patch the library, alone or    *)
(* after an import, and those of Artifacts for any number of campaigns and *)
(* tests, any length of the suite and any clock.                           *)
(***************************************************************************)
EXTENDS Startup, Artifacts, FiniteSetTheorems, TLAPS

(* Startup: the files of the library, which starts patch in place. *)

(* Where a process is in applyPatches. *)
PlaceInv ==
    \A p \in Process :
        /\ pc[p] = "import" => at[p] \in Module
        /\ pc[p] \in {"read", "open", "write"} => at[p] \in File
        /\ pc[p] = "done" => at[p] = AllDone

(* A process that is going to write has seen the anchor and no marker, and *)
(* nobody turns a file it recognised into one it would not.                *)
WriterInv ==
    \A p \in Process :
        pc[p] \in {"open", "write"} => text[p] = "old" /\ file[at[p]] \notin {"missing", "other"}

(* What a process has gone past is not unpatched any more. *)
PassedInv ==
    \A p \in Process, f \in File :
        pc[p] \in {"read", "open", "write", "done"} /\ f < at[p] => file[f] # "old"

StartupInv == StartupTypeOK /\ PlaceInv /\ WriterInv /\ PassedInv /\ PatchedOnce /\ TornOnlyByCrash

-----------------------------------------------------------------------------
LEMMA FileFacts == File \subseteq Nat /\ Module \subseteq File /\ Launch \in File
  BY DEF File, Module, Simulator, Drone, Launch

LEMMA StartupInvInit == StartupInit => StartupInv
<1> SUFFICES ASSUME StartupInit
             PROVE  StartupInv
  OBVIOUS
<1>1. StartupTypeOK
  BY DEF StartupInit, StartupTypeOK, Content, Simulator, Launch, AllDone
<1>2. PlaceInv
  BY DEF StartupInit, PlaceInv, Module, Simulator, Launch, File
<1>3. WriterInv
  BY DEF StartupInit, WriterInv
<1>4. PassedInv
  BY DEF StartupInit, PassedInv, Simulator, Launch, File
<1>5. PatchedOnce /\ TornOnlyByCrash
  BY DEF StartupInit, PatchedOnce, TornOnlyByCrash
<1> QED
  BY <1>1, <1>2, <1>3, <1>4, <1>5 DEF StartupInv

(* A step of a process that is not writing keeps every file's witness. *)
LEMMA TornFrame ==
  ASSUME TornOnlyByCrash, NEW p \in Process, pc[p] \notin {"write", "broke off"}, file' = file,
         \A q \in Process \ {p} : at'[q] = at[q] /\ pc'[q] = pc[q]
  PROVE  TornOnlyByCrash'
<1> SUFFICES ASSUME NEW f \in File, file[f] = "torn"
             PROVE  WritingAt(f)' \/ BrokeOffAt(f)'
  BY DEF TornOnlyByCrash
<1>1. PICK q \in Process : pc[q] \in {"write", "broke off"} /\ at[q] = f
  BY DEF TornOnlyByCrash, WritingAt, BrokeOffAt
<1> QED
  BY <1>1 DEF WritingAt, BrokeOffAt

(* cli.py's import reads the modules and touches no file. *)
LEMMA ImportStep == ASSUME StartupInv, NEW p \in Process, Import(p)
                    PROVE  StartupInv'
<1> USE DEF StartupInv
<1>0. /\ pc[p] = "import"
      /\ \/ pc'[p] = "failed"
         \/ pc'[p] = "import" /\ at'[p] = Drone
         \/ pc'[p] = "read" /\ at'[p] = Launch
      /\ \A q \in Process \ {p} : at'[q] = at[q] /\ pc'[q] = pc[q]
      /\ file' = file /\ text' = text
  BY DEF Import, StartupTypeOK
<1>1. at[p] \in Module
  BY DEF Import, PlaceInv
<1>2. StartupTypeOK'
  <2>1. at[p] \in File /\ file[at[p]] \in Content
    BY <1>1, FileFacts DEF StartupTypeOK
  <2>2. loaded' \in [Process -> [Module -> Content]]
    BY <1>1, <2>1 DEF Import, StartupTypeOK
  <2>3. at' \in [Process -> 1..AllDone]
    <3>1. Drone \in 1..AllDone /\ Launch \in 1..AllDone
      BY DEF Drone, Launch, AllDone
    <3> QED
      BY <3>1 DEF Import, StartupTypeOK
  <2>4. file' \in [File -> Content] /\ text' \in [Process -> Content]
    BY DEF Import, StartupTypeOK
  <2>5. pc' \in [Process -> {"import", "read", "open", "write", "done",
                            "failed", "crashed", "broke off"}]
    BY DEF Import, StartupTypeOK
  <2> QED
    BY <2>2, <2>3, <2>4, <2>5 DEF StartupTypeOK
<1>3. PlaceInv'
  BY <1>0, FileFacts DEF PlaceInv, Module
<1>4. WriterInv'
  BY DEF Import, StartupTypeOK, WriterInv
<1>5. PassedInv'
  BY <1>0 DEF PassedInv, Launch, File
<1>6. PatchedOnce'
  BY DEF Import, PatchedOnce
<1>7. TornOnlyByCrash'
  BY <1>0, TornFrame
<1> QED
  BY <1>2, <1>3, <1>4, <1>5, <1>6, <1>7

(* applyPatches moves on: to the next patch, or to its end. *)
LEMMA NextPatchFacts ==
  ASSUME StartupTypeOK, NEW p \in Process, at[p] \in File, NextPatch(p)
  PROVE  /\ at' \in [Process -> 1..AllDone]
         /\ pc' \in [Process -> {"import", "read", "open", "write", "done",
                                 "failed", "crashed", "broke off"}]
         /\ at'[p] = at[p] + 1
         /\ (pc'[p] = "read" /\ at'[p] \in File) \/ (pc'[p] = "done" /\ at'[p] = AllDone)
         /\ \A q \in Process \ {p} : at'[q] = at[q] /\ pc'[q] = pc[q]
<1>1. at[p] + 1 \in 1..AllDone /\ (at[p] + 1 # AllDone => at[p] + 1 \in File)
  BY DEF File, AllDone
<1>2. at' = [at EXCEPT ![p] = at[p] + 1] /\ at \in [Process -> 1..AllDone]
  BY DEF NextPatch, StartupTypeOK
<1>3. at' \in [Process -> 1..AllDone] /\ at'[p] = at[p] + 1
  BY <1>1, <1>2
<1>4. /\ pc' = [pc EXCEPT ![p] = IF at[p] + 1 = AllDone THEN "done" ELSE "read"]
      /\ pc \in [Process -> {"import", "read", "open", "write", "done",
                             "failed", "crashed", "broke off"}]
  BY DEF NextPatch, StartupTypeOK
<1>5. pc'[p] = IF at[p] + 1 = AllDone THEN "done" ELSE "read"
  BY <1>4
<1>6. \A q \in Process \ {p} : at'[q] = at[q] /\ pc'[q] = pc[q]
  BY <1>2, <1>4
<1>7. (pc'[p] = "read" /\ at'[p] \in File) \/ (pc'[p] = "done" /\ at'[p] = AllDone)
  <2>1. CASE at[p] + 1 = AllDone
    BY <1>3, <1>5, <2>1
  <2>2. CASE at[p] + 1 # AllDone
    BY <1>1, <1>3, <1>5, <2>2
  <2> QED
    BY <2>1, <2>2
<1>8. pc' \in [Process -> {"import", "read", "open", "write", "done",
                          "failed", "crashed", "broke off"}]
  BY <1>4
<1> QED
  BY <1>3, <1>6, <1>7, <1>8

(* A patch that finds the anchor and no marker goes on to write; any other *)
(* leaves a file that is not unpatched.                                    *)
LEMMA ReadStep == ASSUME StartupInv, NEW p \in Process, Read(p)
                  PROVE  StartupInv'
<1> USE DEF StartupInv
<1>1. at[p] \in File
  BY DEF Read, PlaceInv
<1>2. CASE file[at[p]] = "old" /\ ToOpen(p)
  <2>1. StartupTypeOK' /\ PlaceInv'
    BY <1>1, <1>2 DEF Read, ToOpen, StartupTypeOK, PlaceInv
  <2>2. WriterInv'
    BY <1>2 DEF Read, ToOpen, StartupTypeOK, WriterInv
  <2>3. PassedInv' /\ PatchedOnce'
    BY <1>2 DEF Read, ToOpen, StartupTypeOK, PassedInv, PatchedOnce
  <2>4. TornOnlyByCrash'
    BY <1>2 DEF Read, ToOpen, StartupTypeOK, TornOnlyByCrash, WritingAt, BrokeOffAt
  <2> QED
    BY <2>1, <2>2, <2>3, <2>4
<1>3. CASE file[at[p]] # "old" /\ NextPatch(p)
  <2>1. /\ pc[p] = "read" /\ file' = file /\ loaded' = loaded
        /\ text' = [text EXCEPT ![p] = file[at[p]]]
    BY DEF Read
  <2>2. StartupTypeOK' /\ PlaceInv'
    BY <1>1, <1>3, <2>1, NextPatchFacts DEF StartupTypeOK, PlaceInv
  <2>3. WriterInv' /\ PatchedOnce'
    BY <1>1, <1>3, <2>1, NextPatchFacts DEF StartupTypeOK, WriterInv, PatchedOnce
  <2>4. PassedInv'
    <3> SUFFICES ASSUME NEW q \in Process, NEW f \in File,
                        pc'[q] \in {"read", "open", "write", "done"}, f < at'[q]
                 PROVE  file[f] # "old"
      BY <2>1 DEF PassedInv
    <3>1. CASE q # p
      BY <1>1, <1>3, <3>1, NextPatchFacts DEF PassedInv
    <3>2. CASE q = p /\ f # at[p]
      <4>1. at'[p] = at[p] + 1
        BY <1>1, <1>3, NextPatchFacts
      <4>2. f < at[p]
        BY <1>1, <3>2, <4>1 DEF File
      <4> QED
        BY <2>1, <4>2 DEF PassedInv
    <3> QED
      BY <1>3, <3>1, <3>2
  <2>5. TornOnlyByCrash'
    BY <1>1, <1>3, <2>1, NextPatchFacts, TornFrame
  <2> QED
    BY <2>2, <2>3, <2>4, <2>5
<1> QED
  BY <1>2, <1>3 DEF Read

(* The truncation is answered for by the process that is about to write. *)
LEMMA OpenStep == ASSUME StartupInv, NEW p \in Process, Open(p)
                  PROVE  StartupInv'
<1> USE DEF StartupInv
<1>1. at[p] \in File
  BY DEF Open, PlaceInv
<1>2. StartupTypeOK'
  BY <1>1 DEF Open, StartupTypeOK, Content
<1>3. PlaceInv'
  BY DEF Open, StartupTypeOK, PlaceInv
<1>4. WriterInv'
  <2> SUFFICES ASSUME NEW q \in Process, pc'[q] \in {"open", "write"}
               PROVE  text'[q] = "old" /\ file'[at'[q]] \notin {"missing", "other"}
    BY DEF WriterInv
  <2>1. pc[q] \in {"open", "write"} /\ at[q] \in File
    BY DEF Open, StartupTypeOK, PlaceInv
  <2>2. text[q] = "old" /\ file[at[q]] \notin {"missing", "other"}
    BY <2>1 DEF WriterInv
  <2> QED
    BY <1>1, <2>1, <2>2 DEF Open, StartupTypeOK
<1>5. PassedInv'
  BY <1>1 DEF Open, StartupTypeOK, PassedInv
<1>6. PatchedOnce'
  BY <1>1 DEF Open, StartupTypeOK, PatchedOnce
<1>7. TornOnlyByCrash'
  BY <1>1 DEF Open, StartupTypeOK, TornOnlyByCrash, WritingAt, BrokeOffAt
<1> QED
  BY <1>2, <1>3, <1>4, <1>5, <1>6, <1>7

LEMMA OpenRefusedStep == ASSUME StartupInv, NEW p \in Process, OpenRefused(p)
                         PROVE  StartupInv'
<1> USE DEF StartupInv
<1>1. StartupTypeOK' /\ PlaceInv' /\ WriterInv'
  BY DEF OpenRefused, StartupTypeOK, PlaceInv, WriterInv
<1>2. PassedInv' /\ PatchedOnce'
  BY DEF OpenRefused, StartupTypeOK, PassedInv, PatchedOnce
<1>3. TornOnlyByCrash'
  BY DEF OpenRefused, StartupTypeOK, TornOnlyByCrash, WritingAt, BrokeOffAt
<1> QED
  BY <1>1, <1>2, <1>3

(* Whatever the file has become, the text written comes from an unpatched  *)
(* one, so the file is patched once.                                       *)
LEMMA WriteStep == ASSUME StartupInv, NEW p \in Process, Write(p)
                   PROVE  StartupInv'
<1> USE DEF StartupInv
<1>1. at[p] \in File
  BY DEF Write, PlaceInv
<1>2. file' = [file EXCEPT ![at[p]] = "new"]
  BY DEF Write, WriterInv, Patched
<1>3. pc[p] = "write" /\ NextPatch(p) /\ text' = text /\ loaded' = loaded
  BY DEF Write
<1>4. StartupTypeOK'
  BY <1>1, <1>2, <1>3, NextPatchFacts DEF StartupTypeOK, Content
<1>5. PlaceInv'
  BY <1>1, <1>3, NextPatchFacts DEF PlaceInv
<1>6. WriterInv'
  <2> SUFFICES ASSUME NEW q \in Process, pc'[q] \in {"open", "write"}
               PROVE  text'[q] = "old" /\ file'[at'[q]] \notin {"missing", "other"}
    BY DEF WriterInv
  <2>1. q # p /\ pc[q] \in {"open", "write"} /\ at'[q] = at[q] /\ at[q] \in File
    BY <1>1, <1>3, NextPatchFacts DEF PlaceInv
  <2>2. text[q] = "old" /\ file[at[q]] \notin {"missing", "other"}
    BY <2>1 DEF WriterInv
  <2> QED
    BY <1>1, <1>2, <1>3, <2>1, <2>2 DEF StartupTypeOK
<1>7. PassedInv'
  <2> SUFFICES ASSUME NEW q \in Process, NEW f \in File,
                      pc'[q] \in {"read", "open", "write", "done"}, f < at'[q]
               PROVE  file'[f] # "old"
    BY DEF PassedInv
  <2>1. CASE f = at[p]
    BY <1>2, <2>1 DEF StartupTypeOK
  <2>2. CASE f # at[p]
    <3>1. at'[p] = at[p] + 1
      BY <1>1, <1>3, NextPatchFacts
    <3>2. f < at[q] /\ pc[q] \in {"read", "open", "write", "done"}
      <4>1. CASE q # p
        BY <1>1, <1>3, <4>1, NextPatchFacts
      <4>2. CASE q = p
        BY <1>1, <1>3, <2>2, <3>1, <4>2 DEF File
      <4> QED
        BY <4>1, <4>2
    <3>3. file[f] # "old"
      BY <3>2 DEF PassedInv
    <3> QED
      BY <1>1, <1>2, <2>2, <3>3 DEF StartupTypeOK
  <2> QED
    BY <2>1, <2>2
<1>8. PatchedOnce'
  BY <1>1, <1>2 DEF StartupTypeOK, PatchedOnce
<1>9. TornOnlyByCrash'
  <2> SUFFICES ASSUME NEW f \in File, file'[f] = "torn"
               PROVE  WritingAt(f)' \/ BrokeOffAt(f)'
    BY DEF TornOnlyByCrash
  <2>1. f # at[p] /\ file[f] = "torn"
    BY <1>1, <1>2 DEF StartupTypeOK
  <2>2. PICK q \in Process : pc[q] \in {"write", "broke off"} /\ at[q] = f
    BY <2>1 DEF TornOnlyByCrash, WritingAt, BrokeOffAt
  <2>3. pc'[q] = pc[q] /\ at'[q] = f
    BY <1>1, <1>3, <2>1, <2>2, NextPatchFacts
  <2> QED
    BY <2>2, <2>3 DEF WritingAt, BrokeOffAt
<1> QED
  BY <1>4, <1>5, <1>6, <1>7, <1>8, <1>9

LEMMA CrashStep == ASSUME StartupInv, NEW p \in Process, Crash(p)
                   PROVE  StartupInv'
<1> USE DEF StartupInv
<1>1. StartupTypeOK' /\ PlaceInv' /\ WriterInv'
  BY DEF Crash, StartupTypeOK, PlaceInv, WriterInv
<1>2. PassedInv' /\ PatchedOnce'
  BY DEF Crash, StartupTypeOK, PassedInv, PatchedOnce
<1>3. TornOnlyByCrash'
  BY DEF Crash, StartupTypeOK, TornOnlyByCrash, WritingAt, BrokeOffAt
<1> QED
  BY <1>1, <1>2, <1>3

LEMMA StartupInvNext == StartupInv /\ [StartupNext]_startupVars => StartupInv'
<1> SUFFICES ASSUME StartupInv, [StartupNext]_startupVars
             PROVE  StartupInv'
  OBVIOUS
<1>1. ASSUME NEW p \in Process, Step(p)
      PROVE  StartupInv'
  BY <1>1, ImportStep, ReadStep, OpenStep, OpenRefusedStep, WriteStep DEF Step
<1>2. ASSUME NEW p \in Process, Crash(p)
      PROVE  StartupInv'
  BY <1>2, CrashStep
<1>3. CASE UNCHANGED startupVars
  BY <1>3 DEF startupVars, StartupInv, StartupTypeOK, PlaceInv, WriterInv, PassedInv, PatchedOnce, TornOnlyByCrash,
              WritingAt, BrokeOffAt
<1> QED
  BY <1>1, <1>2, <1>3 DEF StartupNext

(* The inductive invariant holds in every reachable state. *)
THEOREM StartupInvariance == StartupSpec => []StartupInv
<1> QED
  BY StartupInvInit, StartupInvNext, PTL DEF StartupSpec

(* The state keeps its types, for any number of starts. *)
THEOREM TypeCorrect == StartupSpec => []StartupTypeOK
<1>1. StartupInv => StartupTypeOK
  BY DEF StartupInv
<1> QED
  BY StartupInvariance, <1>1, PTL

(* No file is ever patched twice, however many starts race. *)
THEOREM NeverPatchedTwice == StartupSpec => []PatchedOnce
<1>1. StartupInv => PatchedOnce
  BY DEF StartupInv
<1> QED
  BY StartupInvariance, <1>1, PTL

(* A truncated file is being written or was left by a start that died. *)
THEOREM TornByCrashOnly == StartupSpec => []TornOnlyByCrash
<1>1. StartupInv => TornOnlyByCrash
  BY DEF StartupInv
<1> QED
  BY StartupInvariance, <1>1, PTL

(* One finished start is enough, unless another is about to write or died  *)
(* writing: every file that can be patched is patched.                     *)
THEOREM FinishedStartPatches == StartupSpec => []FinishedMeansPatched
<1>1. StartupInv => FinishedMeansPatched
  <2> SUFFICES ASSUME StartupInv, NEW p \in Process, Finished(p),
                      \A q \in Process : ~Pending(q), NEW f \in File
               PROVE  file[f] \notin {"old", "torn"}
    BY DEF FinishedMeansPatched
  <2>1. file[f] # "old"
    BY DEF StartupInv, PlaceInv, PassedInv, Finished, File, AllDone
  <2>2. file[f] # "torn"
    BY DEF StartupInv, TornOnlyByCrash, WritingAt, BrokeOffAt, Pending
  <2> QED
    BY <2>1, <2>2
<1> QED
  BY StartupInvariance, <1>1, PTL

(* A file that is missing or not recognised is left as it is by every step. *)
THEOREM UnknownStays == StartupSpec => UnknownLeftAlone
<1>1. StartupInv /\ [StartupNext]_startupVars
        => [\A f \in File : file[f] \in {"missing", "other"} => file'[f] = file[f]]_startupVars
  <2> SUFFICES ASSUME StartupInv, NEW p \in Process, Step(p) \/ Crash(p), NEW f \in File,
                      file[f] \in {"missing", "other"}
               PROVE  file'[f] = file[f]
    BY DEF StartupNext
  <2>1. CASE Open(p)
    BY <2>1 DEF Open, StartupInv, StartupTypeOK, WriterInv
  <2>2. CASE Write(p)
    BY <2>2 DEF Write, StartupInv, StartupTypeOK, WriterInv
  <2>3. CASE Import(p) \/ Read(p) \/ OpenRefused(p) \/ Crash(p)
    BY <2>3 DEF Import, Read, OpenRefused, Crash
  <2> QED
    BY <2>1, <2>2, <2>3 DEF Step
<1> QED
  BY StartupInvariance, <1>1, PTL DEF StartupSpec, UnknownLeftAlone

-----------------------------------------------------------------------------
(* Artifacts: the plots and the folder of a campaign. *)

(* Who is between taking and releasing PLOT_LOCK holds it, and what he has *)
(* drawn is on the figure until he saves it.                               *)
LockInv == \A t \in Test : tpc[t] \in {"locked", "drawn"} => lock[CampaignOf(t)] = t
FigureInv == \A t \in Test : tpc[t] = "drawn" => figure[CampaignOf(t)] = t

(* A plot that is saved stays the plot of its test. *)
PlotInv ==
    \A t \in Test : tpc[t] = "plotted" =>
        plotFile[t] = PlotName(t, 0) /\ plots[PlotName(t, 0)] = t

(* A suite holds plotted tests only, and a campaign that has not begun to  *)
(* save has written nothing; one that reports has written everything.      *)
SuiteInv ==
    \A c \in Campaign :
        /\ \A i \in 1..Len(suite[c]) : tpc[suite[c][i]] = "plotted"
        /\ cpc[c] = "flying" => suite[c] = <<>> /\ saved[c] = 0
        /\ cpc[c] = "printed" => saved[c] = 3 * Len(suite[c])

(* How many files are written before the i-th file of kind k. *)
Place(i, k) == 3 * (i - 1) + (CASE k = "yaml" -> 0 [] k = "ulg" -> 1 [] k = "png" -> 2)

(* The folder of the second s is nobody's, or c's alone. *)
Unused(s) == \A d \in Campaign : cpc[d] # "flying" => stamp[d] # s
Alone(c) == \A d \in Campaign \ {c} : cpc[d] # "flying" => stamp[d] # stamp[c]

(* A folder nobody made is empty; one that a single campaign made holds    *)
(* what this campaign has written so far, and nothing else.                *)
UnusedInv ==
    \A s \in Second : Unused(s) => \A i \in 1..MaxSuite, k \in Kind : out[<<s, i, k>>] = Nothing
FolderInv ==
    \A c \in Campaign : cpc[c] # "flying" /\ Alone(c) =>
        \A i \in 1..MaxSuite, k \in Kind :
            out[<<stamp[c], i, k>>] = IF Place(i, k) < saved[c] THEN suite[c][i] ELSE Nothing

(* The inductive invariant. *)
IInv == TypeOK /\ LockInv /\ FigureInv /\ PlotInv /\ SuiteInv /\ UnusedInv /\ FolderInv

USE SuiteAssumption, ClockAssumption, TestsAssumption

-----------------------------------------------------------------------------
(* A test belongs to a campaign and is not Nothing; its plot has a name of *)
(* its own.                                                                *)
LEMMA TestFacts ==
    /\ \A t \in Test : CampaignOf(t) \in Campaign /\ t # Nothing
    /\ \A t \in Test : \A now : PlotName(t, now) \in PlotNames /\ PlotName(t, now) = PlotName(t, 0)
    /\ \A t, u \in Test : PlotName(t, 0) = PlotName(u, 0) => t = u
<1>1. \A t \in Test : CampaignOf(t) \in Campaign /\ t # Nothing
    BY DEF Test, CampaignOf
<1>2. \A t \in Test : \A now : PlotName(t, now) \in PlotNames /\ PlotName(t, now) = PlotName(t, 0)
    BY DEF PlotName, PlotNames, Second
<1>3. \A t, u \in Test : PlotName(t, 0) = PlotName(u, 0) => t = u
    BY DEF PlotName
<1> QED BY <1>1, <1>2, <1>3

(* The initial states satisfy the invariant. *)
LEMMA InitIInv == Init => IInv
<1> SUFFICES ASSUME Init PROVE IInv
    OBVIOUS
<1>1. TypeOK
    BY DEF Init, TypeOK, Second
<1>2. LockInv /\ FigureInv /\ PlotInv
    BY DEF Init, LockInv, FigureInv, PlotInv
<1>3. SuiteInv
    BY DEF Init, SuiteInv
<1>4. UnusedInv /\ FolderInv
    BY DEF Init, UnusedInv, FolderInv
<1> QED BY <1>1, <1>2, <1>3, <1>4 DEF IInv

(* Plotting: a step of a test's thread. *)
LEMMA PlotKeepsPlots ==
    ASSUME IInv, NEW t \in Test, PlotStep(t) \/ PlotFails(t)
    PROVE  /\ tpc' \in [Test -> {"flown", "locked", "drawn", "plotted", "failed"}]
           /\ lock' \in [Campaign -> Test \union {Nothing}]
           /\ figure' \in [Campaign -> Test \union {Nothing}]
           /\ plots' \in [PlotNames -> Test \union {Nothing}]
           /\ plotFile' \in [Test -> PlotNames \union {NoName}]
           /\ clock' = clock /\ UNCHANGED saveVars
           /\ LockInv' /\ FigureInv' /\ PlotInv'
           /\ \A u \in Test : tpc[u] = "plotted" => tpc'[u] = "plotted"
<1> DEFINE c == CampaignOf(t)
<1>1. /\ tpc \in [Test -> {"flown", "locked", "drawn", "plotted", "failed"}]
      /\ lock \in [Campaign -> Test \union {Nothing}]
      /\ figure \in [Campaign -> Test \union {Nothing}]
      /\ plots \in [PlotNames -> Test \union {Nothing}]
      /\ plotFile \in [Test -> PlotNames \union {NoName}]
      /\ LockInv /\ FigureInv /\ PlotInv
    BY DEF IInv, TypeOK
<1>2. c \in Campaign /\ t # Nothing
      /\ \A u \in Test : CampaignOf(u) \in Campaign /\ u # Nothing
    BY TestFacts
<1> HIDE DEF c
<1>3. CASE Acquire(t)
    <2>1. /\ tpc[t] = "flown" /\ lock[c] = Nothing
          /\ tpc' = [tpc EXCEPT ![t] = "locked"]
          /\ lock' = [lock EXCEPT ![c] = t]
          /\ UNCHANGED <<clock, figure, plots, plotFile, saveVars>>
        BY <1>3 DEF Acquire, c
    <2>2. LockInv'
        BY <2>1, <1>1, <1>2 DEF LockInv, c
    <2>3. FigureInv' /\ PlotInv'
        BY <2>1, <1>1 DEF FigureInv, PlotInv
    <2> QED BY <2>1, <2>2, <2>3, <1>1, <1>2
<1>4. CASE DrawFlight(t)
    <2>1. /\ tpc[t] = "locked"
          /\ tpc' = [tpc EXCEPT ![t] = "drawn"]
          /\ figure' = [figure EXCEPT ![c] = t]
          /\ UNCHANGED <<clock, lock, plots, plotFile, saveVars>>
        BY <1>4 DEF DrawFlight, c
    <2>2. LockInv' /\ PlotInv'
        BY <2>1, <1>1 DEF LockInv, PlotInv
    <2>3. FigureInv'
        <3> SUFFICES ASSUME NEW u \in Test, tpc'[u] = "drawn" PROVE figure'[CampaignOf(u)] = u
            BY DEF FigureInv
        <3>1. CASE u = t
            BY <3>1, <2>1, <1>1, <1>2 DEF c
        <3>2. CASE u # t
            <4>1. tpc[u] = "drawn" /\ lock[CampaignOf(u)] = u /\ lock[c] = t
                BY <3>2, <2>1, <1>1 DEF LockInv, c
            <4>2. CampaignOf(u) # c
                BY <4>1, <3>2
            <4> QED BY <4>1, <4>2, <2>1, <1>1, <1>2 DEF FigureInv
        <3> QED BY <3>1, <3>2
    <2> QED BY <2>1, <2>2, <2>3, <1>1, <1>2
<1>5. CASE SavePlot(t)
    <2> DEFINE name == PlotName(t, 0)
    <2>1. name \in PlotNames /\ PlotName(t, clock) = name
        BY TestFacts
    <2>2. /\ tpc[t] = "drawn"
          /\ tpc' = [tpc EXCEPT ![t] = "plotted"]
          /\ plots' = [plots EXCEPT ![name] = figure[c]]
          /\ plotFile' = [plotFile EXCEPT ![t] = name]
          /\ figure' = [figure EXCEPT ![c] = Nothing]
          /\ lock' = [lock EXCEPT ![c] = Nothing]
          /\ UNCHANGED <<clock, saveVars>>
        BY <1>5, <2>1 DEF SavePlot, c
    <2>3. figure[c] = t /\ lock[c] = t
        BY <2>2, <1>1 DEF FigureInv, LockInv, c
    <2>4. \A u \in Test : u # t /\ tpc[u] \in {"locked", "drawn"} => CampaignOf(u) # c
        BY <2>3, <1>1 DEF LockInv
    <2>5. LockInv' /\ FigureInv'
        BY <2>2, <2>4, <1>1, <1>2 DEF LockInv, FigureInv
    <2>6. PlotInv'
        <3> SUFFICES ASSUME NEW u \in Test, tpc'[u] = "plotted"
                     PROVE  plotFile'[u] = PlotName(u, 0) /\ plots'[PlotName(u, 0)] = u
            BY DEF PlotInv
        <3>1. CASE u = t
            BY <3>1, <2>1, <2>2, <2>3, <1>1
        <3>2. CASE u # t
            <4>1. PlotName(u, 0) # name /\ PlotName(u, 0) \in PlotNames
                BY <3>2, TestFacts
            <4>2. tpc[u] = "plotted"
                BY <3>2, <2>2, <1>1
            <4> QED BY <4>1, <4>2, <3>2, <2>2, <1>1 DEF PlotInv
        <3> QED BY <3>1, <3>2
    <2> QED BY <2>1, <2>2, <2>3, <2>5, <2>6, <1>1, <1>2
<1>6. CASE PlotFails(t)
    <2>1. /\ tpc[t] \in {"locked", "drawn"}
          /\ tpc' = [tpc EXCEPT ![t] = "failed"]
          /\ lock' = [lock EXCEPT ![c] = Nothing]
          /\ UNCHANGED <<clock, figure, plots, plotFile, saveVars>>
        BY <1>6 DEF PlotFails, c
    <2>2. \A u \in Test : u # t /\ tpc[u] \in {"locked", "drawn"} => CampaignOf(u) # c
        BY <2>1, <1>1 DEF LockInv, c
    <2>3. LockInv'
        BY <2>1, <2>2, <1>1, <1>2 DEF LockInv
    <2>4. FigureInv' /\ PlotInv'
        BY <2>1, <1>1 DEF FigureInv, PlotInv
    <2> QED BY <2>1, <2>3, <2>4, <1>1, <1>2
<1> QED BY <1>3, <1>4, <1>5, <1>6 DEF PlotStep

(* The whole invariant survives it: the folders are not touched. *)
LEMMA PlotStepIInv ==
    ASSUME IInv, NEW t \in Test, PlotStep(t) \/ PlotFails(t)
    PROVE  IInv'
<1>1. /\ UNCHANGED <<cpc, suite, stamp, saved, out, clock>>
      /\ \A u \in Test : tpc[u] = "plotted" => tpc'[u] = "plotted"
    BY PlotKeepsPlots DEF saveVars
<1>2. TypeOK'
    BY <1>1, PlotKeepsPlots DEF IInv, TypeOK
<1>3. SuiteInv'
    <2>1. \A c \in Campaign : \A i \in 1..Len(suite[c]) : suite[c][i] \in Test
        BY DEF IInv, TypeOK
    <2> QED BY <2>1, <1>1 DEF IInv, SuiteInv
<1>4. UnusedInv' /\ FolderInv'
    BY <1>1 DEF IInv, UnusedInv, FolderInv, Unused, Alone
<1> QED BY <1>2, <1>3, <1>4, PlotKeepsPlots DEF IInv

-----------------------------------------------------------------------------
(* What a saving step needs of the plotting state, which it leaves alone. *)
LEMMA PlotFrame ==
    ASSUME IInv, UNCHANGED plotVars
    PROVE  /\ LockInv' /\ FigureInv' /\ PlotInv'
           /\ tpc' = tpc
           /\ tpc' \in [Test -> {"flown", "locked", "drawn", "plotted", "failed"}]
           /\ lock' \in [Campaign -> Test \union {Nothing}]
           /\ figure' \in [Campaign -> Test \union {Nothing}]
           /\ plots' \in [PlotNames -> Test \union {Nothing}]
           /\ plotFile' \in [Test -> PlotNames \union {NoName}]
BY DEF IInv, TypeOK, LockInv, FigureInv, PlotInv, plotVars

(* The types of the saving state, for each saving step to keep. *)
SaveTypes ==
    /\ clock \in Second
    /\ cpc \in [Campaign -> {"flying", "saving", "printed", "failed"}]
    /\ suite \in [Campaign -> Seq(Test)]
    /\ \A c \in Campaign : suite[c] \in Seq(TestsOf[c]) /\ Len(suite[c]) <= MaxSuite
    /\ stamp \in [Campaign -> Second]
    /\ saved \in [Campaign -> Nat]
    /\ \A c \in Campaign : saved[c] <= 3 * Len(suite[c])
    /\ out \in [Second \X (1..MaxSuite) \X Kind -> Test \union {Nothing}]

LEMMA SaveIInv ==
    ASSUME IInv, UNCHANGED plotVars, SaveTypes', SuiteInv', UnusedInv', FolderInv'
    PROVE  IInv'
BY PlotFrame DEF SaveTypes, IInv, TypeOK

(* The folder is made: nobody else's files are in it, or it is shared. *)
LEMMA MakeFolderStep ==
    ASSUME IInv, NEW c \in Campaign, MakeFolder(c)
    PROVE  IInv'
<1>0. PICK tests \in SUBSET {t \in TestsOf[c] : tpc[t] = "plotted"} :
         /\ Cardinality(tests) <= MaxSuite
         /\ \E order \in SetToSeqs(tests) : suite' = [suite EXCEPT ![c] = order]
    BY DEF MakeFolder
<1>1. PICK order \in SetToSeqs(tests) : suite' = [suite EXCEPT ![c] = order]
    BY <1>0
<1>2. /\ cpc[c] = "flying"
      /\ stamp' = [stamp EXCEPT ![c] = clock]
      /\ cpc' = [cpc EXCEPT ![c] = "saving"]
      /\ UNCHANGED <<clock, plotVars, saved, out>>
    BY DEF MakeFolder
<1>3. SaveTypes
    BY DEF SaveTypes, IInv, TypeOK
<1>4. /\ order \in Seq(TestsOf[c]) /\ order \in Seq(Test) /\ Len(order) <= MaxSuite /\ Len(order) \in Nat
      /\ \A i \in 1..Len(order) : tpc[order[i]] = "plotted"
    <2>1. IsFiniteSet(tests) /\ Cardinality(tests) \in Nat
        <3>1. tests \in SUBSET TestsOf[c] /\ IsFiniteSet(TestsOf[c])
            OBVIOUS
        <3> QED BY <3>1, FS_Subset, FS_CardinalityType
    <2>2. order \in [1..Cardinality(tests) -> tests]
        BY DEF SetToSeqs
    <2>3. tests \subseteq TestsOf[c] /\ tests \subseteq Test /\ \A t \in tests : tpc[t] = "plotted"
        BY DEF Test
    <2>4. Len(order) = Cardinality(tests) /\ \A i \in 1..Len(order) : order[i] \in tests
        BY <2>1, <2>2
    <2> QED BY <2>1, <2>2, <2>3, <2>4, <1>0
<1>5. saved[c] = 0 /\ tpc' = tpc
    BY <1>2 DEF IInv, SuiteInv, plotVars
<1>6. /\ suite'[c] = order /\ cpc'[c] = "saving" /\ stamp'[c] = clock
      /\ \A d \in Campaign : d # c => suite'[d] = suite[d] /\ cpc'[d] = cpc[d] /\ stamp'[d] = stamp[d]
    BY <1>1, <1>2, <1>3 DEF SaveTypes
<1>7. SaveTypes'
    <2>1. \A d \in Campaign : suite'[d] \in Seq(TestsOf[d]) /\ Len(suite'[d]) <= MaxSuite
        BY <1>3, <1>4, <1>6 DEF SaveTypes
    <2>2. ASSUME NEW d \in Campaign PROVE saved'[d] <= 3 * Len(suite'[d])
        <3>1. CASE d = c
            <4>1. saved'[d] = 0 /\ suite'[d] = order
                BY <3>1, <1>2, <1>5, <1>6
            <4> QED BY <4>1, <1>4
        <3>2. CASE d # c
            BY <3>2, <1>2, <1>3, <1>6 DEF SaveTypes
        <3> QED BY <3>1, <3>2
    <2>3. suite' \in [Campaign -> Seq(Test)]
        BY <1>1, <1>3, <1>4 DEF SaveTypes
    <2> QED BY <2>1, <2>2, <2>3, <1>2, <1>3 DEF SaveTypes
<1>8. SuiteInv'
    <2> SUFFICES ASSUME NEW d \in Campaign
                 PROVE  /\ \A i \in 1..Len(suite'[d]) : tpc'[suite'[d][i]] = "plotted"
                        /\ cpc'[d] = "flying" => suite'[d] = <<>> /\ saved'[d] = 0
                        /\ cpc'[d] = "printed" => saved'[d] = 3 * Len(suite'[d])
        BY DEF SuiteInv
    <2>1. CASE d = c
        BY <2>1, <1>4, <1>5, <1>6
    <2>2. CASE d # c
        <3>1. suite'[d] = suite[d] /\ cpc'[d] = cpc[d] /\ saved'[d] = saved[d] /\ tpc' = tpc
            BY <2>2, <1>2, <1>5, <1>6
        <3> QED BY <3>1 DEF IInv, SuiteInv
    <2> QED BY <2>1, <2>2
<1>9. UnusedInv'
    <2> SUFFICES ASSUME NEW s \in Second, Unused(s)' PROVE Unused(s)
        BY <1>2 DEF UnusedInv, IInv
    <2> QED BY <1>2, <1>6 DEF Unused
<1>10. FolderInv'
    <2> SUFFICES ASSUME NEW d \in Campaign, cpc'[d] # "flying", Alone(d)', NEW i \in 1..MaxSuite, NEW k \in Kind
                 PROVE  out'[<<stamp'[d], i, k>>] = IF Place(i, k) < saved'[d] THEN suite'[d][i] ELSE Nothing
        BY DEF FolderInv
    <2>1. CASE d = c
        <3>1. Unused(clock)
            BY <2>1, <1>2, <1>6 DEF Unused, Alone
        <3>2. out[<<clock, i, k>>] = Nothing
            BY <3>1, <1>3 DEF IInv, UnusedInv, SaveTypes
        <3>3. ~(Place(i, k) < 0)
            BY DEF Place, Kind
        <3> QED BY <2>1, <3>2, <3>3, <1>2, <1>5, <1>6
    <2>2. CASE d # c
        <3>1. Alone(d)
            BY <2>2, <1>2, <1>6 DEF Alone
        <3> QED BY <2>2, <3>1, <1>2, <1>6 DEF IInv, FolderInv
    <2> QED BY <2>1, <2>2
<1> QED BY <1>2, <1>7, <1>8, <1>9, <1>10, SaveIInv

(* The file that is written is the next one of the suite. *)
LEMMA NextFile ==
    ASSUME NEW c \in Campaign, saved[c] \in Nat, Len(suite[c]) \in 0..MaxSuite, Left(c)
    PROVE  /\ Number(c) \in 1..MaxSuite /\ Number(c) \in 1..Len(suite[c])
           /\ KindOf(c) \in Kind
           /\ \A i \in 1..MaxSuite, k \in Kind :
                 Place(i, k) = saved[c] <=> i = Number(c) /\ k = KindOf(c)
           /\ \A i \in 1..MaxSuite, k \in Kind : Place(i, k) \in Nat
<1> DEFINE q == saved[c] \div 3
           r == saved[c] % 3
<1>1. q \in Nat /\ r \in 0..2 /\ saved[c] = 3 * q + r
    OBVIOUS
<1>2. Number(c) = 1 + q /\ KindOf(c) = <<"yaml", "ulg", "png">>[1 + r]
    BY DEF Number, KindOf
<1> HIDE DEF q, r
<1>3. saved[c] < 3 * Len(suite[c])
    BY DEF Left
<1>4. q < Len(suite[c])
    BY <1>1, <1>3
<1>5. Number(c) \in 1..MaxSuite /\ Number(c) \in 1..Len(suite[c])
    BY <1>1, <1>2, <1>4
<1>6. \/ r = 0 /\ KindOf(c) = "yaml"
      \/ r = 1 /\ KindOf(c) = "ulg"
      \/ r = 2 /\ KindOf(c) = "png"
    BY <1>1, <1>2
<1>7. ASSUME NEW i \in 1..MaxSuite, NEW k \in Kind
      PROVE  /\ Place(i, k) = saved[c] <=> i = Number(c) /\ k = KindOf(c)
             /\ Place(i, k) \in Nat
    <2>1. CASE k = "yaml"
        <3>1. Place(i, k) = 3 * (i - 1)
            BY <2>1 DEF Place
        <3> QED BY <2>1, <3>1, <1>1, <1>2, <1>6
    <2>2. CASE k = "ulg"
        <3>1. Place(i, k) = 3 * (i - 1) + 1
            BY <2>2 DEF Place
        <3> QED BY <2>2, <3>1, <1>1, <1>2, <1>6
    <2>3. CASE k = "png"
        <3>1. Place(i, k) = 3 * (i - 1) + 2
            BY <2>3 DEF Place
        <3> QED BY <2>3, <3>1, <1>1, <1>2, <1>6
    <2> QED BY <2>1, <2>2, <2>3 DEF Kind
<1>8. KindOf(c) \in Kind
    BY <1>6 DEF Kind
<1> QED BY <1>5, <1>7, <1>8

(* The file that is written shows the test it belongs to. *)
LEMMA WriteFileStep ==
    ASSUME IInv, NEW c \in Campaign, WriteFile(c)
    PROVE  IInv'
<1> DEFINE n == Number(c)
           kind == KindOf(c)
           spot == <<stamp[c], n, kind>>
<1>1. /\ cpc[c] = "saving" /\ Left(c)
      /\ out' = [out EXCEPT ![spot] = FileOf(c)]
      /\ saved' = [saved EXCEPT ![c] = @ + 1]
      /\ UNCHANGED <<clock, plotVars, cpc, suite, stamp>>
    BY DEF WriteFile
<1>2. SaveTypes
    BY DEF SaveTypes, IInv, TypeOK
<1>3. /\ saved[c] \in Nat /\ Len(suite[c]) \in 0..MaxSuite /\ stamp[c] \in Second
      /\ \A i \in 1..Len(suite[c]) : suite[c][i] \in Test
    BY <1>2 DEF SaveTypes
<1>4. /\ n \in 1..MaxSuite /\ n \in 1..Len(suite[c]) /\ kind \in Kind
      /\ \A i \in 1..MaxSuite, k \in Kind : Place(i, k) = saved[c] <=> i = n /\ k = kind
      /\ \A i \in 1..MaxSuite, k \in Kind : Place(i, k) \in Nat
    BY <1>1, <1>3, NextFile
<1>5. FileOf(c) = suite[c][n] /\ suite[c][n] \in Test
    <2>1. suite[c][n] \in Test /\ tpc[suite[c][n]] = "plotted"
        BY <1>3, <1>4 DEF IInv, SuiteInv
    <2>2. plots[plotFile[suite[c][n]]] = suite[c][n]
        BY <2>1 DEF IInv, PlotInv
    <2> QED BY <2>1, <2>2 DEF FileOf
<1> HIDE DEF n, kind
<1>6. /\ spot \in Second \X (1..MaxSuite) \X Kind
      /\ out'[spot] = suite[c][n]
      /\ \A s \in Second, i \in 1..MaxSuite, k \in Kind :
            <<s, i, k>> # spot => out'[<<s, i, k>>] = out[<<s, i, k>>]
      /\ out' \in [Second \X (1..MaxSuite) \X Kind -> Test \union {Nothing}]
    BY <1>1, <1>2, <1>3, <1>4, <1>5 DEF SaveTypes
<1>7. saved'[c] = saved[c] + 1 /\ \A d \in Campaign : d # c => saved'[d] = saved[d]
    BY <1>1, <1>2 DEF SaveTypes
<1>8. SaveTypes'
    <2>1. \A d \in Campaign : saved'[d] <= 3 * Len(suite[d])
        BY <1>1, <1>2, <1>3, <1>7 DEF SaveTypes, Left
    <2>2. saved' \in [Campaign -> Nat]
        BY <1>1, <1>2 DEF SaveTypes
    <2> QED BY <2>1, <2>2, <1>1, <1>2, <1>6 DEF SaveTypes
<1>9. SuiteInv'
    BY <1>1, <1>7 DEF IInv, SuiteInv, plotVars
<1>10. UnusedInv'
    <2> SUFFICES ASSUME NEW s \in Second, Unused(s)', NEW i \in 1..MaxSuite, NEW k \in Kind
                 PROVE  out'[<<s, i, k>>] = Nothing
        BY DEF UnusedInv
    <2>1. Unused(s) /\ stamp[c] # s
        BY <1>1 DEF Unused
    <2>2. <<s, i, k>> # spot
        BY <2>1
    <2> QED BY <2>1, <2>2, <1>6 DEF IInv, UnusedInv
<1>11. FolderInv'
    <2> SUFFICES ASSUME NEW d \in Campaign, cpc'[d] # "flying", Alone(d)', NEW i \in 1..MaxSuite, NEW k \in Kind
                 PROVE  out'[<<stamp[d], i, k>>] = IF Place(i, k) < saved'[d] THEN suite[d][i] ELSE Nothing
        BY <1>1 DEF FolderInv
    <2>1. cpc[d] # "flying" /\ Alone(d) /\ stamp[d] \in Second
        BY <1>1, <1>2 DEF Alone, SaveTypes
    <2>2. out[<<stamp[d], i, k>>] = IF Place(i, k) < saved[d] THEN suite[d][i] ELSE Nothing
        BY <2>1 DEF IInv, FolderInv
    <2>3. CASE d # c
        <3>1. <<stamp[d], i, k>> # spot
            BY <2>1, <2>3, <1>1 DEF Alone
        <3> QED BY <2>1, <2>2, <2>3, <3>1, <1>6, <1>7
    <2>4. CASE d = c /\ i = n /\ k = kind
        <3>1. Place(i, k) < saved'[d]
            BY <2>4, <1>3, <1>4, <1>7
        <3> QED BY <2>4, <3>1, <1>6
    <2>5. CASE d = c /\ ~(i = n /\ k = kind)
        <3>1. <<stamp[d], i, k>> # spot
            BY <2>5
        <3>2. Place(i, k) < saved'[d] <=> Place(i, k) < saved[d]
            BY <2>5, <1>3, <1>4, <1>7
        <3> QED BY <2>1, <2>2, <3>1, <3>2, <1>6
    <2> QED BY <2>3, <2>4, <2>5
<1> QED BY <1>1, <1>8, <1>9, <1>10, <1>11, SaveIInv

(* The end of saving, in success or failure, and the clock. *)
LEMMA EndStep ==
    ASSUME IInv, NEW c \in Campaign, WriteFails(c) \/ Report(c)
    PROVE  IInv'
<1>1. /\ cpc[c] = "saving" /\ UNCHANGED <<clock, plotVars, suite, stamp, saved, out>>
      /\ \/ cpc' = [cpc EXCEPT ![c] = "failed"]
         \/ cpc' = [cpc EXCEPT ![c] = "printed"] /\ ~Left(c)
    BY DEF WriteFails, Report
<1>2. SaveTypes
    BY DEF SaveTypes, IInv, TypeOK
<1>3. SaveTypes'
    BY <1>1, <1>2 DEF SaveTypes
<1>4. \A d \in Campaign : (cpc'[d] = "flying" <=> cpc[d] = "flying")
    BY <1>1, <1>2 DEF SaveTypes
<1>5. ~Left(c) => saved[c] = 3 * Len(suite[c])
    <2>1. saved[c] \in Nat /\ Len(suite[c]) \in Nat /\ saved[c] <= 3 * Len(suite[c])
        BY <1>2 DEF SaveTypes
    <2> QED BY <2>1 DEF Left
<1>6. SuiteInv'
    BY <1>1, <1>2, <1>4, <1>5 DEF IInv, SuiteInv, SaveTypes, plotVars
<1>7. UnusedInv' /\ FolderInv'
    BY <1>1, <1>4 DEF IInv, UnusedInv, FolderInv, Unused, Alone
<1> QED BY <1>1, <1>3, <1>6, <1>7, SaveIInv

LEMMA TickStep ==
    ASSUME IInv, Tick \/ UNCHANGED vars
    PROVE  IInv'
<1>1. clock' \in Second /\ UNCHANGED <<plotVars, saveVars>>
    BY DEF Tick, vars, plotVars, saveVars, IInv, TypeOK, Second
<1>2. SaveTypes'
    BY <1>1 DEF SaveTypes, saveVars, IInv, TypeOK
<1>3. SuiteInv' /\ UnusedInv' /\ FolderInv'
    BY <1>1 DEF IInv, SuiteInv, UnusedInv, FolderInv, Unused, Alone, saveVars, plotVars
<1> QED BY <1>1, <1>2, <1>3, SaveIInv

-----------------------------------------------------------------------------
(* Every step keeps the invariant. *)
LEMMA NextIInv == IInv /\ [Next]_vars => IInv'
<1> SUFFICES ASSUME IInv, [Next]_vars PROVE IInv'
    OBVIOUS
<1>1. CASE \E t \in Test : PlotStep(t) \/ PlotFails(t)
    BY <1>1, PlotStepIInv
<1>2. CASE \E c \in Campaign : SaveStep(c) \/ WriteFails(c)
    BY <1>2, MakeFolderStep, WriteFileStep, EndStep DEF SaveStep
<1>3. CASE Tick \/ UNCHANGED vars
    BY <1>3, TickStep
<1> QED BY <1>1, <1>2, <1>3 DEF Next

(* The invariant holds throughout. *)
THEOREM Invariance == Spec => []IInv
BY InitIInv, NextIInv, PTL DEF Spec

(* A saved file shows the test it belongs to, for any number of campaigns  *)
(* that plot and save at once: no plot is overwritten or drawn over, and a *)
(* campaign that reports success has exactly its suite in its folder,      *)
(* unless another made the same folder in the same second.                 *)
THEOREM FilesAreRight == Spec => []FilesShowTheirTest
<1>1. IInv => FilesShowTheirTest
    <2> SUFFICES ASSUME IInv PROVE PlotsShowTheirFlight /\ FolderHoldsTheSuite
        BY DEF FilesShowTheirTest
    <2>1. PlotsShowTheirFlight
        BY DEF IInv, PlotInv, PlotsShowTheirFlight
    <2>2. FolderHoldsTheSuite
        <3> SUFFICES ASSUME NEW c \in Campaign, cpc[c] = "printed", Alone(c),
                            NEW i \in 1..MaxSuite, NEW k \in Kind
                     PROVE  out[<<stamp[c], i, k>>] = IF i <= Len(suite[c]) THEN suite[c][i] ELSE Nothing
            BY DEF FolderHoldsTheSuite, Alone
        <3>1. out[<<stamp[c], i, k>>] = IF Place(i, k) < saved[c] THEN suite[c][i] ELSE Nothing
            BY DEF IInv, FolderInv
        <3>2. saved[c] = 3 * Len(suite[c]) /\ Len(suite[c]) \in Nat
            BY DEF IInv, SuiteInv, TypeOK
        <3>3. Place(i, k) < 3 * Len(suite[c]) <=> i <= Len(suite[c])
            <4>1. Place(i, k) \in {3 * (i - 1), 3 * (i - 1) + 1, 3 * (i - 1) + 2}
                BY DEF Place, Kind
            <4> QED BY <4>1, <3>2
        <3> QED BY <3>1, <3>2, <3>3
    <2> QED BY <2>1, <2>2
<1> QED BY <1>1, Invariance, PTL
=============================================================================
