------------------------------ MODULE Artifacts ------------------------------
(***************************************************************************)
(* What a campaign leaves on disk.  The threads of a campaign plot the     *)
(* flights they have finished (TestCase.plot); when generate has returned, *)
(* cli.py writes the suite into a folder named after the second.  Several  *)
(* campaigns may run at once; each has its own process, with one plotting  *)
(* state and one PLOT_LOCK, and all share the disk.                        *)
(*                                                                         *)
(* A test stands for its flight; a drawing is the test it shows.           *)
(***************************************************************************)
EXTENDS Naturals, Sequences, FiniteSets, SequencesExt

CONSTANTS
    Campaign,   \* the campaigns
    TestsOf,    \* campaign -> the tests whose flights end well
    MaxSuite,   \* cfg.topK
    MaxSeconds  \* bound: how far the clock goes

ASSUME SuiteAssumption == MaxSuite \in Nat
ASSUME ClockAssumption == MaxSeconds \in Nat

Test == UNION {TestsOf[c] : c \in Campaign}
Second == 0..MaxSeconds
Kind == {"yaml", "ulg", "png"}
Nothing == "nothing"

(* A campaign flies finitely many tests. *)
ASSUME TestsAssumption == \A c \in Campaign : IsFiniteSet(TestsOf[c]) /\ Nothing \notin TestsOf[c]

CampaignOf(t) == CHOOSE c \in Campaign : t \in TestsOf[c]

(* A plot file is named by an identifier or by the second. *)
PlotNames == [uuid : Test \union {Nothing}, second : Second]
NoName == [uuid |-> Nothing, second |-> MaxSeconds + 1]

(* plot-<uuid>: no two tests have the same. *)
PlotName(t, now) == [uuid |-> t, second |-> 0]

VARIABLES
    clock,    \* the second it is
    tpc,      \* test -> where its thread is: "flown", "locked", "drawn", "plotted", "failed"
    lock,     \* campaign -> the test whose thread holds PLOT_LOCK
    figure,   \* campaign -> what the process's current figure shows
    plots,    \* plot file -> its drawing
    plotFile, \* test -> the plot_file of its TestCase
    cpc,      \* campaign -> "flying", "saving", "printed" or "failed"
    suite,    \* campaign -> what generate returned
    stamp,    \* campaign -> the second its folder is named after
    saved,    \* campaign -> how many files it has written
    out       \* folder, number and kind -> the file there

vars == <<clock, tpc, lock, figure, plots, plotFile, cpc, suite, stamp, saved, out>>

plotVars == <<tpc, lock, figure, plots, plotFile>>
saveVars == <<cpc, suite, stamp, saved, out>>

Init ==
    /\ clock = 0
    /\ tpc = [t \in Test |-> "flown"]
    /\ lock = [c \in Campaign |-> Nothing]
    /\ figure = [c \in Campaign |-> Nothing]
    /\ plots = [n \in PlotNames |-> Nothing]
    /\ plotFile = [t \in Test |-> NoName]
    /\ cpc = [c \in Campaign |-> "flying"]
    /\ suite = [c \in Campaign |-> <<>>]
    /\ stamp = [c \in Campaign |-> 0]
    /\ saved = [c \in Campaign |-> 0]
    /\ out = [f \in Second \X (1..MaxSuite) \X Kind |-> Nothing]

Tick ==
    /\ clock < MaxSeconds
    /\ clock' = clock + 1
    /\ UNCHANGED <<plotVars, saveVars>>

-----------------------------------------------------------------------------
(* TestCase.plot *)

(* Mutant: the lock is taken without waiting for it. *)
AcquireUnlocked(t) ==
    /\ tpc[t] = "flown"
    /\ tpc' = [tpc EXCEPT ![t] = "locked"]
    /\ UNCHANGED <<clock, lock, figure, plots, plotFile, saveVars>>

(* with PLOT_LOCK: *)
Acquire(t) ==
    /\ tpc[t] = "flown" /\ lock[CampaignOf(t)] = Nothing
    /\ tpc' = [tpc EXCEPT ![t] = "locked"]
    /\ lock' = [lock EXCEPT ![CampaignOf(t)] = t]
    /\ UNCHANGED <<clock, figure, plots, plotFile, saveVars>>

(* plot_test draws on the process's current figure ... *)
DrawFlight(t) ==
    /\ tpc[t] = "locked"
    /\ tpc' = [tpc EXCEPT ![t] = "drawn"]
    /\ figure' = [figure EXCEPT ![CampaignOf(t)] = t]
    /\ UNCHANGED <<clock, lock, plots, plotFile, saveVars>>

(* ... saves it and returns the file's name; the lock is released. *)
SavePlot(t) ==
    /\ tpc[t] = "drawn"
    /\ tpc' = [tpc EXCEPT ![t] = "plotted"]
    /\ plots' = [plots EXCEPT ![PlotName(t, clock)] = figure[CampaignOf(t)]]
    /\ plotFile' = [plotFile EXCEPT ![t] = PlotName(t, clock)]
    /\ figure' = [figure EXCEPT ![CampaignOf(t)] = Nothing]
    /\ lock' = [lock EXCEPT ![CampaignOf(t)] = Nothing]
    /\ UNCHANGED <<clock, saveVars>>

(* Mutant: an exception leaves the lock taken. *)
PlotFailsLocked(t) ==
    /\ tpc[t] \in {"locked", "drawn"}
    /\ tpc' = [tpc EXCEPT ![t] = "failed"]
    /\ UNCHANGED <<clock, lock, figure, plots, plotFile, saveVars>>

(* plot_test raises: the lock is released, the attempt failed. *)
PlotFails(t) ==
    /\ tpc[t] \in {"locked", "drawn"}
    /\ tpc' = [tpc EXCEPT ![t] = "failed"]
    /\ lock' = [lock EXCEPT ![CampaignOf(t)] = Nothing]
    /\ UNCHANGED <<clock, figure, plots, plotFile, saveVars>>

-----------------------------------------------------------------------------
(* cli.py *)

(* generate returns some of the tests that were measured, each once, and   *)
(* the folder is made; it may exist.                                       *)
MakeFolder(c) ==
    /\ cpc[c] = "flying"
    /\ \A t \in TestsOf[c] : tpc[t] \in {"plotted", "failed"}
    /\ \E tests \in SUBSET {t \in TestsOf[c] : tpc[t] = "plotted"} :
          /\ Cardinality(tests) <= MaxSuite
          /\ \E order \in SetToSeqs(tests) : suite' = [suite EXCEPT ![c] = order]
    /\ stamp' = [stamp EXCEPT ![c] = clock]
    /\ cpc' = [cpc EXCEPT ![c] = "saving"]
    /\ UNCHANGED <<clock, plotVars, saved, out>>

(* The file to be written next: yaml, ulg and png of each test in turn. *)
Number(c) == 1 + (saved[c] \div 3)
KindOf(c) == <<"yaml", "ulg", "png">>[1 + (saved[c] % 3)]
Left(c) == saved[c] < 3 * Len(suite[c])

FileOf(c) ==
    LET t == suite[c][Number(c)] IN IF KindOf(c) = "png" THEN plots[plotFile[t]] ELSE t

WriteFile(c) ==
    /\ cpc[c] = "saving" /\ Left(c)
    /\ out' = [out EXCEPT ![<<stamp[c], Number(c), KindOf(c)>>] = FileOf(c)]
    /\ saved' = [saved EXCEPT ![c] = @ + 1]
    /\ UNCHANGED <<clock, plotVars, cpc, suite, stamp>>

(* A file cannot be written or copied: the program ends with status 1. *)
WriteFails(c) ==
    /\ cpc[c] = "saving" /\ Left(c)
    /\ cpc' = [cpc EXCEPT ![c] = "failed"]
    /\ UNCHANGED <<clock, plotVars, suite, stamp, saved, out>>

(* The number of tests and the folder are printed. *)
Report(c) ==
    /\ cpc[c] = "saving" /\ ~Left(c)
    /\ cpc' = [cpc EXCEPT ![c] = "printed"]
    /\ UNCHANGED <<clock, plotVars, suite, stamp, saved, out>>

PlotStep(t) == Acquire(t) \/ DrawFlight(t) \/ SavePlot(t)
SaveStep(c) == MakeFolder(c) \/ WriteFile(c) \/ Report(c)

Next ==
    \/ Tick
    \/ \E t \in Test : PlotStep(t) \/ PlotFails(t)
    \/ \E c \in Campaign : SaveStep(c) \/ WriteFails(c)

(* Threads and processes go on; a lock that stays free is got. *)
Fairness ==
    /\ \A t \in Test : WF_vars(DrawFlight(t)) /\ WF_vars(SavePlot(t)) /\ WF_vars(Acquire(t))
    /\ \A c \in Campaign : WF_vars(SaveStep(c))

Spec == Init /\ [][Next]_vars /\ Fairness

-----------------------------------------------------------------------------
(***************************************************************************)
(* Properties.                                                             *)
(***************************************************************************)

(* Types of the plotting and saving state. *)
TypeOK ==
    /\ clock \in Second
    /\ tpc \in [Test -> {"flown", "locked", "drawn", "plotted", "failed"}]
    /\ lock \in [Campaign -> Test \union {Nothing}]
    /\ figure \in [Campaign -> Test \union {Nothing}]
    /\ plots \in [PlotNames -> Test \union {Nothing}]
    /\ plotFile \in [Test -> PlotNames \union {NoName}]
    /\ cpc \in [Campaign -> {"flying", "saving", "printed", "failed"}]
    /\ suite \in [Campaign -> Seq(Test)]
    /\ \A c \in Campaign : suite[c] \in Seq(TestsOf[c]) /\ Len(suite[c]) <= MaxSuite
    /\ stamp \in [Campaign -> Second]
    /\ saved \in [Campaign -> Nat]
    /\ \A c \in Campaign : saved[c] <= 3 * Len(suite[c])
    /\ out \in [Second \X (1..MaxSuite) \X Kind -> Test \union {Nothing}]

(* The plot of a test shows its own flight, and goes on doing so, however  *)
(* many tests are plotted in the same second and by other processes.       *)
PlotsShowTheirFlight == \A t \in Test : tpc[t] = "plotted" => plots[plotFile[t]] = t

(* A campaign that reports success has a folder with exactly its suite in  *)
(* it: for each test the three files, all of them of that test, and        *)
(* nothing behind the last one.  The exception is a folder that two        *)
(* campaigns have made in the same second.                                 *)
FolderHoldsTheSuite ==
    \A c \in Campaign :
        /\ cpc[c] = "printed"
        /\ \A d \in Campaign \ {c} : cpc[d] # "flying" => stamp[d] # stamp[c]
        => \A i \in 1..MaxSuite, k \in Kind :
              out[<<stamp[c], i, k>>] = IF i <= Len(suite[c]) THEN suite[c][i] ELSE Nothing

(* Every file shows the test it belongs to. *)
FilesShowTheirTest == PlotsShowTheirFlight /\ FolderHoldsTheSuite

(* No flight waits for ever for its turn to be plotted, and every campaign *)
(* comes to an end, also when plots fail in between.                       *)
CampaignsEnd == \A c \in Campaign : <>(cpc[c] \in {"printed", "failed"})
=============================================================================
