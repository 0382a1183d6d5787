---------------------------- MODULE Applications ----------------------------
(***************************************************************************)
(* The programs of bin/: ReaderApp and WriterApp, each a thread that runs  *)
(* a loop until it is told to stop, and the main functions that start one  *)
(* or both, wait for SIGINT, stop them and join them.  A step is a load or *)
(* a store of one of the flags, or a call of Read or Write, of which only  *)
(* the outcome matters here: Reader has the calls themselves.              *)
(***************************************************************************)
EXTENDS Naturals

Apps == {"reader", "writer"}

VARIABLES
  apps,      \* which apps the program runs, and does not change
  mainPc,    \* what main does next
  target,    \* the app main is about to stop or to join
  gRunning,  \* g_Running
  running,   \* m_Running of each app
  runPc,     \* what Run of each app does next
  failed,    \* history: Read returned an error, and Run left its loop
  unheard    \* history: the apps that were stopped before they ran

appVars == <<apps, mainPc, target, gRunning, running, runPc, failed, unheard>>

threadVars == <<running, runPc, failed>>

Has(a) == a \in apps

----------------------------------------------------------------------------
(* Mutations of the definitions below. *)

OnlyOnSignal == ~gRunning

----------------------------------------------------------------------------
(* main stops the writer first, and joins it first. *)
First == IF Has("writer") THEN "writer" ELSE "reader"

(* The loop of main is over. *)
LoopIsOver == ~gRunning \/ (Has("reader") /\ ~running["reader"])

(* What follows the loop. *)
AfterLoop == "stop"

(* Stop. *)
LowerFlag(a) == running' = [running EXCEPT ![a] = FALSE]

AppInit ==
  /\ apps \in {{"reader"}, {"writer"}, Apps}
  /\ mainPc = IF Has("reader") THEN "await" ELSE "serve"
  /\ target = First
  /\ gRunning = TRUE
  /\ running = [a \in Apps |-> FALSE]
  /\ runPc = [a \in Apps |-> IF a \in apps THEN "start" ELSE "ended"]
  /\ failed = FALSE
  /\ unheard = {}

(* SIGINT, at any time. *)
Interrupt ==
  /\ gRunning
  /\ gRunning' = FALSE
  /\ UNCHANGED <<apps, mainPc, target, threadVars, unheard>>

(* main waits to see the reader run, and then for a reason to stop. *)
SeeReaderRun ==
  /\ mainPc = "await" /\ running["reader"]
  /\ mainPc' = "serve"
  /\ UNCHANGED <<apps, target, gRunning, threadVars, unheard>>

LeaveLoop ==
  /\ mainPc = "serve" /\ LoopIsOver
  /\ mainPc' = AfterLoop
  /\ UNCHANGED <<apps, target, gRunning, threadVars, unheard>>

(* On to the next app, or to what follows the last. *)
NextTarget(then) ==
  LET more == target = "writer" /\ Has("reader")
  IN  /\ target' = IF more THEN "reader" ELSE First
      /\ mainPc' = IF more THEN mainPc ELSE then

Stop(a) ==
  /\ mainPc = "stop" /\ target = a
  /\ LowerFlag(a)
  /\ unheard' = IF runPc[a] = "start" THEN unheard \cup {a} ELSE unheard
  /\ NextTarget("join")
  /\ UNCHANGED <<apps, gRunning, runPc, failed>>

Join(a) ==
  /\ mainPc = "join" /\ target = a /\ runPc[a] = "ended"
  /\ NextTarget("done")
  /\ UNCHANGED <<apps, gRunning, threadVars, unheard>>

Main ==
  \/ SeeReaderRun \/ LeaveLoop
  \/ \E a \in Apps : Stop(a) \/ Join(a)

RunTo(a, step) ==
  /\ runPc' = [runPc EXCEPT ![a] = step]
  /\ UNCHANGED <<apps, mainPc, target, gRunning, unheard>>

(* Run raises the flag that Stop lowers. *)
Start(a) ==
  /\ runPc[a] = "start"
  /\ running' = [running EXCEPT ![a] = TRUE]
  /\ RunTo(a, "test")
  /\ UNCHANGED failed

TestFlag(a) ==
  /\ runPc[a] = "test"
  /\ RunTo(a, IF running[a] THEN "call" ELSE "end")
  /\ UNCHANGED <<running, failed>>

(* Write, or a Read that returns a message or nothing. *)
CallSucceeds(a) ==
  /\ runPc[a] = "call"
  /\ RunTo(a, "test")
  /\ UNCHANGED <<running, failed>>

ReadFails ==
  /\ runPc["reader"] = "call"
  /\ failed' = TRUE
  /\ RunTo("reader", "end")
  /\ UNCHANGED running

(* Run returns; the reader's lowers its own flag first. *)
End(a) ==
  /\ runPc[a] = "end"
  /\ IF a = "reader" THEN LowerFlag(a) ELSE UNCHANGED running
  /\ RunTo(a, "ended")
  /\ UNCHANGED failed

Run(a) == Start(a) \/ TestFlag(a) \/ CallSucceeds(a) \/ End(a)

AppNext == Interrupt \/ Main \/ ReadFails \/ (\E a \in Apps : Run(a))

AppSpec == AppInit /\ [][AppNext]_appVars

(* The scheduler starves no thread; nothing makes a signal come or a Read  *)
(* fail.                                                                   *)
FairAppSpec == AppSpec /\ WF_appVars(Main) /\ \A a \in Apps : WF_appVars(Run(a))

----------------------------------------------------------------------------
AppTypeOK ==
  /\ apps \subseteq Apps
  /\ mainPc \in {"await", "serve", "stop", "join", "done"}
  /\ target \in apps
  /\ gRunning \in BOOLEAN
  /\ running \in [Apps -> BOOLEAN]
  /\ runPc \in [Apps -> {"start", "test", "call", "end", "ended"}]
  /\ failed \in BOOLEAN
  /\ unheard \subseteq apps
  /\ \A a \in Apps \ apps : runPc[a] = "ended"

(* The reader's Run was over before main saw it run. *)
Missed == mainPc = "await" /\ runPc["reader"] \in {"end", "ended"}

(***************************************************************************)
(* A thread that main joins has its flag down for good: Run does not raise *)
(* it again, unless main told it to stop before it had begun               *)
(* (ReaderWriterApp.cpp:35-39, ReaderApp.hpp:32, WriterApp.hpp:31).        *)
(***************************************************************************)
JoinedWillEnd ==
  \A a \in apps : mainPc = "join" /\ a \notin unheard =>
    runPc[a] # "start" /\ ~running[a]

(***************************************************************************)
(* main returns, and destroys its apps, the reader or writer with them,    *)
(* only when no thread runs them any more (ReaderWriterApp.cpp:37-39).     *)
(***************************************************************************)
NoThreadOutlivesMain ==
  mainPc = "done" => \A a \in apps : runPc[a] = "ended"

(***************************************************************************)
(* A program that gets a signal, or whose reader gets an error, ends,      *)
(* whatever its threads were doing.  Two races are excepted: a thread that *)
(* is told to stop before it runs never hears of it, and a reader that     *)
(* fails before main has seen it run leaves main waiting for it            *)
(* (ReaderWriterApp.cpp:26-39, ReaderApp.cpp, WriterApp.cpp).              *)
(***************************************************************************)
EndsWhenToldTo ==
  (~gRunning \/ failed) ~> (mainPc = "done" \/ unheard # {} \/ Missed)
=============================================================================
