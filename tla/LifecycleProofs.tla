----------------------------- MODULE LifecycleProofs -----------------------------
(*****************************************************************************)
(* Theorems about Lifecycle.tla.  The flags, the clients and the signals set *)
(* no order on the threads; what does is main()'s own sequence, so the       *)
(* inductive invariant says between which of its steps each thing main()     *)
(* makes is there and each thread it starts can be running.                  *)
(*****************************************************************************)
EXTENDS Lifecycle, TLAPS

\* Where main() is about to be while a thing is there...
TestgenUp  == {"run", "stop_testgen", "join_testgen"}
WorkersUp  == TestgenUp \cup {"wait_lcore"}
WebUp      == WorkersUp \cup {"launch", "free_ring", "web_stop"}
RingMade   == (WebUp \ {"web_stop"}) \cup {"web"}
ChainMade  == WebUp \cup {"ring", "web", "teardown"}
PluginsIn  == ChainMade \cup {"graph", "unload"}

\* ...and when it has been taken apart.
Ended       == {"cleanup", "exec"}
NoChain     == Ended \cup {"unload"}
WebDown     == NoChain \cup {"teardown"}
RingLet     == WebDown \cup {"web_stop"}
WorkersDown == RingLet \cup {"free_ring"}

Saving == {"validate", "open", "write"}

LifecycleType ==
  /\ main \in PluginsIn \cup Ended
       \cup {"init", "plugins", "exited", "failed", "killed"}
  /\ worker \in [Worker -> {"off", "top", "busy", "ended"}]
  /\ testgen \in {"off", "running", "ended"}
  /\ web \in Saving \cup {"off", "top", "poll", "recv", "send", "send_reload",
                       "set_reload", "set_quit", "ended"}
  /\ saved \in Graph /\ saving \in Graph \cup {Torn}

\* What main() makes is there from the step that makes it to the one that takes
\* it apart.
MadeInPlace ==
  /\ main \in PluginsIn => plugins
  /\ main \in ChainMade => chain # Torn
  /\ main \in RingMade => ring # "none"
  /\ main \in Ended => ~plugins
  /\ main \in NoChain => chain = Torn
  /\ main \in RingLet => ring # "owned"

\* A thread runs only between its launch and its join.
ThreadsInPlace ==
  /\ \A w \in Worker : worker[w] \in {"top", "busy"} => main \in WorkersUp
  /\ main \in WorkersDown => \A w \in Worker : worker[w] = "ended"
  /\ testgen = "running" => main \in TestgenUp
  /\ web \notin {"off", "ended"} => main \in WebUp

\* The web thread holds a graph to save exactly while it saves it, and the file is
\* the graph it last told a client is saved, or what a write has left.
FileInPlace ==
  /\ web \in Saving <=> saving # Torn
  /\ web = "write" => graph_file = Torn
  /\ graph_file # Torn => graph_file = saved
  /\ main = "ring" => chain = saved

LifecycleInv == LifecycleType /\ MadeInPlace /\ ThreadsInPlace /\ FileInPlace

-------------------------------------------------------------------------------

LEMMA LifecycleStarts == LifecycleInit => LifecycleInv
BY LifecycleAssumption
   DEF LifecycleInit, LifecycleInv, LifecycleType, MadeInPlace, ThreadsInPlace,
       FileInPlace, NoWorker, TestgenUp, WorkersUp, WebUp, RingMade, ChainMade, PluginsIn,
       Ended, NoChain, WebDown, RingLet, WorkersDown, Saving

\* main() makes a thing before it starts a thread that uses it, and joins the
\* thread before it takes the thing apart (main.c:388-579).
LEMMA MainKeepsPlaces == LifecycleInv /\ Main => LifecycleInv'
<1> SUFFICES ASSUME LifecycleInv, Main PROVE LifecycleInv'
  OBVIOUS
<1> USE DEF LifecycleInv, LifecycleType, MadeInPlace, ThreadsInPlace, FileInPlace,
            TestgenUp, WorkersUp, WebUp, RingMade, ChainMade, PluginsIn,
            Ended, NoChain, WebDown, RingLet, WorkersDown, Saving,
            MainTo, NoWorker, flags, made, store, threads
<1>1. CASE Fail
  BY <1>1 DEF Fail
<1>2. CASE InstallHandlers
  BY <1>2 DEF InstallHandlers
<1>3. CASE LoadPlugins
  BY <1>3 DEF LoadPlugins
<1>4. CASE LoadGraph
  BY <1>4 DEF LoadGraph
<1>5. CASE GetRing
  BY <1>5 DEF GetRing
<1>6. CASE StartWeb
  BY <1>6 DEF StartWeb
<1>7. CASE Launch
  BY <1>7 DEF Launch
<1>8. CASE LeaveLoop
  BY <1>8 DEF LeaveLoop
<1>9. CASE StopTestgen
  BY <1>9 DEF StopTestgen
<1>10. CASE JoinTestgen
  BY <1>10 DEF JoinTestgen
<1>11. CASE WaitLcore
  BY <1>11 DEF WaitLcore
<1>12. CASE FreeRing
  BY <1>12 DEF FreeRing
<1>13. CASE WebStop
  BY <1>13 DEF WebStop
<1>14. CASE Teardown
  BY <1>14 DEF Teardown
<1>15. CASE Unload
  BY <1>15 DEF Unload
<1>16. CASE Cleanup
  BY <1>16 DEF Cleanup
<1>17. CASE Exec
  BY <1>17 DEF Exec
<1>18. CASE ExecFails
  BY <1>18 DEF ExecFails
<1> QED
  BY <1>1, <1>2, <1>3, <1>4, <1>5, <1>6, <1>7, <1>8, <1>9, <1>10, <1>11, <1>12,
     <1>13, <1>14, <1>15, <1>16, <1>17, <1>18 DEF Main

\* The web thread saves one graph at a time and starts nothing of main()'s.
LEMMA WebKeepsPlaces == LifecycleInv /\ (WebRuns \/ WebClient) => LifecycleInv'
<1> SUFFICES ASSUME LifecycleInv, WebRuns \/ WebClient PROVE LifecycleInv'
  OBVIOUS
<1> USE LifecycleAssumption
        DEF LifecycleInv, LifecycleType, MadeInPlace, ThreadsInPlace, FileInPlace,
            TestgenUp, WorkersUp, WebUp, RingMade, ChainMade, PluginsIn,
            Ended, NoChain, WebDown, RingLet, WorkersDown, Saving,
            WebTo, flags, made, store, threads
<1>1. CASE CheckQuit
  BY <1>1 DEF CheckQuit
<1>2. CASE PollTimesOut
  BY <1>2 DEF PollTimesOut
<1>3. CASE Accept
  BY <1>3 DEF Accept
<1>4. CASE Answer
  BY <1>4 DEF Answer
<1>5. CASE \E g \in Graph : RequestSave(g)
  BY <1>5 DEF RequestSave
<1>6. CASE Validate
  BY <1>6 DEF Validate
<1>7. CASE OpenGraphFile
  BY <1>7 DEF OpenGraphFile
<1>8. CASE WriteGraphFile
  BY <1>8 DEF WriteGraphFile
<1>9. CASE RequestReload
  BY <1>9 DEF RequestReload
<1>10. CASE SetReload
  BY <1>10 DEF SetReload
<1>11. CASE SetQuit
  BY <1>11 DEF SetQuit
<1>12. CASE Sent
  BY <1>12 DEF Sent
<1> QED
  BY <1>1, <1>2, <1>3, <1>4, <1>5, <1>6, <1>7, <1>8, <1>9, <1>10, <1>11, <1>12
     DEF WebRuns, WebClient

LEMMA LifecycleStepKeepsInv == LifecycleInv /\ [LifecycleNext]_vars => LifecycleInv'
<1> SUFFICES ASSUME LifecycleInv, [LifecycleNext]_vars PROVE LifecycleInv'
  OBVIOUS
<1> DEFINE Others == Signal \/ (\E w \in Worker : CheckStop(w) \/ FinishItem(w)) \/ EndTestgen
<1>1. CASE Others
  <2> USE DEF LifecycleInv, LifecycleType, MadeInPlace, ThreadsInPlace, FileInPlace,
              TestgenUp, WorkersUp, WebUp, RingMade, ChainMade, PluginsIn,
              Ended, NoChain, WebDown, RingLet, WorkersDown, Saving,
              flags, made, store, threads
  <2>1. CASE Signal
    BY <2>1 DEF Signal, Alive
  <2>2. ASSUME NEW w \in Worker, CheckStop(w) PROVE LifecycleInv'
    BY <2>2 DEF CheckStop, WorkerTo
  <2>3. ASSUME NEW w \in Worker, FinishItem(w) PROVE LifecycleInv'
    BY <2>3 DEF FinishItem, WorkerTo
  <2>4. CASE EndTestgen
    BY <2>4 DEF EndTestgen
  <2> QED
    BY <1>1, <2>1, <2>2, <2>3, <2>4
<1>2. CASE UNCHANGED vars
  BY <1>2 DEF vars, flags, made, store, threads, LifecycleInv, LifecycleType,
              MadeInPlace, ThreadsInPlace, FileInPlace
<1> QED
  BY <1>1, <1>2, MainKeepsPlaces, WebKeepsPlaces DEF LifecycleNext, Over

THEOREM LifecycleKeepsPlaces == LifecycleSpec => []LifecycleInv
BY LifecycleStarts, LifecycleStepKeepsInv, PTL DEF LifecycleSpec

-------------------------------------------------------------------------------

\* However signals, reloads, saves and the threads' own ends are ordered, no
\* thread uses what main() has not made yet or has taken apart: a worker the
\* plugins, the chain and the ring, testgen the ring, the web thread the plugins
\* it runs to validate a graph (main.c:388-579).
THEOREM ThreadsKeepTheirs == LifecycleSpec => []ThreadsHaveTheirs
<1>1. LifecycleInv => ThreadsHaveTheirs
  BY DEF LifecycleInv, LifecycleType, MadeInPlace, ThreadsInPlace, ThreadsHaveTheirs,
         TestgenUp, WorkersUp, WebUp, RingMade, ChainMade, PluginsIn
<1> QED
  BY <1>1, LifecycleKeepsPlaces, PTL

\* When main() gets as far as execv() nothing of the old image is left: every
\* worker has ended, no other thread runs, no instance, plugin or ring of its own
\* is there, and no save is half-way (main.c:569-579).
THEOREM ReexecsClean == LifecycleSpec => []CleanReexec
<1>1. LifecycleInv => CleanReexec
  BY DEF LifecycleInv, LifecycleType, MadeInPlace, ThreadsInPlace, FileInPlace, CleanReexec,
         TestgenUp, WorkersUp, WebUp, Ended, NoChain, WebDown, RingLet, WorkersDown, Saving
<1> QED
  BY <1>1, LifecycleKeepsPlaces, PTL

\* The process runs the graph that clients were last told is saved, however saves
\* and re-executions cross, and the file holds that graph or what a write that
\* failed half-way left (web_status.c:655-674, main.c:388-394).
THEOREM RunsSavedGraph == LifecycleSpec => []SavedGraphRuns
<1>1. LifecycleInv => SavedGraphRuns
  BY DEF LifecycleInv, FileInPlace, SavedGraphRuns
<1> QED
  BY <1>1, LifecycleKeepsPlaces, PTL
===============================================================================
