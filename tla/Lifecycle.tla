------------------------------- MODULE Lifecycle --------------------------------
(*****************************************************************************)
(* src/src/main.c and the thread of src/src/web_status.c: how a process is   *)
(* started, stopped by a signal or by POST /api/reload, taken apart, and     *)
(* re-executed.  Its threads (main, worker lcores, testgen, web server) and  *)
(* the signal handler share two flags; what they use (plugins, chain, ring,  *)
(* the web server's context) is made and destroyed by main() alone.          *)
(*                                                                           *)
(* The inside of the pool is PipelineWorker.tla's; here a worker is at the   *)
(* top of its loop or using what main() gave it.                             *)
(*****************************************************************************)
EXTENDS Naturals, FiniteSets

CONSTANTS
  Worker,     \* the worker lcores
  Graph,      \* the graphs that can be in the --graph file
  Torn,       \* what is there while, or after, a save has not written it all
  MaxExecs,   \* bound: how often the process re-executes itself
  MaxSaves    \* bound: how many saves the clients ask for

ASSUME LifecycleAssumption ==
  IsFiniteSet(Worker) /\ Torn \notin Graph /\ MaxExecs \in Nat /\ MaxSaves \in Nat

VARIABLES
  main,         \* what main() is about to do
  shutdown,     \* g_shutdown_requested
  reload,       \* g_reload_requested
  plugins,      \* the plugins are dlopen()ed
  chain,        \* the graph the live chain was loaded from, or Torn for none
  ring,         \* the input ring: this process made it, found it, or neither
  worker,       \* each worker lcore
  testgen,      \* the testgen thread
  tg_stop,      \* testgen.c's g_stop_requested
  web,          \* the web server's thread
  saving,       \* the graph its request saves
  graph_file,   \* what the --graph file holds
  saved,        \* history: the last graph a client was told is saved
  signalled,    \* history: this process has had SIGINT or SIGTERM
  execs, saves  \* how often it has re-executed itself, and saves asked for

flags   == <<shutdown, reload, signalled>>
made    == <<plugins, chain, ring>>
store   == <<saving, graph_file, saved, saves>>
threads == <<worker, testgen, tg_stop>>
vars    == <<main, flags, made, threads, web, store, execs>>

-------------------------------------------------------------------------------

NoWorker == [w \in Worker |-> "off"]

LifecycleInit ==
  /\ main = "init"
  /\ shutdown = FALSE /\ reload = FALSE /\ signalled = FALSE
  /\ plugins = FALSE /\ chain = Torn /\ ring = "none"
  /\ worker = NoWorker /\ testgen = "off" /\ tg_stop = FALSE
  /\ web = "off"
  /\ graph_file \in Graph
  /\ saving = Torn /\ saved = graph_file
  /\ execs = 0 /\ saves = 0

MainTo(from, to) == main = from /\ main' = to

\* rte_exit() and the error returns: the process ends, with every thread in it.
Fail ==
  /\ main \in {"init", "plugins", "graph", "ring", "launch"}
  /\ main' = "failed"
  /\ worker' = NoWorker /\ testgen' = "off" /\ web' = "off"
  /\ saving' = Torn
  /\ UNCHANGED <<flags, made, tg_stop, graph_file, saved, saves, execs>>

\* EAL, options, and the two signal handlers.
InstallHandlers ==
  /\ MainTo("init", "plugins")
  /\ UNCHANGED <<flags, made, threads, web, store, execs>>

LoadPlugins ==
  /\ MainTo("plugins", "graph")
  /\ plugins' = TRUE
  /\ UNCHANGED <<flags, chain, ring, threads, web, store, execs>>

LoadGraph ==
  /\ graph_file # Torn
  /\ MainTo("graph", "ring")
  /\ chain' = graph_file
  /\ UNCHANGED <<flags, plugins, ring, threads, web, store, execs>>

\* ring_input_create()
GetRing ==
  /\ MainTo("ring", "web")
  /\ ring' \in {"owned", "attached"}
  /\ UNCHANGED <<flags, plugins, chain, threads, web, store, execs>>

\* web_status_start(); a port of 0 or one that cannot be had leaves no server.
StartWeb ==
  /\ MainTo("web", "launch")
  /\ web' \in {"off", "top"}
  /\ UNCHANGED <<flags, made, threads, store, execs>>

Launch ==
  /\ MainTo("launch", "run")
  /\ testgen' \in {"off", "running"}
  /\ worker' = [w \in Worker |-> "top"]
  /\ UNCHANGED <<flags, made, tg_stop, web, store, execs>>

\* while (!g_shutdown_requested)
LeaveLoop ==
  /\ shutdown
  /\ MainTo("run", "stop_testgen")
  /\ UNCHANGED <<flags, made, threads, web, store, execs>>

\* Mutant: the thread is joined without being told.
StopTestgenUntold ==
  /\ MainTo("stop_testgen", "join_testgen")
  /\ UNCHANGED <<flags, made, threads, web, store, execs>>

StopTestgen ==
  /\ MainTo("stop_testgen", "join_testgen")
  /\ tg_stop' = (testgen # "off")
  /\ UNCHANGED <<flags, made, worker, testgen, web, store, execs>>

JoinTestgen ==
  /\ testgen # "running"
  /\ MainTo("join_testgen", "wait_lcore")
  /\ UNCHANGED <<flags, made, threads, web, store, execs>>

\* rte_eal_mp_wait_lcore()
WaitLcore ==
  /\ \A w \in Worker : worker[w] = "ended"
  /\ MainTo("wait_lcore", "free_ring")
  /\ UNCHANGED <<flags, made, threads, web, store, execs>>

\* Mutant: the wrong ring freed.
FreeRingAttached ==
  /\ MainTo("free_ring", "web_stop")
  /\ ring' = IF ring = "attached" THEN "none" ELSE ring
  /\ UNCHANGED <<flags, plugins, chain, threads, web, store, execs>>

\* The owner drains the ring and frees it.
FreeRing ==
  /\ MainTo("free_ring", "web_stop")
  /\ ring' = IF ring = "owned" THEN "none" ELSE ring
  /\ UNCHANGED <<flags, plugins, chain, threads, web, store, execs>>

\* Mutant: the listening socket closed, the thread not joined.
WebStopNoJoin ==
  /\ MainTo("web_stop", "teardown")
  /\ UNCHANGED <<flags, made, threads, web, store, execs>>

\* web_status_stop()
WebStop ==
  /\ web \in {"off", "ended"}
  /\ MainTo("web_stop", "teardown")
  /\ UNCHANGED <<flags, made, threads, web, store, execs>>

Teardown ==
  /\ MainTo("teardown", "unload")
  /\ chain' = Torn
  /\ UNCHANGED <<flags, plugins, ring, threads, web, store, execs>>

\* plugin_loader_shutdown()
Unload ==
  /\ MainTo("unload", "cleanup")
  /\ plugins' = FALSE
  /\ UNCHANGED <<flags, chain, ring, threads, web, store, execs>>

\* rte_eal_cleanup(), then the one look at g_reload_requested.
Cleanup ==
  /\ MainTo("cleanup", IF reload THEN "exec" ELSE "exited")
  /\ UNCHANGED <<flags, made, threads, web, store, execs>>

\* execv(): the same process, a new image, as at the first launch.
Exec ==
  /\ execs < MaxExecs
  /\ MainTo("exec", "init")
  /\ execs' = execs + 1
  /\ shutdown' = FALSE /\ reload' = FALSE /\ signalled' = FALSE
  /\ worker' = NoWorker /\ testgen' = "off" /\ tg_stop' = FALSE
  /\ web' = "off"
  /\ plugins' = FALSE /\ chain' = Torn /\ ring' = "none"
  /\ UNCHANGED store

ExecFails ==
  /\ MainTo("exec", "failed")
  /\ UNCHANGED <<flags, made, threads, web, store, execs>>

Main ==
  \/ Fail
  \/ InstallHandlers \/ LoadPlugins \/ LoadGraph \/ GetRing \/ StartWeb \/ Launch
  \/ LeaveLoop \/ StopTestgen \/ JoinTestgen \/ WaitLcore \/ FreeRing \/ WebStop
  \/ Teardown \/ Unload \/ Cleanup \/ Exec \/ ExecFails

Alive == main \notin {"exited", "failed", "killed"}

\* SIGINT or SIGTERM: the handler sets one flag.  Before it is installed, the
\* default action ends the process.
Signal ==
  /\ Alive /\ ~signalled
  /\ IF main = "init"
       THEN main' = "killed" /\ UNCHANGED flags
       ELSE /\ shutdown' = TRUE /\ signalled' = TRUE
            /\ UNCHANGED <<main, reload>>
  /\ UNCHANGED <<made, threads, web, store, execs>>

WorkerTo(w, from, to) == worker[w] = from /\ worker' = [worker EXCEPT ![w] = to]

\* pipeline_worker_lcore_main()
CheckStop(w) ==
  /\ WorkerTo(w, "top", IF shutdown THEN "ended" ELSE "busy")
  /\ UNCHANGED <<main, flags, made, testgen, tg_stop, web, store, execs>>

FinishItem(w) ==
  /\ WorkerTo(w, "busy", "top")
  /\ UNCHANGED <<main, flags, made, testgen, tg_stop, web, store, execs>>

\* testgen_run() returns: told to, or because its count is reached.
EndTestgen ==
  /\ testgen = "running"
  /\ testgen' = "ended"
  /\ UNCHANGED <<main, flags, made, worker, tg_stop, web, store, execs>>

-------------------------------------------------------------------------------
\* server_thread_main(): one connection at a time.

WebTo(from, to) == web = from /\ web' = to

\* while (!*ctx->quit_flag)
CheckQuit ==
  /\ WebTo("top", IF shutdown THEN "ended" ELSE "poll")
  /\ UNCHANGED <<main, flags, made, threads, store, execs>>

PollTimesOut ==
  /\ WebTo("poll", "top")
  /\ UNCHANGED <<main, flags, made, threads, store, execs>>

\* The flag was down when the loop looked at it; it may be up by now.
Accept ==
  /\ WebTo("poll", "recv")
  /\ UNCHANGED <<main, flags, made, threads, store, execs>>

\* read_http_request() blocks until the client has sent its request or closes; a
\* request that only reads, or a bad one, is answered.
Answer ==
  /\ WebTo("recv", "send")
  /\ UNCHANGED <<main, flags, made, threads, store, execs>>

\* send_response() blocks while the client reads nothing and the socket is full.
Sent ==
  /\ WebTo("send", "top") \/ WebTo("send_reload", "set_reload")
  /\ UNCHANGED <<main, flags, made, threads, store, execs>>

\* POST /api/graph and POST /api/graphs/load
RequestSave(g) ==
  /\ saves < MaxSaves
  /\ WebTo("recv", "validate")
  /\ saves' = saves + 1
  /\ saving' = g
  /\ UNCHANGED <<main, flags, made, threads, graph_file, saved, execs>>

\* validate_graph_file() runs the plugins' init() and teardown().
Validate ==
  /\ web = "validate"
  /\ \/ web' = "open" /\ UNCHANGED saving
     \/ web' = "send" /\ saving' = Torn
  /\ UNCHANGED <<main, flags, made, threads, graph_file, saved, saves, execs>>

\* activate_graph(): fopen(graph_path, "wb") fails, or empties the file...
OpenGraphFile ==
  /\ web = "open"
  /\ \/ web' = "write" /\ graph_file' = Torn /\ UNCHANGED saving
     \/ web' = "send" /\ saving' = Torn /\ UNCHANGED graph_file
  /\ UNCHANGED <<main, flags, made, threads, saved, saves, execs>>

\* Mutant: a save that worked is reported as one that did not.
WriteGraphFileUnsaid ==
  /\ WebTo("write", "send")
  /\ graph_file' \in {saving, Torn}
  /\ saving' = Torn
  /\ UNCHANGED <<main, flags, made, threads, saved, saves, execs>>

\* ...and fwrite() and fclose() fill it, or do not.  The client is told what
\* fwrite() said: a failure of fclose() to write what was buffered is not seen.
WriteGraphFile ==
  /\ WebTo("write", "send")
  /\ \/ graph_file' = saving /\ saved' = saving
     \/ graph_file' = Torn /\ saved' \in {saved, saving}
  /\ saving' = Torn
  /\ UNCHANGED <<main, flags, made, threads, saves, execs>>

\* POST /api/reload: the answer, then one flag, then the other.
RequestReload ==
  /\ WebTo("recv", "send_reload")
  /\ UNCHANGED <<main, flags, made, threads, store, execs>>

SetReload ==
  /\ WebTo("set_reload", "set_quit")
  /\ reload' = TRUE
  /\ UNCHANGED <<main, shutdown, signalled, made, threads, store, execs>>

SetQuit ==
  /\ WebTo("set_quit", "top")
  /\ shutdown' = TRUE
  /\ UNCHANGED <<main, reload, signalled, made, threads, store, execs>>

\* What the web thread does of itself, once it has a request.
WebRuns ==
  \/ CheckQuit \/ Validate \/ OpenGraphFile \/ WriteGraphFile \/ SetReload \/ SetQuit

WebClient ==
  \/ PollTimesOut \/ Accept \/ Answer \/ Sent
  \/ \E g \in Graph : RequestSave(g)
  \/ RequestReload

Over ==
  /\ ~Alive \/ (main = "exec" /\ execs = MaxExecs)
  /\ UNCHANGED vars

LifecycleNext ==
  \/ Main
  \/ Signal
  \/ \E w \in Worker : CheckStop(w) \/ FinishItem(w)
  \/ EndTestgen
  \/ WebRuns \/ WebClient
  \/ Over

LifecycleSpec == LifecycleInit /\ [][LifecycleNext]_vars

\* The system runs every thread, a record's walk and a plugin's init() return, and
\* poll() has a timeout, and testgen looks at its flag; clients and signals come
\* when they like, if at all.
LifecycleFairSpec ==
  /\ LifecycleSpec
  /\ WF_vars(Main) /\ WF_vars(WebRuns \/ PollTimesOut \/ Accept)
  /\ WF_vars(EndTestgen /\ tg_stop)
  /\ \A w \in Worker : WF_vars(CheckStop(w) \/ FinishItem(w))

-------------------------------------------------------------------------------

\* No thread uses what main() has not made yet or has taken apart: a worker runs
\* with the chain, the ring and the plugins there, testgen with the ring, and the
\* web thread, which runs plugin code to validate a graph, with the plugins
\* (main.c:554-559).
ThreadsHaveTheirs ==
  Alive =>
    /\ \A w \in Worker : worker[w] = "busy" => chain # Torn /\ ring # "none" /\ plugins
    /\ testgen = "running" => ring # "none"
    /\ web \notin {"off", "ended"} => plugins /\ chain # Torn

\* Nothing of the old image is left when it re-executes itself: no thread, no
\* instance, no plugin, no ring of its own, no half-finished save (main.c:569-579).
CleanReexec ==
  main = "exec" =>
    /\ \A w \in Worker : worker[w] = "ended"
    /\ testgen # "running" /\ web \in {"off", "ended"}
    /\ ~plugins /\ chain = Torn /\ ring # "owned"
    /\ saving = Torn

\* A process that runs after a reload runs the graph that clients were last told
\* is saved, whatever saves and reloads crossed; only a write that failed half-way
\* leaves another file, and nothing can start from that one (web_status.c:655-674,
\* main.c:388-394).
SavedGraphRuns ==
  /\ main = "ring" => chain = saved
  /\ graph_file # saved => graph_file = Torn

\* A stop request, by signal or by reload, ends the process image, whatever the
\* threads are at: only a client that never finishes sending its request, or never
\* takes its answer, and so holds the web thread in recv() or in send() for good, can
\* keep it from ending (web_status.c:244-283, 300-301).
Gone == ~Alive \/ main \in {"exec", "init"}
HeldInRecv == <>[](web = "recv")
HeldInSend == <>[](web \in {"send", "send_reload"})
StopEnds == (shutdown ~> Gone) \/ HeldInRecv \/ HeldInSend

\* docs/MANAGEMENT.md:95-97: SIGINT and SIGTERM do not re-exec, the process exits
\* for good.
SignalExits == main = "exec" => ~signalled
===============================================================================
