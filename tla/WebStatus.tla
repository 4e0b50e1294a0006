------------------------------- MODULE WebStatus --------------------------------
(*****************************************************************************)
(* The graph requests of src/src/web_status.c in one program: main() loads   *)
(* the plugins and the --graph file, makes the input ring, which no other    *)
(* process has made, and runs the chain, while the web thread, one request   *)
(* at a time, checks graphs by loading them, saves them to the --graph file  *)
(* and keeps a library of them, in which the operator also edits by hand.    *)
(* The program is stopped, or killed, and started again with what is on      *)
(* disk.                                                                     *)
(*                                                                           *)
(* The threads, the flags and the order of the shutdown are Lifecycle.tla's. *)
(* A request's temporary file is a private copy of its body, gone before the *)
(* outcome is looked at; a request that fails before it changes anything is  *)
(* a step that is not taken.                                                 *)
(*****************************************************************************)
EXTENDS StageResources

CONSTANTS
  RingGraph,  \* those graphs whose ring_size rte_ring_create() takes
  Name,       \* valid_graph_name()s
  Torn,       \* a file or text that has not been written or read, or not all of it
  Absent,     \* no file, or no text
  MaxStarts,  \* bound: how often the program is started again
  MaxEdits    \* bound: how often the operator edits the library

ASSUME WebAssumption ==
  /\ RingGraph \subseteq Graph
  /\ Torn \notin Graph /\ Absent \notin Graph /\ Torn # Absent
  /\ {MaxStarts, MaxEdits} \subseteq Nat

VARIABLES
  main,        \* where main() stands
  step,        \* where the web thread stands in a request
  op,          \* the request: POST /api/graph "save", /api/graphs "upload",
               \* /api/graphs/load "load", /api/probe-port-count "probe"
  name,        \* the name it gave
  body,        \* the graph it is about
  graph_file,  \* what is in the --graph file
  shown,       \* current_graph_json, for GET /api/graph
  library,     \* what is in --graphs-dir under each name
  raced,       \* history: a graph was loaded that is not the one that was checked
  starts, edits

requestVars == <<step, op, name, body>>
savedVars   == <<graph_file, shown, raced>>
webVars     == <<main, requestVars, savedVars, library, starts, edits>>
vars        == <<loaderVars, stageVars, webVars>>

Idle    == step = "idle"
GoIdle  == step' = "idle" /\ op' = "none" /\ name' = Absent /\ body' = Absent
Serving == main = "serving"

-------------------------------------------------------------------------------
\* main(): start, run, stop

WebInit ==
  /\ LoaderInit /\ StagesInit
  /\ main = "plugins"
  /\ step = "idle" /\ op = "none" /\ name = Absent /\ body = Absent
  /\ graph_file \in Graph /\ shown = Absent /\ raced = FALSE
  /\ library = [n \in Name |-> Absent]
  /\ starts = 0 /\ edits = 0

LoadPlugins ==
  /\ main = "plugins" /\ Load
  /\ main' = CASE loader' = "loaded" -> "graph" [] loader' = "failed" -> "failed"
               [] OTHER -> "plugins"
  /\ UNCHANGED <<stageVars, requestVars, savedVars, library, starts, edits>>

StartLoad ==
  /\ main = "graph" /\ target = <<>> /\ graph_file # Torn
  /\ BeginPass(graph_file)
  /\ UNCHANGED <<live, dumpVars, loaderVars, webVars>>

StartInit ==
  /\ main = "graph" /\ InitNode
  /\ UNCHANGED <<loaderVars, webVars>>

\* graph_config_load() fails, rte_exit()
StartFails ==
  /\ main = "graph" /\ (graph_file = Torn \/ (target # <<>> /\ Refused))
  /\ main' = "failed"
  /\ TeardownPass
  /\ UNCHANGED <<live, dumpVars, loaderVars, requestVars, savedVars, library, starts, edits>>

\* graph_config_load() returns true.
StartLoaded ==
  /\ main = "graph" /\ target # <<>> /\ GoLive
  /\ main' = "ring"
  /\ UNCHANGED <<loaderVars, requestVars, savedVars, library, starts, edits>>

\* ring_input_create().  The text for GET /api/graph is then read once more; it may
\* not be had, and nobody asks whether fread() gave all of it.
StartDone ==
  /\ main = "ring" /\ live \in RingGraph
  /\ main' = "serving"
  /\ shown' \in {graph_file, Torn, Absent}
  /\ UNCHANGED <<loaderVars, stageVars, requestVars, graph_file, raced, library, starts, edits>>

\* The end of the process without any teardown.
Ends ==
  /\ main' = "failed"
  /\ ReleaseStages
  /\ GoIdle
  /\ shown' = Absent
  /\ UNCHANGED <<loaderVars, graph_file, raced, library, starts, edits>>

\* No ring of that size, or no memory for it: rte_exit().
RingFails == main = "ring" /\ Ends

\* Killed, at whatever the threads are; or rte_exit() where main() cannot have its
\* generator thread or its worker contexts, with the web thread already there.
Killed == main \in {"serving", "stopping"} /\ Ends

\* The workers call process(); what is left in a buffer is written by fclose().
Work ==
  /\ \/ Serving /\ \E i \in DOMAIN dump : WriteBinary(i) \/ WriteText(i)
     \/ main \in {"serving", "stopping"} /\ \E i \in DOMAIN dump : Flush(i) \/ FlushFails(i)
  /\ UNCHANGED <<loaderVars, webVars>>

\* The quit flag is up: the web thread finishes the request that it is at.
Quit ==
  /\ Serving
  /\ main' = "stopping"
  /\ UNCHANGED <<loaderVars, stageVars, requestVars, savedVars, library, starts, edits>>

\* web_status_stop() has joined the thread.
StopChain ==
  /\ main = "stopping" /\ Idle
  /\ main' = "unloading"
  /\ shown' = Absent
  /\ TeardownLive
  /\ UNCHANGED <<loaderVars, requestVars, graph_file, raced, library, starts, edits>>

UnloadPlugins ==
  /\ main = "unloading" /\ Shutdown
  /\ main' = IF loader' = "closed" THEN "exited" ELSE main
  /\ UNCHANGED <<stageVars, requestVars, savedVars, library, starts, edits>>

\* A new process image: what is on disk is all that is left.
Restart ==
  /\ main \in {"exited", "failed"}
  /\ starts < MaxStarts /\ starts' = starts + 1
  /\ main' = "plugins"
  /\ plugin' = 1 /\ index' = 0 /\ registry' = <<>> /\ mapped' = {} /\ closed' = <<>>
  /\ loader' = "loading" /\ slot' = 0
  /\ dump' = <<>>
  /\ UNCHANGED <<directory, live, passVars, file, requestVars, savedVars, library, edits>>

-------------------------------------------------------------------------------
\* The web thread

Check(o, n, g) ==
  /\ Serving /\ Idle
  /\ op' = o /\ name' = n /\ body' = g
  /\ step' = "validate"
  /\ BeginPass(g)
  /\ UNCHANGED <<live, dumpVars, loaderVars, main, savedVars, library, starts, edits>>

\* The body is staged in a file of its own, which is loaded.
PostGraph(g)      == Check("save", Absent, g)
UploadGraph(n, g) == Check("upload", n, g)

\* Mutant: the library is trusted, as the graphs in it were checked when they came.
PostLoadUnchecked(n) ==
  /\ Serving /\ Idle /\ library[n] \in Graph
  /\ op' = "load" /\ name' = n /\ body' = library[n]
  /\ step' = "open"
  /\ UNCHANGED <<stageVars, loaderVars, main, savedVars, library, starts, edits>>

\* The library file itself is loaded.
PostLoad(n) == library[n] \in Graph /\ Check("load", n, library[n])

\* One node of a graph.
Probe(node) == Check("probe", Absent, <<node>>)

ValidateInit ==
  /\ step = "validate" /\ InitNode
  /\ UNCHANGED <<loaderVars, webVars>>

\* A probe is done when its node is there; a graph must be wired as well.
Rejected == IF op = "probe" THEN Unfinished ELSE Refused
Accepted == IF op = "probe" THEN ~Unfinished ELSE Loaded

\* Every instance is torn down, whether the graph was loaded or not.
ValidateFails ==
  /\ step = "validate" /\ (Rejected \/ op = "probe")
  /\ TeardownPass
  /\ GoIdle
  /\ UNCHANGED <<live, dumpVars, loaderVars, main, savedVars, library, starts, edits>>

Validated ==
  /\ step = "validate" /\ Accepted /\ op # "probe"
  /\ TeardownPass
  /\ step' = IF op = "load" THEN "reread" ELSE "open"
  /\ UNCHANGED <<live, dumpVars, op, name, body, loaderVars, main, savedVars, library, starts, edits>>

\* read_whole_file_here(): the library file, a second time.  fread() may give less of
\* it, which nobody asks.
Reread ==
  /\ step = "reread"
  /\ IF library[name] = Absent
       THEN GoIdle /\ UNCHANGED raced
       ELSE /\ body' \in {library[name], Torn} /\ raced' = (raced \/ library[name] # body)
            /\ step' = "open" /\ UNCHANGED <<op, name>>
  /\ UNCHANGED <<loaderVars, stageVars, main, graph_file, shown, library, starts, edits>>

\* fopen(path, "wb") fails, or empties the file...
OpenFails ==
  /\ step \in {"reread", "open"} /\ GoIdle
  /\ UNCHANGED <<loaderVars, stageVars, main, savedVars, library, starts, edits>>

OpenFile ==
  /\ step = "open" /\ step' = "write"
  /\ UNCHANGED <<loaderVars, stageVars, main, op, name, body, shown, raced, starts, edits>>

OpenGraphFile == op # "upload" /\ OpenFile /\ graph_file' = Torn /\ UNCHANGED library

OpenLibraryFile ==
  /\ op = "upload" /\ OpenFile
  /\ library' = [library EXCEPT ![name] = Torn]
  /\ UNCHANGED graph_file

\* ...and fwrite() and fclose() fill it, or do not.
WriteLibrary ==
  /\ step = "write" /\ op = "upload" /\ GoIdle
  /\ \E content \in {body, Torn} : library' = [library EXCEPT ![name] = content]
  /\ UNCHANGED <<loaderVars, stageVars, main, savedVars, starts, edits>>

\* activate_graph(): the text that is shown is replaced if fwrite() took it all and
\* there is memory for a copy, whatever fclose() does.
Activate ==
  /\ step = "write" /\ op \in {"save", "load"} /\ GoIdle
  /\ graph_file' \in {body, Torn}
  /\ shown' \in {body, shown}
  /\ UNCHANGED <<loaderVars, stageVars, main, library, raced, starts, edits>>

\* handle_delete_graph()
Delete(n) ==
  /\ Serving /\ Idle /\ library[n] # Absent
  /\ library' = [library EXCEPT ![n] = Absent]
  /\ UNCHANGED <<loaderVars, stageVars, main, requestVars, savedVars, starts, edits>>

WebThread ==
  \/ \E g \in Graph : PostGraph(g)
  \/ \E n \in Name, g \in Graph : UploadGraph(n, g)
  \/ \E n \in Name : PostLoad(n) \/ Delete(n)
  \/ \E g \in Graph : \E i \in DOMAIN g : Probe(g[i])
  \/ ValidateInit \/ ValidateFails \/ Validated
  \/ Reread \/ OpenFails \/ OpenGraphFile \/ OpenLibraryFile \/ WriteLibrary \/ Activate

\* The operator replaces, removes, or is half-way through writing, a library file.
HandEdit(n) ==
  /\ edits < MaxEdits /\ edits' = edits + 1
  /\ \E content \in Graph \cup {Torn, Absent} : library' = [library EXCEPT ![n] = content]
  /\ UNCHANGED <<loaderVars, stageVars, main, requestVars, savedVars, starts>>

Over ==
  /\ main \in {"exited", "failed"} /\ starts = MaxStarts
  /\ UNCHANGED vars

WebNext ==
  \/ LoadPlugins \/ StartLoad \/ StartInit \/ StartFails
  \/ StartLoaded \/ StartDone \/ RingFails
  \/ Work \/ Quit \/ StopChain \/ UnloadPlugins \/ Restart \/ Killed
  \/ WebThread
  \/ \E n \in Name : HandEdit(n)
  \/ Over

WebSpec == WebInit /\ [][WebNext]_vars

-------------------------------------------------------------------------------

\* GET /api/graphs
Listed == {n \in Name : library[n] # Absent}

\* graph_config_load() of a graph, with nothing else running.
Loadable(g) ==
  /\ g \in SoundGraph
  /\ \A i \in DOMAIN g : Registered(g[i].kind)
  /\ \A i, j \in DOMAIN g :
       g[i].kind = "forward_udp" /\ g[j].kind = "forward_udp" /\ g[i].port = g[j].port
         => i = j \/ g[i].port = AnyPort

\* Whatever requests, hand edits, read and write errors, kills and restarts went
\* before, a graph in the --graph file that is whole passes graph_config_load() with
\* the plugins that are there, and so does the one that GET /api/graph shows, if it
\* is whole, and those that were only uploaded; but for a library file that changes
\* between the check and the second read of one load (web_status.c:910-965).
SavedGraphLoads ==
  main \in {"serving", "stopping"} =>
    /\ ~raced => Loadable(shown) \/ shown \in {Torn, Absent}
    /\ ~raced => Loadable(graph_file) \/ graph_file = Torn
    /\ edits = 0 => \A n \in Listed : library[n] # Torn => Loadable(library[n])

\* web/src/App.tsx:513-515: the ring_size of a saved graph is not checked by the
\* editor, as "graph_config_load() is what actually validates ring_name/ring_size
\* server-side".  A whole graph that was saved is then one that main() starts.
SavedGraphStarts ==
  main \in {"serving", "stopping"} /\ ~raced =>
    graph_file = Torn \/ (Loadable(graph_file) /\ graph_file \in RingGraph)
===============================================================================
