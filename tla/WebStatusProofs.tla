---------------------------- MODULE WebStatusProofs -----------------------------
(*****************************************************************************)
(* Theorems about WebStatus: for every plugins directory and registry size,  *)
(* every set of graphs, files, ports and names, and any number of requests,  *)
(* restarts and hand edits.                                                  *)
(*****************************************************************************)
EXTENDS WebStatus, PluginLoaderProofs, SequenceTheorems

\* What a step of the program does to the registry: a step of the loader, nothing,
\* or all of it anew, in a new process image.
LEMMA LoaderInProgram ==
  ASSUME LoaderTypeOK, [WebNext]_vars
  PROVE  [Load \/ Shutdown]_loaderVars \/ (LoaderInit' /\ UNCHANGED directory)
<1>1. CASE LoadPlugins \/ UnloadPlugins
  BY <1>1 DEF LoadPlugins, UnloadPlugins
<1>2. CASE \/ StartLoad \/ StartInit \/ StartFails \/ StartLoaded \/ StartDone \/ RingFails
           \/ Killed \/ Work \/ Quit \/ StopChain
  BY <1>2 DEF StartLoad, StartInit, StartFails, StartLoaded, StartDone, RingFails, Killed, Ends,
              Work, Quit, StopChain
<1>3. CASE Restart
  BY <1>3 DEF Restart, LoaderInit, LoaderTypeOK
<1>4. CASE WebThread
  <2>1. ASSUME NEW o, NEW n, NEW g, Check(o, n, g) PROVE UNCHANGED loaderVars
    BY <2>1 DEF Check
  <2>2. ASSUME NEW n \in Name, PostLoad(n) \/ Delete(n) PROVE UNCHANGED loaderVars
    BY <2>1, <2>2 DEF PostLoad, Delete
  <2>3. CASE ValidateInit \/ ValidateFails \/ Validated \/ Reread
    BY <2>3 DEF ValidateInit, ValidateFails, Validated, Reread
  <2>4. CASE OpenFails \/ OpenGraphFile \/ OpenLibraryFile \/ WriteLibrary \/ Activate
    BY <2>4 DEF OpenFails, OpenGraphFile, OpenLibraryFile, OpenFile, WriteLibrary, Activate
  <2>5. QED
    BY <1>4, <2>1, <2>2, <2>3, <2>4 DEF WebThread, PostGraph, UploadGraph, Probe
<1>5. CASE (\E n \in Name : HandEdit(n)) \/ Over \/ UNCHANGED vars
  BY <1>5 DEF HandEdit, Over, vars
<1>6. QED
  BY <1>1, <1>2, <1>3, <1>4, <1>5 DEF WebNext

LEMMA LoaderInvInProgram == WebSpec => []LoaderInv
<1>1. WebInit => LoaderInv
  BY LoaderStarts DEF WebInit
<1>2. LoaderInv /\ [WebNext]_vars => LoaderInv'
  <2> SUFFICES ASSUME LoaderInv, [WebNext]_vars PROVE LoaderInv'
    OBVIOUS
  <2>1. CASE LoaderInit'
    BY <2>1, LoaderStarts, PTL
  <2>2. QED
    BY <2>1, LoaderInProgram, LoaderSteps DEF LoaderInv
<1>3. QED
  BY <1>1, <1>2, PTL DEF WebSpec

\* What the theorems of PluginLoaderProofs say of LoaderSpec holds of the program,
\* through every restart.
THEOREM ProgramKeepsRegistry == WebSpec => [](RegistryBacked /\ ClosedOnce)
<1>1. LoaderInv => RegistryBacked /\ ClosedOnce
  BY InvGivesClosedOnce DEF LoaderInv
<1>2. QED
  BY <1>1, LoaderInvInProgram, PTL

-------------------------------------------------------------------------------
\* Files, sockets and ports.

\* A sequence of nodes.
Nodes(g) ==
  /\ DOMAIN g = 1 .. Len(g) /\ Len(g) \in Nat
  /\ \A i \in 1 .. Len(g) : /\ g[i].kind \in Dumps => g[i].path \in Path
                            /\ g[i].kind = "forward_udp" => g[i].port \in Port \cup {AnyPort}

RequestType ==
  /\ graph_file \in Graph \cup {Torn}
  /\ library \in [Name -> Graph \cup {Torn, Absent}]
  /\ step \in {"open", "write"} => body \in Graph \cup {Torn}
  /\ step = "reread" => op = "load" /\ name \in Name
  /\ step = "validate" /\ op # "probe" => body \in Graph
  /\ step = "validate" /\ op = "load" => name \in Name

\* When there is a live chain, and when a pass.
Phases ==
  /\ live # <<>> => main \in {"ring", "serving", "stopping"}
  /\ target # <<>> => main = "graph" \/ (main \in {"serving", "stopping"} /\ step = "validate")

PassType ==
  /\ Nodes(live) /\ Nodes(target)
  /\ pass \in 0 .. Len(target)
  /\ binding \in {"no", "yes", "failed"}
  /\ binding # "no" => pass + 1 \in 1 .. Len(target) /\ Node.kind = "forward_udp"
  /\ bound \in [Port -> {"nobody", "live", "pass"}]

\* The two halves of NothingLeftOpen, the first one holder by holder.
HeldRight ==
  /\ held \subseteq {"live", "pass"} \X Nat
  /\ \A o \in {"live", "pass"}, i \in Nat : <<o, i>> \in held <=> Holds(o, i)

BoundRight ==
  \A q \in Port :
    bound[q] = IF LivePort(q) THEN "live"
               ELSE IF \E i \in 1 .. pass : target[i].kind = "forward_udp" /\ target[i].port = q
                      THEN "pass" ELSE "nobody"

Holding == PassType /\ HeldRight /\ BoundRight

PassInv == RequestType /\ Phases /\ Holding

LEMMA NodesOfGraphs ==
  /\ Nodes(<<>>)
  /\ \A g \in Graph : Nodes(g) /\ \A i \in DOMAIN g : Nodes(<<g[i]>>)
<1>1. Nodes(<<>>)
  BY DEF Nodes
<1>2. ASSUME NEW g \in Graph PROVE Nodes(g) /\ \A i \in DOMAIN g : Nodes(<<g[i]>>)
  <2>1. g \in Seq({g[i] : i \in DOMAIN g})
    BY ResourceAssumption
  <2>2. DOMAIN g = 1 .. Len(g) /\ Len(g) \in Nat
    BY <2>1
  <2>3. \A i \in DOMAIN g : /\ g[i].kind \in Dumps => g[i].path \in Path
                            /\ g[i].kind = "forward_udp" => g[i].port \in Port \cup {AnyPort}
    BY Zenon, ResourceAssumption
  <2>4. Nodes(g)
    BY <2>2, <2>3, Zenon DEF Nodes
  <2>5. ASSUME NEW i \in DOMAIN g PROVE Nodes(<<g[i]>>)
    <3>1. PICK node : node = g[i]
      OBVIOUS
    <3>2. /\ node.kind \in Dumps => node.path \in Path
          /\ node.kind = "forward_udp" => node.port \in Port \cup {AnyPort}
      BY <2>3, <3>1
    <3>3. Nodes(<<node>>)
      BY <3>2 DEF Nodes
    <3>4. QED
      BY <3>1, <3>3
  <2>6. QED
    BY <2>4, <2>5
<1>3. QED
  BY <1>1, <1>2

LEMMA HoldingOpen == Holding => NothingLeftOpen
<1> SUFFICES ASSUME Holding PROVE NothingLeftOpen
  OBVIOUS
<1>1. DOMAIN live = 1 .. Len(live) /\ Len(live) \in Nat /\ pass \in Nat
  BY DEF Holding, PassType, Nodes
<1>2. ASSUME NEW o \in {"live", "pass"}, NEW i, Holds(o, i) PROVE i \in DOMAIN live \cup 1 .. pass + 1
  BY <1>1, <1>2 DEF Holds
<1>3. ASSUME NEW h \in {"live", "pass"} \X Nat PROVE h \in held <=> Holds(h[1], h[2])
  <2>1. PICK o \in {"live", "pass"}, i \in Nat : h = <<o, i>>
    OBVIOUS
  <2>2. QED
    BY <2>1 DEF Holding, HeldRight
<1>4. DOMAIN live \cup 1 .. pass + 1 \subseteq Nat
  BY <1>1
<1>5. held = {h \in {"live", "pass"} \X (DOMAIN live \cup 1 .. pass + 1) : Holds(h[1], h[2])}
  <2>1. ASSUME NEW h \in held
        PROVE  h \in {"live", "pass"} \X (DOMAIN live \cup 1 .. pass + 1) /\ Holds(h[1], h[2])
    <3>1. h \in {"live", "pass"} \X Nat /\ Holds(h[1], h[2])
      BY <1>3, <2>1 DEF Holding, HeldRight
    <3>2. QED
      BY <1>2, <3>1
  <2>2. QED
    BY <1>3, <1>4, <2>1
<1>6. QED
  BY <1>5 DEF NothingLeftOpen, Holding, BoundRight

LEMMA BeginHolds ==
  ASSUME Holding, target = <<>>, NEW g, Nodes(g), BeginPass(g), UNCHANGED live
  PROVE  Holding'
<1>1. /\ pass = 0 /\ binding = "no" /\ pass' = 0 /\ binding' = "no" /\ target' = g
      /\ UNCHANGED <<live, held, bound>>
  BY DEF Holding, PassType, BeginPass
<1>2. PassType'
  BY <1>1 DEF Holding, PassType, Nodes
<1>3. HeldRight'
  <2>1. ASSUME NEW o \in {"live", "pass"}, NEW i \in Nat PROVE Holds(o, i)' <=> Holds(o, i)
    BY <1>1 DEF Holds
  <2>2. QED
    BY <1>1, <2>1 DEF Holding, HeldRight
<1>4. BoundRight'
  BY <1>1 DEF Holding, BoundRight, LivePort
<1>5. QED
  BY <1>2, <1>3, <1>4 DEF Holding

\* One more step of an init(): what it opens is not held yet, the port it binds is
\* nobody's.
LEMMA InitHolds == Holding /\ InitNode => Holding'
<1> SUFFICES ASSUME Holding, InitNode PROVE Holding'
  OBVIOUS
<1>1. /\ pass \in Nat /\ pass + 1 \in 1 .. Len(target)
      /\ Len(target) \in Nat /\ UNCHANGED <<target, live>>
  BY DEF Holding, PassType, Nodes, InitNode, Unfinished
<1>2. /\ bound \in [Port -> {"nobody", "live", "pass"}] /\ Nodes(live)' /\ Nodes(target)'
      /\ held \subseteq {"live", "pass"} \X Nat
      /\ \A o \in {"live", "pass"}, i \in Nat : <<o, i>> \in held <=> Holds(o, i)
  BY <1>1 DEF Holding, PassType, HeldRight, Nodes
<1>3. \A q : LivePort(q)' <=> LivePort(q)
  BY <1>1 DEF LivePort
<1>4. ASSUME UNCHANGED bound, ~(pass' = pass + 1 /\ Node.kind = "forward_udp"), pass' \in {pass, pass + 1}
      PROVE  BoundRight'
  <2>1. \A q \in Port : (\E i \in 1 .. pass' : target[i].kind = "forward_udp" /\ target[i].port = q)
                      <=> \E i \in 1 .. pass : target[i].kind = "forward_udp" /\ target[i].port = q
    BY <1>1, <1>4 DEF Node
  <2>2. QED
    BY <1>1, <1>3, <1>4, <2>1 DEF Holding, BoundRight
<1>5. CASE binding = "no" /\ (OpenBinary \/ OpenText)
  <2>1. /\ Node.kind \in Holders /\ Node.kind # "forward_udp" /\ UNCHANGED bound
        /\ pass' = pass + 1 /\ binding' = "no" /\ held' = held \cup {<<"pass", pass + 1>>}
    BY <1>5 DEF OpenBinary, OpenText, Fopen, Hold, InitDone, Holders, Dumps
  <2>2. ASSUME NEW o \in {"live", "pass"}, NEW i \in Nat
        PROVE  Holds(o, i)' <=> Holds(o, i) \/ (o = "pass" /\ i = pass + 1)
    BY <1>1, <1>5, <2>1 DEF Holds, Node
  <2>3. HeldRight'
    BY <1>1, <1>2, <2>1, <2>2 DEF HeldRight
  <2>4. PassType'
    BY <1>1, <1>2, <2>1 DEF PassType
  <2>5. QED
    BY <1>4, <2>1, <2>3, <2>4 DEF Holding
<1>6. CASE binding = "no" /\ OpenSocket
  <2>1. /\ Node.kind = "forward_udp" /\ UNCHANGED <<bound, pass>>
        /\ binding' = "yes" /\ held' = held \cup {<<"pass", pass + 1>>}
    BY <1>6 DEF OpenSocket, Hold
  <2>2. ASSUME NEW o \in {"live", "pass"}, NEW i \in Nat
        PROVE  Holds(o, i)' <=> Holds(o, i) \/ (o = "pass" /\ i = pass + 1)
    BY <1>1, <1>6, <2>1 DEF Holds
  <2>3. HeldRight'
    BY <1>1, <1>2, <2>1, <2>2 DEF HeldRight
  <2>4. PassType'
    BY <1>1, <1>2, <2>1 DEF PassType, Node
  <2>5. QED
    BY <1>1, <1>4, <2>1, <2>3, <2>4 DEF Holding
<1>7. CASE binding = "no" /\ HoldNothing
  <2>1. /\ Node.kind \notin Holders /\ Node.kind # "forward_udp" /\ UNCHANGED <<bound, held>>
        /\ pass' = pass + 1 /\ binding' = "no"
    BY <1>7 DEF HoldNothing, InitDone, Holders
  <2>2. ASSUME NEW o \in {"live", "pass"}, NEW i \in Nat PROVE Holds(o, i)' <=> Holds(o, i)
    BY <1>1, <1>7, <2>1 DEF Holds, Node
  <2>3. HeldRight'
    BY <1>1, <1>2, <2>1, <2>2 DEF HeldRight
  <2>4. PassType'
    BY <1>1, <1>2, <2>1 DEF PassType
  <2>5. QED
    BY <1>4, <2>1, <2>3, <2>4 DEF Holding
<1>8. CASE BindSocket
  <2>1. /\ binding = "yes" /\ pass' = pass + 1 /\ binding' = "no" /\ UNCHANGED held
        /\ \A q \in Port : Node.port = q => bound[q] = "nobody"
        /\ bound' = [q \in Port |-> IF q = Node.port THEN "pass" ELSE bound[q]]
    BY <1>8, ResourceAssumption DEF BindSocket, InitDone
  <2>2. Node.kind = "forward_udp" /\ Node.kind \in Holders
    BY <2>1 DEF Holding, PassType, Holders
  <2>3. ASSUME NEW o \in {"live", "pass"}, NEW i \in Nat PROVE Holds(o, i)' <=> Holds(o, i)
    BY <1>1, <2>1, <2>2 DEF Holds, Node
  <2>4. HeldRight'
    BY <1>1, <1>2, <2>1, <2>3 DEF HeldRight
  <2>5. PassType'
    BY <1>1, <1>2, <2>1 DEF PassType
  <2>6. ASSUME NEW q \in Port
        PROVE  (bound[q] = IF LivePort(q) THEN "live"
                           ELSE IF \E i \in 1 .. pass : target[i].kind = "forward_udp" /\ target[i].port = q
                                  THEN "pass" ELSE "nobody")'
    <3>1. (\E i \in 1 .. pass' : target[i].kind = "forward_udp" /\ target[i].port = q)
            <=> \/ \E i \in 1 .. pass : target[i].kind = "forward_udp" /\ target[i].port = q
                \/ Node.port = q
      BY <1>1, <2>1, <2>2 DEF Node
    <3>2. bound[q] = IF LivePort(q) THEN "live"
                     ELSE IF \E i \in 1 .. pass : target[i].kind = "forward_udp" /\ target[i].port = q
                            THEN "pass" ELSE "nobody"
      BY DEF Holding, BoundRight
    <3>3. QED
      BY <1>1, <1>3, <2>1, <3>1, <3>2
  <2>7. QED
    BY <2>4, <2>5, <2>6 DEF Holding, BoundRight
<1>9. CASE BindFails
  <2>1. /\ binding = "yes" /\ binding' = "failed" /\ UNCHANGED <<pass, bound>>
        /\ held' = held \ {<<"pass", pass + 1>>}
    BY <1>9 DEF BindFails
  <2>2. ASSUME NEW o \in {"live", "pass"}, NEW i \in Nat
        PROVE  Holds(o, i)' <=> Holds(o, i) /\ ~(o = "pass" /\ i = pass + 1)
    BY <1>1, <2>1 DEF Holds
  <2>3. HeldRight'
    BY <1>1, <1>2, <2>1, <2>2 DEF HeldRight
  <2>4. PassType'
    BY <1>1, <1>2, <2>1 DEF PassType, Holding, Node
  <2>5. QED
    BY <1>1, <1>4, <2>1, <2>3, <2>4 DEF Holding
<1>10. QED
  BY <1>5, <1>6, <1>7, <1>8, <1>9 DEF InitNode

\* teardown() of the pass gives back what the pass holds, and nothing else.
LEMMA TeardownPassHolds ==
  ASSUME Holding, TeardownPass, UNCHANGED live
  PROVE  Holding'
<1>1. /\ binding # "yes" /\ target' = <<>> /\ pass' = 0 /\ binding' = "no" /\ live' = live
      /\ held' = {h \in held : h[1] # "pass"}
      /\ bound' = [q \in Port |-> IF bound[q] = "pass" THEN "nobody" ELSE bound[q]]
  BY DEF TeardownPass, EndPass, Closing
<1>2. PassType'
  BY <1>1, NodesOfGraphs DEF Holding, PassType, Nodes
<1>3. HeldRight'
  <2>1. ASSUME NEW o \in {"live", "pass"}, NEW i \in Nat
        PROVE  Holds(o, i)' <=> Holds(o, i) /\ o # "pass"
    BY <1>1 DEF Holds
  <2>2. QED
    BY <1>1, <2>1 DEF Holding, HeldRight
<1>4. BoundRight'
  BY <1>1 DEF Holding, BoundRight, LivePort
<1>5. QED
  BY <1>2, <1>3, <1>4 DEF Holding

\* What the pass holds is what the live chain then holds.
LEMMA GoLiveHolds ==
  ASSUME Holding, live = <<>>, GoLive
  PROVE  Holding'
<1>1. /\ Loaded /\ live' = target /\ target' = <<>> /\ pass' = 0 /\ binding' = "no"
      /\ held' = {<<"live", h[2]>> : h \in held}
      /\ bound' = [q \in Port |-> IF bound[q] = "pass" THEN "live" ELSE bound[q]]
  BY Zenon DEF GoLive
<1>2. DOMAIN target = 1 .. Len(target) /\ Len(target) \in Nat /\ pass = Len(target)
  <2>1. DOMAIN target = 1 .. Len(target)
    BY DEF Holding, PassType, Nodes
  <2>2. Len(target) \in Nat /\ pass \in 0 .. Len(target) /\ ~(pass < Len(target))
    BY <1>1, Zenon DEF Loaded, Unfinished, Holding, PassType, Nodes
  <2>3. pass = Len(target)
    BY <2>2
  <2>4. QED
    BY <2>1, <2>2, <2>3
<1>3. binding = "no"
  BY <1>2 DEF Holding, PassType
<1>4. PassType'
  BY <1>1, NodesOfGraphs DEF Holding, PassType, Nodes
<1>5. HeldRight'
  <2>1. ASSUME NEW h \in held PROVE h = <<"pass", h[2]>> /\ h[2] \in Nat
    <3>1. PICK o \in {"live", "pass"}, i \in Nat : h = <<o, i>>
      BY <2>1 DEF Holding, HeldRight
    <3>2. ~Holds("live", i)
      BY DEF Holds
    <3>3. QED
      BY <2>1, <3>1, <3>2 DEF Holding, HeldRight
  <2>2. ASSUME NEW o \in {"live", "pass"}, NEW i \in Nat
        PROVE  Holds(o, i)' <=> o = "live" /\ Holds("pass", i)
    BY <1>1, <1>2, <1>3 DEF Holds
  <2>3. ASSUME NEW i \in Nat PROVE <<"live", i>> \in held' <=> <<"pass", i>> \in held
    BY <1>1, <2>1
  <2>4. ASSUME NEW i \in Nat PROVE <<"pass", i>> \notin held'
    BY <1>1
  <2>5. held' \subseteq {"live", "pass"} \X Nat
    BY <1>1, <2>1
  <2>6. \A i \in Nat : <<"pass", i>> \in held <=> Holds("pass", i)
    BY DEF Holding, HeldRight
  <2>7. QED
    BY <2>2, <2>3, <2>4, <2>5, <2>6 DEF HeldRight
<1>6. BoundRight'
  <2>1. ASSUME NEW q \in Port
        PROVE  /\ ~LivePort(q)
               /\ LivePort(q)' <=> \E i \in 1 .. pass : target[i].kind = "forward_udp" /\ target[i].port = q
    BY <1>1, <1>2 DEF LivePort
  <2>2. QED
    BY <1>1, <2>1 DEF Holding, BoundRight
<1>7. QED
  BY <1>4, <1>5, <1>6 DEF Holding

LEMMA TeardownLiveHolds ==
  ASSUME Holding, target = <<>>, TeardownLive
  PROVE  Holding'
<1>1. /\ live' = <<>> /\ target' = <<>> /\ pass = 0 /\ pass' = 0 /\ binding = "no" /\ binding' = "no"
      /\ held' = {h \in held : h[1] # "live"}
      /\ bound' = [q \in Port |-> IF bound[q] = "live" THEN "nobody" ELSE bound[q]]
  BY DEF TeardownLive, Closing, Holding, PassType
<1>2. PassType'
  BY <1>1, NodesOfGraphs DEF Holding, PassType, Nodes
<1>3. HeldRight'
  <2>1. ASSUME NEW o \in {"live", "pass"}, NEW i \in Nat
        PROVE  Holds(o, i)' <=> Holds(o, i) /\ o # "live"
    BY <1>1 DEF Holds
  <2>2. QED
    BY <1>1, <2>1 DEF Holding, HeldRight
<1>4. BoundRight'
  BY <1>1 DEF Holding, BoundRight, LivePort
<1>5. QED
  BY <1>2, <1>3, <1>4 DEF Holding

\* A process that has ended, or just begun, holds nothing.
EmptyHanded ==
  /\ live = <<>> /\ target = <<>> /\ pass = 0 /\ binding = "no"
  /\ held = {} /\ bound = [q \in Port |-> "nobody"]

LEMMA EmptyHolds == EmptyHanded => Holding
BY NodesOfGraphs DEF EmptyHanded, Holding, PassType, HeldRight, BoundRight, Holds, LivePort

LEMMA StillHolds == Holding /\ UNCHANGED <<live, passVars>> => Holding'
<1> SUFFICES ASSUME Holding, UNCHANGED <<live, passVars>> PROVE Holding'
  OBVIOUS
<1>1. UNCHANGED <<live, target, pass, binding, held, bound>>
  BY DEF passVars
<1>2. PassType'
  BY <1>1 DEF Holding, PassType, Nodes, Node
<1>3. HeldRight'
  BY <1>1 DEF Holding, HeldRight, Holds
<1>4. BoundRight'
  BY <1>1 DEF Holding, BoundRight, LivePort
<1>5. QED
  BY <1>2, <1>3, <1>4 DEF Holding

LEMMA StillTyped ==
  ASSUME RequestType, UNCHANGED <<graph_file, library>>,
         UNCHANGED <<step, op, name, body>> \/ GoIdle
  PROVE  RequestType'
BY DEF RequestType, GoIdle

LEMMA CheckKeeps ==
  ASSUME PassInv, NEW o \in {"save", "upload", "load", "probe"}, NEW n, NEW g, Check(o, n, g),
         Nodes(g), o # "probe" => g \in Graph, o = "load" => n \in Name
  PROVE  PassInv'
<1>1. target = <<>>
  BY DEF Check, Serving, Idle, PassInv, Phases
<1>2. Holding'
  BY <1>1, BeginHolds DEF Check, PassInv
<1>3. RequestType'
  BY DEF Check, savedVars, PassInv, RequestType
<1>4. Phases'
  BY DEF Check, Serving, PassInv, Phases
<1>5. QED
  BY <1>2, <1>3, <1>4 DEF PassInv

\* The steps of main().
LEMMA MainKeeps ==
  ASSUME PassInv,
         \/ LoadPlugins \/ StartLoad \/ StartInit \/ StartFails \/ StartLoaded \/ StartDone
         \/ RingFails \/ Work \/ Quit \/ StopChain \/ UnloadPlugins \/ Restart \/ Killed
  PROVE  PassInv'
<1> USE DEF PassInv
<1>1. CASE LoadPlugins \/ UnloadPlugins \/ Quit \/ StartDone
  <2>1. UNCHANGED <<live, target, passVars, step, op, name, body, graph_file, library>>
    BY <1>1 DEF LoadPlugins, UnloadPlugins, Quit, StartDone, stageVars, passVars, requestVars, savedVars
  <2>2. Phases'
    BY <1>1, <2>1 DEF LoadPlugins, UnloadPlugins, Quit, StartDone, Serving, Phases
  <2>3. QED
    BY <2>1, <2>2, StillHolds, StillTyped
<1>2. CASE StartLoad
  <2>1. target = <<>> /\ graph_file \in Graph /\ BeginPass(graph_file)
    BY <1>2 DEF StartLoad, RequestType
  <2>2. Holding'
    BY <1>2, <2>1, BeginHolds, NodesOfGraphs DEF StartLoad
  <2>3. Phases'
    BY <1>2 DEF StartLoad, webVars, Phases
  <2>4. RequestType'
    BY <1>2, StillTyped DEF StartLoad, webVars, requestVars, savedVars
  <2>5. QED
    BY <2>2, <2>3, <2>4
<1>3. CASE StartInit
  <2>1. Holding' /\ RequestType'
    BY <1>3, InitHolds, StillTyped DEF StartInit, webVars, requestVars, savedVars
  <2>2. Phases'
    BY <1>3 DEF StartInit, InitNode, webVars, requestVars, Phases
  <2>3. QED
    BY <2>1, <2>2
<1>4. CASE StartFails
  <2>1. Holding' /\ RequestType'
    BY <1>4, TeardownPassHolds, StillTyped DEF StartFails, requestVars, savedVars
  <2>2. Phases'
    BY <1>4 DEF StartFails, TeardownPass, EndPass, Phases
  <2>3. QED
    BY <2>1, <2>2
<1>5. CASE StartLoaded
  <2>1. live = <<>>
    BY <1>5 DEF StartLoaded, Phases
  <2>2. Holding' /\ RequestType'
    BY <1>5, <2>1, GoLiveHolds, StillTyped DEF StartLoaded, requestVars, savedVars
  <2>3. target' = <<>>
    BY <1>5, Zenon DEF StartLoaded, GoLive
  <2>4. Phases'
    BY <1>5, <2>3 DEF StartLoaded, Phases
  <2>5. QED
    BY <2>2, <2>4
<1>6. CASE Work
  <2>1. PICK i \in DOMAIN dump : WriteBinary(i) \/ WriteText(i) \/ Flush(i) \/ FlushFails(i)
    BY <1>6 DEF Work
  <2>2. UNCHANGED <<live, passVars>>
    BY <2>1 DEF WriteBinary, WriteText, Write, Flush, FlushFails
  <2>3. UNCHANGED <<target, main, step, op, name, body, graph_file, library>>
    BY <1>6, <2>2 DEF Work, passVars, webVars, requestVars, savedVars
  <2>4. QED
    BY <2>2, <2>3, StillHolds, StillTyped DEF Phases
<1>7. CASE StopChain
  <2>1. target = <<>>
    BY <1>7 DEF StopChain, Idle, Phases
  <2>2. Holding' /\ RequestType'
    BY <1>7, <2>1, TeardownLiveHolds, StillTyped DEF StopChain, requestVars
  <2>3. Phases'
    BY <1>7, <2>1 DEF StopChain, TeardownLive, Phases
  <2>4. QED
    BY <2>2, <2>3
<1>8. CASE RingFails \/ Killed
  <2>1. Ends
    BY <1>8 DEF RingFails, Killed
  <2>2. EmptyHanded'
    BY <2>1 DEF Ends, ReleaseStages, EmptyHanded
  <2>3. Holding'
    BY <2>2, EmptyHolds, PTL
  <2>4. RequestType' /\ Phases'
    BY <2>1, <2>2, StillTyped DEF Ends, EmptyHanded, Phases
  <2>5. QED
    BY <2>3, <2>4
<1>9. CASE Restart
  <2>1. Holding' /\ RequestType'
    BY <1>9, StillHolds, StillTyped DEF Restart, requestVars, savedVars
  <2>2. Phases'
    BY <1>9 DEF Restart, passVars, requestVars, Phases
  <2>3. QED
    BY <2>1, <2>2
<1>10. QED
  BY <1>1, <1>2, <1>3, <1>4, <1>5, <1>6, <1>7, <1>8, <1>9

\* The steps of the web thread, and of the operator beside it.
LEMMA WebKeeps ==
  ASSUME PassInv, WebThread \/ \E n \in Name : HandEdit(n)
  PROVE  PassInv'
<1> USE DEF PassInv
<1>1. ASSUME NEW g \in Graph, PostGraph(g) PROVE PassInv'
  BY <1>1, CheckKeeps, NodesOfGraphs DEF PostGraph
<1>2. ASSUME NEW n \in Name, NEW g \in Graph, UploadGraph(n, g) PROVE PassInv'
  BY <1>2, CheckKeeps, NodesOfGraphs DEF UploadGraph
<1>3. ASSUME NEW n \in Name, PostLoad(n) PROVE PassInv'
  BY <1>3, CheckKeeps, NodesOfGraphs DEF PostLoad
<1>4. ASSUME NEW g \in Graph, NEW i \in DOMAIN g, Probe(g[i]) PROVE PassInv'
  BY <1>4, CheckKeeps, NodesOfGraphs DEF Probe
<1>5. CASE ValidateInit
  <2>1. Holding' /\ RequestType'
    BY <1>5, InitHolds, StillTyped DEF ValidateInit, webVars, requestVars, savedVars
  <2>2. Phases'
    BY <1>5 DEF ValidateInit, InitNode, webVars, requestVars, Phases
  <2>3. QED
    BY <2>1, <2>2
<1>6. CASE ValidateFails
  <2>1. Holding' /\ RequestType'
    BY <1>6, TeardownPassHolds, StillTyped DEF ValidateFails, savedVars
  <2>2. Phases'
    BY <1>6 DEF ValidateFails, TeardownPass, EndPass, Phases
  <2>3. QED
    BY <2>1, <2>2
<1>7. CASE Validated
  <2>1. Holding'
    BY <1>7, TeardownPassHolds DEF Validated
  <2>2. Phases'
    BY <1>7 DEF Validated, TeardownPass, EndPass, Phases
  <2>3. RequestType'
    BY <1>7 DEF Validated, savedVars, RequestType
  <2>4. QED
    BY <2>1, <2>2, <2>3
<1>8. ASSUME UNCHANGED <<main, stageVars>>, step # "validate", RequestType' PROVE PassInv'
  <2>1. UNCHANGED <<live, passVars, target>>
    BY <1>8 DEF stageVars, passVars
  <2>2. QED
    BY <1>8, <2>1, StillHolds DEF Phases
<1>9. CASE Reread
  <2>1. RequestType'
    BY <1>9 DEF Reread, GoIdle, RequestType
  <2>2. QED
    BY <1>8, <1>9, <2>1 DEF Reread
<1>10. CASE OpenFails \/ OpenGraphFile \/ OpenLibraryFile
  <2>1. RequestType'
    BY <1>10 DEF OpenFails, OpenGraphFile, OpenLibraryFile, OpenFile, GoIdle, savedVars, RequestType
  <2>2. QED
    BY <1>8, <1>10, <2>1 DEF OpenFails, OpenGraphFile, OpenLibraryFile, OpenFile
<1>11. CASE WriteLibrary \/ Activate
  <2>1. RequestType'
    BY <1>11 DEF WriteLibrary, Activate, GoIdle, savedVars, RequestType
  <2>2. QED
    BY <1>8, <1>11, <2>1 DEF WriteLibrary, Activate
<1>12. ASSUME NEW n \in Name, Delete(n) PROVE PassInv'
  <2>1. RequestType'
    BY <1>12 DEF Delete, requestVars, savedVars, RequestType
  <2>2. QED
    BY <1>8, <1>12, <2>1 DEF Delete, Idle
<1>13. ASSUME NEW n \in Name, HandEdit(n) PROVE PassInv'
  <2>1. UNCHANGED <<live, passVars, target, main, step>>
    BY <1>13 DEF HandEdit, stageVars, passVars, requestVars
  <2>2. RequestType'
    BY <1>13 DEF HandEdit, requestVars, savedVars, RequestType
  <2>3. QED
    BY <2>1, <2>2, StillHolds DEF Phases
<1>14. QED
  BY <1>1, <1>2, <1>3, <1>4, <1>5, <1>6, <1>7, <1>9, <1>10, <1>11, <1>12, <1>13 DEF WebThread

LEMMA PassSteps == PassInv /\ [WebNext]_vars => PassInv'
<1>1. ASSUME PassInv, UNCHANGED vars PROVE PassInv'
  <2>1. UNCHANGED <<live, passVars, target, main, step, op, name, body, graph_file, library>>
    BY <1>1 DEF vars, stageVars, passVars, webVars, requestVars, savedVars
  <2>2. QED
    BY <1>1, <2>1, StillHolds, StillTyped DEF PassInv, Phases
<1>2. QED
  BY <1>1, MainKeeps, WebKeeps DEF WebNext, Over

LEMMA PassStarts == WebInit => PassInv
<1> SUFFICES ASSUME WebInit PROVE PassInv
  OBVIOUS
<1>1. Holding
  BY EmptyHolds DEF WebInit, StagesInit, EmptyHanded
<1>2. RequestType /\ Phases
  BY DEF WebInit, StagesInit, RequestType, Phases
<1>3. QED
  BY <1>1, <1>2 DEF PassInv

LEMMA PassInvariant == WebSpec => []PassInv
BY PassStarts, PassSteps, PTL DEF WebSpec

\* However requests, failures, kills and restarts follow each other, what is open is
\* what the live chain and the running pass hold (graph_config.c:385-390,
\* web_status.c:632-643).
THEOREM ChecksLeaveNothingOpen == WebSpec => []NothingLeftOpen
<1>1. PassInv => NothingLeftOpen
  BY HoldingOpen DEF PassInv
<1>2. QED
  BY <1>1, PassInvariant, PTL

-------------------------------------------------------------------------------
\* What is saved can be loaded again.

PortsDiffer(g, n) ==
  \A i, j \in 1 .. n :
    g[i].kind = "forward_udp" /\ g[j].kind = "forward_udp" /\ g[i].port = g[j].port
      => i = j \/ g[i].port = AnyPort

\* Loadable(g), said of the directory, which outlives the process.
CanLoad(g) ==
  /\ g \in SoundGraph
  /\ \A i \in DOMAIN g : g[i].kind \in StageName /\ Offered(g[i].kind)
  /\ PortsDiffer(g, Len(g))

\* What main() has behind it.
MainPhases ==
  /\ main \in {"graph", "ring", "serving", "stopping"} => loader = "loaded"
  /\ main \notin {"serving", "stopping"} => step = "idle"

\* What a pass has behind it, and which graph it is about.
PassSoFar ==
  /\ \A i \in 1 .. pass : target[i].kind \in StageName /\ Offered(target[i].kind)
  /\ PortsDiffer(target, pass)
  /\ main = "graph" /\ target # <<>> => target = graph_file
  /\ step = "validate" /\ op # "probe" => target = body

\* Which texts have passed a check.
Checked ==
  /\ raced \in BOOLEAN /\ edits \in Nat
  /\ step = "reread" => CanLoad(body)
  /\ step \in {"open", "write"} => raced \/ body = Torn \/ CanLoad(body)
  /\ step \in {"open", "write"} => op \in {"save", "upload", "load"}
  /\ step \in {"open", "write"} /\ op = "upload" => CanLoad(body)
  /\ step = "validate" => op \in {"save", "upload", "load", "probe"}
  /\ edits = 0 => \A n \in Name : library[n] \in {Absent, Torn} \/ CanLoad(library[n])
  /\ main \in {"serving", "stopping"} /\ ~raced => shown \in {Absent, Torn} \/ CanLoad(shown)
  /\ main \in {"ring", "serving", "stopping"} /\ ~raced => graph_file = Torn \/ CanLoad(graph_file)

StartInv == MainPhases /\ PassSoFar /\ Checked

LEMMA DirectoryStays ==
  ASSUME LoaderTypeOK, [WebNext]_vars
  PROVE  UNCHANGED directory
<1>1. ASSUME Load \/ Shutdown PROVE UNCHANGED directory
  BY <1>1 DEF Load, SkipPlugin, OpenPlugin, SkipStage, RegisterStage, RefuseStage, EndPlugin,
              LoaderDone, Shutdown, BeginShutdown, CloseSlot, ShutdownDone
<1>2. ASSUME UNCHANGED loaderVars PROVE UNCHANGED directory
  BY <1>2 DEF loaderVars
<1>3. QED
  BY <1>1, <1>2, LoaderInProgram

LEMMA StartStays ==
  ASSUME UNCHANGED directory, NEW g
  PROVE  CanLoad(g)' <=> CanLoad(g)
BY DEF CanLoad, Offered

\* One more step of an init(): its stage is registered, and no other node has its port.
LEMMA InitProgress ==
  ASSUME LoaderTypeOK, NamesFound, loader = "loaded", PassInv, PassSoFar, InitNode, UNCHANGED directory
  PROVE  /\ (\A i \in 1 .. pass : target[i].kind \in StageName /\ Offered(target[i].kind))'
         /\ PortsDiffer(target, pass)'
<1>1. /\ pass \in Nat /\ pass + 1 \in 1 .. Len(target) /\ target' = target
      /\ Len(target) \in Nat
  BY DEF PassInv, Holding, PassType, Nodes, InitNode, Unfinished
<1>2. Node.kind \in StageName /\ Offered(Node.kind)
  <2>1. PICK i \in DOMAIN registry : registry[i].name = Node.kind
    BY DEF InitNode, Registered
  <2>2. registry[i].name \in StageName
    <3>1. registry \in Seq(Slot) /\ i \in 1 .. Len(registry)
      BY HandleType DEF LoaderTypeOK
    <3>2. registry[i] \in Slot
      BY <3>1
    <3>3. QED
      BY <3>2 DEF Slot
  <2>3. QED
    BY <2>1, <2>2 DEF NamesFound, InitNode
<1>3. CASE pass' = pass
  BY <1>1, <1>3 DEF PassSoFar, PortsDiffer, Offered
<1>4. CASE pass' = pass + 1
  <2>1. \A i \in 1 .. pass' : i = pass + 1 \/ i \in 1 .. pass
    BY <1>1, <1>4
  <2>2. (\A i \in 1 .. pass : target[i].kind \in StageName /\ Offered(target[i].kind))'
    <3>1. \A i \in 1 .. pass' : target[i].kind \in StageName /\ Offered(target[i].kind)
      BY <1>2, <2>1 DEF PassSoFar, Node
    <3>2. QED
      BY <1>1, <3>1 DEF Offered
  <2>3. ASSUME NEW i \in 1 .. pass, target[i].kind = "forward_udp", Node.kind = "forward_udp",
               target[i].port = Node.port
        PROVE  Node.port = AnyPort
    <3>1. SUFFICES ASSUME Node.port # AnyPort PROVE FALSE
      OBVIOUS
    <3>2. Node.port \in Port
      BY <1>1, <2>3, <3>1 DEF Node, PassInv, Holding, PassType, Nodes
    <3>3. bound[Node.port] = "nobody"
      BY <1>1, <1>4, <2>3, <3>1 DEF InitNode, OpenBinary, OpenText, OpenSocket, HoldNothing, BindSocket,
                                    BindFails, Holders, Dumps
    <3>4. bound[Node.port] \in {"live", "pass"}
      BY <2>3, <3>2 DEF PassInv, Holding, BoundRight
    <3>5. QED
      BY <3>3, <3>4
  <2>4. PortsDiffer(target, pass)'
    <3>1. PortsDiffer(target, pass)
      BY DEF PassSoFar
    <3>2. target[pass + 1] = Node
      BY DEF Node
    <3>3. QED
      BY <1>1, <1>4, <2>1, <2>3, <3>1, <3>2 DEF PortsDiffer
  <2>5. QED
    BY <2>2, <2>4
<1>5. pass' \in {pass, pass + 1}
  BY DEF InitNode, OpenBinary, OpenText, Fopen, OpenSocket, HoldNothing, BindSocket, BindFails, InitDone
<1>6. QED
  BY <1>3, <1>4, <1>5

\* A pass that graph_config_load() completes is about a graph that can be started.
LEMMA LoadedCanLoad ==
  ASSUME PassInv, PassSoFar, Loaded
  PROVE  CanLoad(target)
<1>1. DOMAIN target = 1 .. Len(target) /\ Len(target) \in Nat /\ pass \in 0 .. Len(target)
  BY DEF PassInv, Holding, PassType, Nodes
<1>2. pass = Len(target)
  <2>1. ~(pass < Len(target)) /\ Len(target) \in Nat /\ pass \in 0 .. Len(target)
    BY <1>1 DEF Loaded, Unfinished
  <2>2. QED
    BY <2>1
<1>3. QED
  BY <1>1, <1>2 DEF Loaded, PassSoFar, CanLoad

LEMMA NoPass ==
  ASSUME pass' = 0, target' = <<>>, step' # "validate"
  PROVE  PassSoFar'
BY DEF PassSoFar, PortsDiffer

LEMMA StillPassing ==
  ASSUME PassSoFar, UNCHANGED <<directory, pass, target, main, graph_file, step, op, body>>
  PROVE  PassSoFar'
BY DEF PassSoFar, PortsDiffer, Offered

LEMMA StillChecked ==
  ASSUME Checked, UNCHANGED <<directory, main, graph_file, shown, raced, library, edits, step, op, body>>
  PROVE  Checked'
BY StartStays DEF Checked
ProgramInv == LoaderInv /\ NamesFound /\ PassInv /\ StartInv

\* Between two passes, the web thread is not checking anything.
LEMMA BetweenPasses ==
  ASSUME ProgramInv, main # "graph", step # "validate"
  PROVE  target = <<>> /\ pass = 0
BY DEF ProgramInv, PassInv, Phases, Holding, PassType

LEMMA MainStarts ==
  ASSUME ProgramInv, UNCHANGED directory,
         \/ LoadPlugins \/ StartLoad \/ StartInit \/ StartFails \/ StartLoaded \/ StartDone
         \/ RingFails \/ Work \/ Quit \/ StopChain \/ UnloadPlugins \/ Restart \/ Killed
  PROVE  StartInv'
<1> USE DEF ProgramInv, StartInv
<1>1. CASE LoadPlugins
  <2>1. main' \in {"plugins", "graph", "failed"} /\ (main' = "graph" => loader' = "loaded")
    BY <1>1, Zenon DEF LoadPlugins
  <2>2. step = "idle" /\ target = <<>> /\ pass = 0
    BY <1>1, BetweenPasses DEF LoadPlugins, MainPhases
  <2>3. UNCHANGED <<target, pass, step, op, name, body, graph_file, shown, raced, library, edits>>
    BY <1>1, Zenon DEF LoadPlugins, stageVars, passVars, requestVars, savedVars
  <2>4. MainPhases' /\ PassSoFar'
    BY <2>1, <2>2, <2>3, NoPass DEF MainPhases
  <2>5. Checked'
    BY <2>1, <2>2, <2>3, StartStays DEF Checked
  <2>6. QED
    BY <2>4, <2>5
<1>2. CASE UnloadPlugins
  <2>1. main' \in {"unloading", "exited"} /\ step = "idle" /\ target = <<>> /\ pass = 0
    BY <1>2, BetweenPasses DEF UnloadPlugins, MainPhases
  <2>2. UNCHANGED <<target, pass, step, op, name, body, graph_file, shown, raced, library, edits>>
    BY <1>2 DEF UnloadPlugins, stageVars, passVars, requestVars, savedVars
  <2>3. MainPhases' /\ PassSoFar'
    BY <2>1, <2>2, NoPass DEF MainPhases
  <2>4. Checked'
    BY <2>1, <2>2, StartStays DEF Checked
  <2>5. QED
    BY <2>3, <2>4
<1>3. CASE Quit
  <2>1. main = "serving" /\ main' = "stopping"
    BY <1>3 DEF Quit, Serving
  <2>2. UNCHANGED <<target, pass, loader, step, op, name, body, graph_file, shown, raced, library, edits>>
    BY <1>3 DEF Quit, stageVars, passVars, loaderVars, requestVars, savedVars
  <2>3. MainPhases' /\ Checked'
    BY <2>1, <2>2, StartStays DEF MainPhases, Checked
  <2>4. PassSoFar'
    BY <2>1, <2>2 DEF PassSoFar, PortsDiffer, Offered
  <2>5. QED
    BY <2>3, <2>4
<1>4. CASE StartLoad
  <2>1. main = "graph" /\ step = "idle" /\ target' = graph_file /\ pass' = 0
    BY <1>4 DEF StartLoad, BeginPass, MainPhases
  <2>2. UNCHANGED <<main, loader, step, op, name, body, graph_file, shown, raced, library, edits>>
    BY <1>4 DEF StartLoad, loaderVars, webVars, requestVars, savedVars
  <2>3. MainPhases' /\ Checked'
    BY <2>2, StillChecked DEF MainPhases
  <2>4. PassSoFar'
    BY <2>1, <2>2 DEF PassSoFar, PortsDiffer
  <2>5. QED
    BY <2>3, <2>4
<1>5. CASE StartInit
  <2>1. UNCHANGED <<target, main, loader, step, op, name, body, graph_file, shown, raced, library, edits>>
    BY <1>5 DEF StartInit, InitNode, loaderVars, webVars, requestVars, savedVars
  <2>2. MainPhases' /\ Checked'
    BY <2>1, StillChecked DEF MainPhases
  <2>3. PassSoFar'
    BY <1>5, <2>1, InitProgress DEF StartInit, LoaderInv, MainPhases, PassSoFar
  <2>4. QED
    BY <2>2, <2>3
<1>6. CASE StartFails
  <2>1. main' = "failed" /\ target' = <<>> /\ pass' = 0 /\ step = "idle"
    BY <1>6 DEF StartFails, TeardownPass, EndPass, MainPhases
  <2>2. UNCHANGED <<step, op, name, body, graph_file, shown, raced, library, edits>>
    BY <1>6 DEF StartFails, requestVars, savedVars
  <2>3. MainPhases' /\ PassSoFar'
    BY <2>1, <2>2, NoPass DEF MainPhases
  <2>4. Checked'
    BY <2>1, <2>2, StartStays DEF Checked
  <2>5. QED
    BY <2>3, <2>4
<1>7. CASE StartLoaded
  <2>1. main = "graph" /\ main' = "ring" /\ target # <<>> /\ step = "idle"
    BY <1>7 DEF StartLoaded, MainPhases
  <2>2. UNCHANGED <<loader, step, op, name, body, graph_file, raced, library, edits>>
    BY <1>7 DEF StartLoaded, loaderVars, requestVars, savedVars
  <2>3. GoLive
    BY <1>7 DEF StartLoaded
  <2>4. Loaded /\ target' = <<>> /\ pass' = 0
    BY <2>3, Zenon DEF GoLive
  <2>5. CanLoad(graph_file)
    BY <2>1, <2>4, LoadedCanLoad DEF PassSoFar
  <2>6. MainPhases' /\ PassSoFar'
    BY <2>1, <2>2, <2>4, NoPass DEF MainPhases
  <2>7. Checked'
    BY <2>1, <2>2, <2>5, StartStays DEF Checked
  <2>8. QED
    BY <2>6, <2>7
<1>8. CASE StartDone
  <2>1. main = "ring" /\ main' = "serving" /\ shown' \in {graph_file, Torn, Absent} /\ step = "idle"
    BY <1>8 DEF StartDone, MainPhases
  <2>2. UNCHANGED <<target, pass, loader, step, op, name, body, graph_file, raced, library, edits>>
    BY <1>8 DEF StartDone, loaderVars, stageVars, passVars, requestVars
  <2>3. target' = <<>> /\ pass' = 0
    BY <2>1, <2>2, BetweenPasses
  <2>4. MainPhases' /\ PassSoFar'
    BY <2>1, <2>2, <2>3, NoPass DEF MainPhases
  <2>5. Checked'
    BY <2>1, <2>2, StartStays DEF Checked
  <2>6. QED
    BY <2>4, <2>5
<1>9. CASE Work
  <2>1. PICK i \in DOMAIN dump : WriteBinary(i) \/ WriteText(i) \/ Flush(i) \/ FlushFails(i)
    BY <1>9 DEF Work
  <2>2. UNCHANGED <<target, pass>>
    BY <2>1 DEF WriteBinary, WriteText, Write, Flush, FlushFails, passVars
  <2>3. UNCHANGED <<main, loader, step, op, name, body, graph_file, shown, raced, library, edits>>
    BY <1>9 DEF Work, loaderVars, webVars, requestVars, savedVars
  <2>4. QED
    BY <2>2, <2>3, StillChecked, StillPassing DEF MainPhases
<1>10. CASE StopChain
  <2>1. step = "idle" /\ main = "stopping" /\ main' = "unloading"
    BY <1>10 DEF StopChain, Idle
  <2>2. target' = <<>> /\ pass' = 0
    BY <1>10, <2>1, BetweenPasses DEF StopChain, TeardownLive
  <2>3. UNCHANGED <<step, op, name, body, graph_file, raced, library, edits>>
    BY <1>10 DEF StopChain, requestVars
  <2>4. MainPhases' /\ PassSoFar'
    BY <2>1, <2>2, <2>3, NoPass DEF MainPhases
  <2>5. Checked'
    BY <2>1, <2>3, StartStays DEF Checked
  <2>6. QED
    BY <2>4, <2>5
<1>11. CASE RingFails \/ Killed
  <2>1. Ends
    BY <1>11 DEF RingFails, Killed
  <2>2. main' = "failed" /\ step' = "idle" /\ target' = <<>> /\ pass' = 0
        /\ UNCHANGED <<graph_file, raced, library, edits>>
    BY <2>1 DEF Ends, ReleaseStages, GoIdle
  <2>3. MainPhases' /\ PassSoFar'
    BY <2>2, NoPass DEF MainPhases
  <2>4. Checked'
    BY <2>2, StartStays DEF Checked
  <2>5. QED
    BY <2>3, <2>4
<1>12. CASE Restart
  <2>1. main' = "plugins" /\ step = "idle" /\ target = <<>> /\ pass = 0
    BY <1>12, BetweenPasses DEF Restart, MainPhases
  <2>2. UNCHANGED <<target, pass, step, op, name, body, graph_file, shown, raced, library, edits>>
    BY <1>12 DEF Restart, passVars, requestVars, savedVars
  <2>3. MainPhases' /\ PassSoFar'
    BY <2>1, <2>2, NoPass DEF MainPhases
  <2>4. Checked'
    BY <2>1, <2>2, StartStays DEF Checked
  <2>5. QED
    BY <2>3, <2>4
<1>13. QED
  BY <1>1, <1>2, <1>3, <1>4, <1>5, <1>6, <1>7, <1>8, <1>9, <1>10, <1>11, <1>12

LEMMA CheckStarts ==
  ASSUME ProgramInv, UNCHANGED directory,
         NEW o \in {"save", "upload", "load", "probe"}, NEW n, NEW g, Check(o, n, g)
  PROVE  StartInv'
<1> USE DEF ProgramInv, StartInv
<1>1. /\ main = "serving" /\ main' = "serving" /\ step' = "validate" /\ op' = o
      /\ body' = g /\ target' = g /\ pass' = 0
      /\ UNCHANGED <<loader, graph_file, shown, raced, library, edits>>
  BY DEF Check, BeginPass, Serving, loaderVars, savedVars
<1>2. MainPhases'
  BY <1>1 DEF MainPhases
<1>3. PassSoFar'
  BY <1>1 DEF PassSoFar, PortsDiffer
<1>4. Checked'
  BY <1>1, StartStays DEF Checked
<1>5. QED
  BY <1>2, <1>3, <1>4

LEMMA WebStarts ==
  ASSUME ProgramInv, UNCHANGED directory, WebThread \/ \E n \in Name : HandEdit(n)
  PROVE  StartInv'
<1> USE DEF ProgramInv, StartInv
<1>1. CASE \/ \E g \in Graph : PostGraph(g)
           \/ \E n \in Name, g \in Graph : UploadGraph(n, g)
           \/ \E n \in Name : PostLoad(n)
           \/ \E g \in Graph : \E i \in DOMAIN g : Probe(g[i])
  BY <1>1, CheckStarts DEF PostGraph, UploadGraph, PostLoad, Probe
<1>2. CASE ValidateInit
  <2>1. UNCHANGED <<target, main, loader, step, op, name, body, graph_file, shown, raced, library, edits>>
    BY <1>2 DEF ValidateInit, InitNode, loaderVars, webVars, requestVars, savedVars
  <2>2. MainPhases' /\ Checked'
    BY <2>1, StillChecked DEF MainPhases
  <2>3. main \in {"serving", "stopping"} /\ loader = "loaded"
    BY <1>2 DEF ValidateInit, MainPhases
  <2>4. PassSoFar'
    BY <1>2, <2>1, <2>3, InitProgress DEF ValidateInit, LoaderInv, PassSoFar
  <2>5. QED
    BY <2>2, <2>4
<1>3. CASE ValidateFails
  <2>1. target' = <<>> /\ pass' = 0 /\ step' = "idle"
        /\ UNCHANGED <<main, loader, graph_file, shown, raced, library, edits>>
    BY <1>3 DEF ValidateFails, TeardownPass, EndPass, GoIdle, loaderVars, savedVars
  <2>2. MainPhases' /\ PassSoFar'
    BY <2>1, NoPass DEF MainPhases
  <2>3. Checked'
    BY <2>1, StartStays DEF Checked
  <2>4. QED
    BY <2>2, <2>3
<1>4. CASE Validated
  <2>1. /\ target' = <<>> /\ pass' = 0 /\ step = "validate" /\ op # "probe" /\ Accepted
        /\ step' = (IF op = "load" THEN "reread" ELSE "open")
        /\ UNCHANGED <<main, loader, op, name, body, graph_file, shown, raced, library, edits>>
    BY <1>4 DEF Validated, TeardownPass, EndPass, loaderVars, savedVars
  <2>2. CanLoad(body)
    BY <2>1, LoadedCanLoad DEF Accepted, PassSoFar
  <2>3. MainPhases' /\ PassSoFar'
    BY <2>1, NoPass DEF MainPhases
  <2>4. Checked'
    BY <2>1, <2>2, StartStays DEF Checked
  <2>5. QED
    BY <2>3, <2>4
  \* The steps between two passes.
<1>5. ASSUME step # "validate", step' # "validate", UNCHANGED <<main, loader, target, pass>>,
             main \in {"serving", "stopping"}, Checked'
      PROVE  StartInv'
  <2>1. target' = <<>> /\ pass' = 0
    BY <1>5, BetweenPasses
  <2>2. QED
    BY <1>5, <2>1, NoPass DEF MainPhases
<1>6. CASE Reread
  <2>1. /\ step = "reread" /\ step' \in {"idle", "open"} /\ main \in {"serving", "stopping"}
        /\ UNCHANGED <<main, loader, target, pass, graph_file, shown, library, edits>>
    BY <1>6 DEF Reread, GoIdle, MainPhases, loaderVars, stageVars, passVars
  <2>2. \/ step' = "idle" /\ UNCHANGED raced
        \/ /\ op' = op /\ op = "load" /\ body' \in {library[name], Torn}
           /\ raced' = (raced \/ library[name] # body)
    BY <1>6 DEF Reread, GoIdle, PassInv, RequestType
  <2>3. raced' \in BOOLEAN /\ (raced => raced') /\ (step' = "open" => raced' \/ body' = Torn \/ CanLoad(body'))
    BY <2>1, <2>2 DEF Checked
  <2>4. Checked'
    BY <2>1, <2>2, <2>3, StartStays DEF Checked
  <2>5. QED
    BY <1>5, <2>1, <2>4
<1>7. CASE OpenFails \/ OpenGraphFile \/ OpenLibraryFile
  <2>1. /\ step \in {"reread", "open"} /\ step' \in {"idle", "write"} /\ main \in {"serving", "stopping"}
        /\ UNCHANGED <<main, loader, target, pass, shown, raced, edits>>
    BY <1>7 DEF OpenFails, OpenGraphFile, OpenLibraryFile, OpenFile, GoIdle, MainPhases, loaderVars,
                stageVars, passVars, savedVars
  <2>2. step' = "write" => step = "open" /\ UNCHANGED <<op, body>>
    BY <1>7 DEF OpenFails, OpenGraphFile, OpenLibraryFile, OpenFile, GoIdle
  <2>3. graph_file' \in {graph_file, Torn} /\ \A n \in Name : library'[n] \in {library[n], Torn}
    BY <1>7 DEF OpenFails, OpenGraphFile, OpenLibraryFile, savedVars, PassInv, RequestType
  <2>4. Checked'
    BY <2>1, <2>2, <2>3, StartStays DEF Checked
  <2>5. QED
    BY <1>5, <2>1, <2>4
<1>8. CASE WriteLibrary \/ Activate
  <2>1. /\ step = "write" /\ step' = "idle" /\ main \in {"serving", "stopping"}
        /\ UNCHANGED <<main, loader, target, pass, raced, edits>>
    BY <1>8 DEF WriteLibrary, Activate, GoIdle, MainPhases, loaderVars, stageVars, passVars, savedVars
  <2>2. /\ raced \/ body = Torn \/ CanLoad(body)
        /\ op = "upload" => CanLoad(body)
    BY <2>1 DEF Checked
  <2>3. \/ op = "upload" /\ UNCHANGED <<graph_file, shown>>
           /\ \A n \in Name : library'[n] \in {library[n], body, Torn}
        \/ graph_file' \in {body, Torn} /\ shown' \in {body, shown} /\ UNCHANGED library
    BY <1>8 DEF WriteLibrary, Activate, savedVars, PassInv, RequestType
  <2>4. Checked'
    BY <2>1, <2>2, <2>3, StartStays DEF Checked
  <2>5. QED
    BY <1>5, <2>1, <2>4
<1>9. ASSUME NEW n \in Name, Delete(n) PROVE StartInv'
  <2>1. /\ main = "serving" /\ step = "idle"
        /\ UNCHANGED <<main, loader, target, pass, step, op, body, graph_file, shown, raced, edits>>
        /\ \A m \in Name : library'[m] \in {library[m], Absent}
    BY <1>9 DEF Delete, Serving, Idle, loaderVars, stageVars, passVars, requestVars, savedVars,
                PassInv, RequestType
  <2>2. Checked'
    BY <2>1, StartStays DEF Checked
  <2>3. QED
    BY <1>5, <2>1, <2>2
<1>10. ASSUME NEW n \in Name, HandEdit(n) PROVE StartInv'
  <2>1. /\ UNCHANGED <<main, loader, target, pass, step, op, body, graph_file, shown, raced>>
        /\ edits' = edits + 1
    BY <1>10 DEF HandEdit, loaderVars, stageVars, passVars, requestVars, savedVars
  <2>2. edits \in Nat /\ edits' \in Nat /\ edits' # 0
    BY <2>1 DEF Checked
  <2>3. Checked'
    BY <2>1, <2>2, StartStays DEF Checked
  <2>4. QED
    BY <2>1, <2>3, StillPassing DEF MainPhases
<1>11. QED
  BY <1>1, <1>2, <1>3, <1>4, <1>6, <1>7, <1>8, <1>9, <1>10 DEF WebThread

LEMMA ProgramInvariant == WebSpec => []ProgramInv
<1>1. WebInit => ProgramInv
  <2> SUFFICES ASSUME WebInit PROVE ProgramInv
    OBVIOUS
  <2>1. LoaderInv /\ NamesFound
    BY LoaderStarts, NamesStart DEF WebInit
  <2>2. PassInv
    BY PassStarts
  <2>3. StartInv
    <3>1. /\ main = "plugins" /\ step = "idle" /\ pass = 0 /\ target = <<>>
          /\ raced = FALSE /\ edits = 0 /\ \A n \in Name : library[n] = Absent
      BY DEF WebInit, StagesInit
    <3>2. MainPhases /\ PassSoFar
      BY <3>1 DEF MainPhases, PassSoFar, PortsDiffer
    <3>3. Checked
      BY <3>1 DEF Checked
    <3>4. QED
      BY <3>2, <3>3 DEF StartInv
  <2>4. QED
    BY <2>1, <2>2, <2>3 DEF ProgramInv
<1>2. ProgramInv /\ [WebNext]_vars => ProgramInv'
  <2> SUFFICES ASSUME ProgramInv, [WebNext]_vars PROVE ProgramInv'
    OBVIOUS
  <2>1. LoaderTypeOK /\ UNCHANGED directory
    BY DirectoryStays DEF ProgramInv, LoaderInv
  <2>2. LoaderInv' /\ NamesFound'
    <3>1. CASE [Load \/ Shutdown]_loaderVars
      BY <3>1, LoaderSteps, NamesSteps DEF ProgramInv
    <3>2. CASE LoaderInit'
      BY <3>2, LoaderStarts, NamesStart, PTL
    <3>3. QED
      BY <2>1, <3>1, <3>2, LoaderInProgram
  <2>3. PassInv'
    BY PassSteps DEF ProgramInv
  <2>4. StartInv'
    <3>1. CASE UNCHANGED vars
      <4>1. UNCHANGED <<target, pass, main, loader, step, op, body, graph_file, shown, raced, library, edits>>
        BY <3>1 DEF vars, loaderVars, stageVars, passVars, webVars, requestVars, savedVars
      <4>2. QED
        BY <2>1, <4>1, StillPassing, StillChecked DEF ProgramInv, StartInv, MainPhases
    <3>2. QED
      BY <2>1, <3>1, MainStarts, WebStarts DEF WebNext, Over
  <2>5. QED
    BY <2>2, <2>3, <2>4 DEF ProgramInv
<1>3. QED
  BY <1>1, <1>2, PTL DEF WebSpec

\* Whatever requests, hand edits, read and write errors, kills and restarts went
\* before, a graph that is whole in the --graph file, shown, or only ever uploaded
\* passes graph_config_load(), but for the race of one load (web_status.c:910-965).
THEOREM SavedGraphsLoad == WebSpec => []SavedGraphLoads
<1>1. ProgramInv => SavedGraphLoads
  <2> SUFFICES ASSUME ProgramInv, main \in {"serving", "stopping"} PROVE SavedGraphLoads
    BY DEF SavedGraphLoads
  <2>1. loader = "loaded"
    BY DEF ProgramInv, StartInv, MainPhases
  <2>2. ASSUME NEW g, CanLoad(g) PROVE Loadable(g)
    <3>1. g \in SoundGraph /\ g \in Graph /\ DOMAIN g = 1 .. Len(g)
      BY <2>2, NodesOfGraphs, ResourceAssumption DEF CanLoad, Nodes
    <3>2. \A i \in DOMAIN g : Registered(g[i].kind)
      BY <2>1, <2>2 DEF CanLoad, ProgramInv, NamesFound
    <3>3. PortsDiffer(g, Len(g))
      BY <2>2 DEF CanLoad
    <3>4. QED
      BY <3>1, <3>2, <3>3 DEF Loadable, PortsDiffer
  <2>3. QED
    BY <2>2 DEF SavedGraphLoads, Listed, ProgramInv, StartInv, Checked
<1>2. QED
  BY <1>1, ProgramInvariant, PTL

-------------------------------------------------------------------------------
\* What is in the dump files.

FileOfDump == [path : Path, stream : Seq(Nat), offset : Nat, written : Nat, cut : Nat, short : BOOLEAN]

DumpType ==
  /\ file \in [Path -> Seq(Nat \X Nat)]
  /\ dump = [i \in DOMAIN dump |-> dump[i]] /\ DOMAIN dump \subseteq Nat
  /\ \A i \in DOMAIN dump : dump[i] \in FileOfDump

\* A file is emptied at a place that its FILE has reached, and a FILE has taken, in
\* order and each once, bytes that it was given.
NodeRight(i) ==
  /\ dump[i].cut <= dump[i].offset /\ dump[i].offset <= Len(dump[i].stream)
  /\ \A j, k \in 1 .. Len(dump[i].stream) : j < k => dump[i].stream[j] < dump[i].stream[k]
  /\ \A j \in 1 .. Len(dump[i].stream) : dump[i].stream[j] <= dump[i].written
  /\ ~dump[i].short => Len(dump[i].stream) = dump[i].written

\* w is in WrittenBy(p, j).
Covers(w, p, j) == dump[w].path = p /\ dump[w].cut < j /\ j <= dump[w].offset

FileRight(p) ==
  /\ \A j \in 1 .. Len(file[p]) :
       \/ file[p][j] = Hole /\ \A w \in DOMAIN dump : ~Covers(w, p, j)
       \/ \E w \in DOMAIN dump : Covers(w, p, j) /\ file[p][j] = <<w, dump[w].stream[j]>>
  /\ \A w \in DOMAIN dump :
       dump[w].path = p /\ dump[w].cut < dump[w].offset => dump[w].offset <= Len(file[p])
  /\ Len(file[p]) > 0 => \E w \in DOMAIN dump : Covers(w, p, Len(file[p]))

AllRight == DumpType /\ \A i \in DOMAIN dump : NodeRight(i) /\ FileRight(dump[i].path)

\* The files that the startup has opened are empty, so that the chain can start there.
OpenedEmpty ==
  main = "graph" => \A i \in 1 .. pass : target[i].kind \in Dumps => file[target[i].path] = <<>>

\* Only a chain at work has anything buffered.
Drained ==
  /\ main \in {"ring", "serving", "stopping"} => DOMAIN dump \subseteq DOMAIN live
  /\ main \notin {"serving", "stopping"} => \A i \in DOMAIN dump : Buffered(i) = 0

DumpInv == AllRight /\ OpenedEmpty /\ Drained

\* A step that leaves the files alone, and of each FILE what it has in its file.
LEMMA FilesKept ==
  ASSUME AllRight, UNCHANGED file, dump' = [i \in DOMAIN dump |-> dump'[i]],
         \A i \in DOMAIN dump :
           /\ dump'[i] \in FileOfDump /\ NodeRight(i)'
           /\ dump'[i].path = dump[i].path /\ dump'[i].cut = dump[i].cut
           /\ dump'[i].offset = dump[i].offset
           /\ \A j \in 1 .. dump[i].offset : dump'[i].stream[j] = dump[i].stream[j]
  PROVE  AllRight'
<1>1. DOMAIN dump' = DOMAIN dump /\ DumpType'
  BY DEF AllRight, DumpType
<1>2. \A w \in DOMAIN dump : \A p, j : Covers(w, p, j)' <=> Covers(w, p, j)
  BY DEF Covers
<1>3. \A w \in DOMAIN dump : dump[w].cut \in Nat /\ dump[w].offset \in Nat
  BY DEF AllRight, DumpType, FileOfDump
<1>4. ASSUME NEW i \in DOMAIN dump PROVE FileRight(dump[i].path)'
  <2>1. PICK p : p = dump[i].path /\ p = dump'[i].path
    OBVIOUS
  <2>2. FileRight(p)
    BY <2>1 DEF AllRight
  <2>3. ASSUME NEW j \in 1 .. Len(file[p])
        PROVE  \/ file[p][j] = Hole /\ \A w \in DOMAIN dump : ~Covers(w, p, j)'
               \/ \E w \in DOMAIN dump : Covers(w, p, j)' /\ file[p][j] = <<w, dump'[w].stream[j]>>
    <3>1. CASE file[p][j] = Hole /\ \A w \in DOMAIN dump : ~Covers(w, p, j)
      BY <1>2, <3>1
    <3>2. ASSUME NEW w \in DOMAIN dump, Covers(w, p, j), file[p][j] = <<w, dump[w].stream[j]>>
          PROVE  Covers(w, p, j)' /\ file[p][j] = <<w, dump'[w].stream[j]>>
      <4>1. j \in 1 .. dump[w].offset
        BY <1>3, <3>2 DEF Covers
      <4>2. QED
        BY <1>2, <3>2, <4>1
    <3>3. QED
      BY <2>2, <3>1, <3>2 DEF FileRight
  <2>4. \A w \in DOMAIN dump :
          dump'[w].path = p /\ dump'[w].cut < dump'[w].offset => dump'[w].offset <= Len(file[p])
    BY <2>2 DEF FileRight
  <2>5. Len(file[p]) > 0 => \E w \in DOMAIN dump : Covers(w, p, Len(file[p]))'
    BY <1>2, <2>2 DEF FileRight
  <2>6. FileRight(p)'
    BY <1>1, <2>3, <2>4, <2>5 DEF FileRight, Covers
  <2>7. QED
    BY <2>1, <2>6
<1>5. QED
  BY <1>1, <1>4 DEF AllRight

\* Whoever has the file open sees it as fopen() leaves it.
LEMMA FopenRight ==
  ASSUME AllRight, NEW p \in Path, Fopen(p)
  PROVE  AllRight' /\ DOMAIN dump' = DOMAIN dump /\ file'[p] = <<>>
         /\ (\A q \in Path : q # p => file'[q] = file[q])
         /\ \A i \in DOMAIN dump : Buffered(i)' = Buffered(i)
<1>1. /\ file' = [file EXCEPT ![p] = <<>>]
      /\ dump' = [i \in DOMAIN dump |->
                    IF dump[i].path = p THEN [dump[i] EXCEPT !.cut = dump[i].offset] ELSE dump[i]]
  BY DEF Fopen
<1>2. file'[p] = <<>> /\ (\A q \in Path : q # p => file'[q] = file[q]) /\ file' \in [Path -> Seq(Nat \X Nat)]
  BY <1>1, EmptySeq DEF AllRight, DumpType
<1>3. ASSUME NEW i \in DOMAIN dump
      PROVE  /\ dump'[i] \in FileOfDump
             /\ dump'[i].path = dump[i].path /\ dump'[i].offset = dump[i].offset
             /\ dump'[i].stream = dump[i].stream /\ dump'[i].written = dump[i].written
             /\ dump'[i].short = dump[i].short
             /\ dump[i].path # p => dump'[i].cut = dump[i].cut
             /\ dump[i].path = p => dump'[i].cut = dump[i].offset
             /\ dump[i].offset \in Nat /\ dump[i].cut \in Nat /\ dump[i].path \in Path
  BY <1>1 DEF AllRight, DumpType, FileOfDump
<1>4. DOMAIN dump' = DOMAIN dump /\ dump' = [i \in DOMAIN dump' |-> dump'[i]]
  BY <1>1
<1>5. DumpType'
  BY <1>2, <1>3, <1>4 DEF AllRight, DumpType
<1>6. ASSUME NEW i \in DOMAIN dump PROVE NodeRight(i)'
  <2>1. NodeRight(i)
    BY DEF AllRight
  <2>2. QED
    BY <1>3, <2>1 DEF NodeRight
<1>7. ASSUME NEW i \in DOMAIN dump PROVE FileRight(dump[i].path)'
  <2>1. PICK q \in Path : q = dump[i].path /\ q = dump'[i].path
    BY <1>3
  <2>2. FileRight(q)
    BY <2>1 DEF AllRight
  <2>3. CASE q = p
    <3>1. Len(file'[p]) = 0
      BY <1>2, EmptySeq
    <3>2. \A w \in DOMAIN dump : ~(dump'[w].path = p /\ dump'[w].cut < dump'[w].offset)
      BY <1>3
    <3>3. FileRight(q)'
      BY <1>4, <2>3, <3>1, <3>2 DEF FileRight
    <3>4. QED
      BY <2>1, <3>3
  <2>4. CASE q # p
    <3>1. \A w \in DOMAIN dump : \A j : Covers(w, q, j)' <=> Covers(w, q, j)
      BY <1>3, <2>4 DEF Covers
    <3>2. \A w \in DOMAIN dump : dump'[w].stream = dump[w].stream /\ dump'[w].offset = dump[w].offset
      BY <1>3
    <3>3. file'[q] = file[q]
      BY <1>2, <2>4
    <3>4. \A w \in DOMAIN dump' :
            dump'[w].path = q /\ dump'[w].cut < dump'[w].offset => dump'[w].offset <= Len(file'[q])
      BY <1>3, <1>4, <2>2, <2>4, <3>3 DEF FileRight
    <3>5. FileRight(q)'
      BY <1>4, <2>2, <3>1, <3>2, <3>3, <3>4 DEF FileRight
    <3>6. QED
      BY <2>1, <3>5
  <2>5. QED
    BY <2>3, <2>4
<1>8. \A i \in DOMAIN dump : Buffered(i)' = Buffered(i)
  BY <1>3 DEF Buffered
<1>9. QED
  BY <1>2, <1>3, <1>4, <1>5, <1>6, <1>7, <1>8 DEF AllRight

\* What was buffered and is lost was not in the file.
LEMMA EmptiedRight ==
  ASSUME AllRight, NEW i \in DOMAIN dump, NEW d, d = Emptied(dump[i])
  PROVE  /\ d \in FileOfDump
         /\ d.path = dump[i].path /\ d.cut = dump[i].cut /\ d.offset = dump[i].offset
         /\ d.written = dump[i].written /\ Len(d.stream) = d.offset
         /\ \A j \in 1 .. d.offset : d.stream[j] = dump[i].stream[j]
         /\ d.short <=> dump[i].short \/ Len(dump[i].stream) > dump[i].offset
<1>1. /\ dump[i] \in FileOfDump /\ dump[i].stream \in Seq(Nat) /\ dump[i].offset \in Nat
      /\ Len(dump[i].stream) \in Nat /\ dump[i].offset <= Len(dump[i].stream) /\ dump[i].short \in BOOLEAN
  BY DEF AllRight, DumpType, FileOfDump, NodeRight
<1>2. PICK t : t = SubSeq(dump[i].stream, 1, dump[i].offset)
  OBVIOUS
<1>3. t \in Seq(Nat) /\ Len(t) = dump[i].offset /\ \A j \in 1 .. dump[i].offset : t[j] = dump[i].stream[j]
  BY <1>1, <1>2
<1>4. PICK b \in BOOLEAN : b = (dump[i].short \/ Len(dump[i].stream) > dump[i].offset)
  OBVIOUS
<1>5. d = [dump[i] EXCEPT !.stream = t, !.short = b]
  BY <1>2, <1>4, Zenon DEF Emptied
<1>6. QED
  BY <1>1, <1>3, <1>4, <1>5 DEF FileOfDump

LEMMA ReleaseRight ==
  ASSUME AllRight, UNCHANGED file,
         \A i \in DOMAIN dump : dump'[i] = dump[i] \/ dump'[i] = Emptied(dump[i]),
         dump' = [i \in DOMAIN dump |-> dump'[i]]
  PROVE  AllRight' /\ DOMAIN dump' = DOMAIN dump
<1>1. ASSUME NEW i \in DOMAIN dump
      PROVE  /\ dump'[i] \in FileOfDump /\ NodeRight(i)'
             /\ dump'[i].path = dump[i].path /\ dump'[i].cut = dump[i].cut
             /\ dump'[i].offset = dump[i].offset
             /\ \A j \in 1 .. dump[i].offset : dump'[i].stream[j] = dump[i].stream[j]
  <2>1. NodeRight(i) /\ dump[i] \in FileOfDump
    BY DEF AllRight, DumpType
  <2>2. CASE dump'[i] = dump[i]
    BY <2>1, <2>2 DEF NodeRight
  <2>3. CASE dump'[i] = Emptied(dump[i])
    <3>1. PICK d : d = dump'[i] /\ d = Emptied(dump[i])
      BY <2>3
    <3>2. PICK e : e = dump[i]
      OBVIOUS
    <3>3. /\ d \in FileOfDump /\ d.path = e.path /\ d.cut = e.cut /\ d.offset = e.offset
          /\ d.written = e.written /\ Len(d.stream) = d.offset
          /\ \A j \in 1 .. d.offset : d.stream[j] = e.stream[j]
          /\ d.short <=> e.short \/ Len(e.stream) > e.offset
      BY <3>1, <3>2, EmptiedRight
    <3>4. /\ e.cut <= e.offset /\ e.offset <= Len(e.stream)
          /\ \A j, k \in 1 .. Len(e.stream) : j < k => e.stream[j] < e.stream[k]
          /\ \A j \in 1 .. Len(e.stream) : e.stream[j] <= e.written
          /\ ~e.short => Len(e.stream) = e.written
      BY <2>1, <3>2 DEF NodeRight
    <3>5. Len(e.stream) \in Nat /\ e.offset \in Nat /\ e.written \in Nat
      BY <2>1, <3>2 DEF FileOfDump
    <3>6. \A j \in 1 .. d.offset : j \in 1 .. Len(e.stream)
      BY <3>3, <3>4, <3>5
    <3>7. /\ d.cut <= d.offset /\ d.offset <= Len(d.stream)
          /\ \A j, k \in 1 .. Len(d.stream) : j < k => d.stream[j] < d.stream[k]
          /\ \A j \in 1 .. Len(d.stream) : d.stream[j] <= d.written
          /\ ~d.short => Len(d.stream) = d.written
      BY <3>3, <3>4, <3>5, <3>6
    <3>8. QED
      BY <3>1, <3>2, <3>3, <3>7 DEF NodeRight
  <2>4. QED
    BY <2>2, <2>3
<1>2. QED
  BY <1>1, FilesKept

\* The bytes that a FILE takes go behind those that it has.
LEMMA WriteRight ==
  ASSUME AllRight, NEW i \in DOMAIN dump, NEW n \in Nat, Write(i, n)
  PROVE  AllRight' /\ DOMAIN dump' = DOMAIN dump /\ UNCHANGED <<live, passVars, file>>
<1>1. PICK taken \in 0 .. n :
        dump' = [dump EXCEPT ![i].written = @ + n,
                             ![i].stream = @ \o [k \in 1 .. taken |-> dump[i].written + k],
                             ![i].short = @ \/ taken < n]
  BY Zenon DEF Write
<1>2. UNCHANGED <<live, passVars, file>>
  BY DEF Write
<1>3. PICK e : e = dump[i]
  OBVIOUS
<1>4. /\ e \in FileOfDump /\ e.stream \in Seq(Nat) /\ Len(e.stream) \in Nat /\ e.written \in Nat
      /\ e.offset \in Nat /\ e.short \in BOOLEAN
      /\ e.cut <= e.offset /\ e.offset <= Len(e.stream)
      /\ \A j, k \in 1 .. Len(e.stream) : j < k => e.stream[j] < e.stream[k]
      /\ \A j \in 1 .. Len(e.stream) : e.stream[j] <= e.written
      /\ ~e.short => Len(e.stream) = e.written
  BY <1>3 DEF AllRight, DumpType, FileOfDump, NodeRight
<1>5. PICK b : b = [k \in 1 .. taken |-> e.written + k]
  OBVIOUS
<1>6. taken \in Nat /\ b \in Seq(Nat) /\ Len(b) = taken /\ \A k \in 1 .. taken : b[k] = e.written + k
  BY <1>4, <1>5
<1>7. PICK s : s = e.stream \o b
  OBVIOUS
<1>8. /\ s \in Seq(Nat) /\ Len(s) = Len(e.stream) + taken
      /\ \A j \in 1 .. Len(e.stream) + taken :
           s[j] = IF j <= Len(e.stream) THEN e.stream[j] ELSE b[j - Len(e.stream)]
  <2>1. PICK t : t = e.stream
    OBVIOUS
  <2>2. t \in Seq(Nat) /\ b \in Seq(Nat)
    BY <1>4, <1>6, <2>1
  <2>3. /\ t \o b \in Seq(Nat) /\ Len(t \o b) = Len(t) + Len(b)
        /\ \A j \in 1 .. Len(t) + Len(b) : (t \o b)[j] = IF j <= Len(t) THEN t[j] ELSE b[j - Len(t)]
    BY <2>2, ConcatProperties, Zenon
  <2>4. s = t \o b /\ Len(b) = taken
    BY <1>6, <1>7, <2>1
  <2>5. QED
    BY <2>1, <2>3, <2>4, Zenon
<1>9. PICK m \in Nat : m = Len(e.stream)
  BY <1>4
<1>10. \A j \in 1 .. m + taken :
         /\ j <= m => s[j] = e.stream[j]
         /\ j > m => s[j] = e.written + (j - m)
  <2>1. ASSUME NEW j \in 1 .. m + taken PROVE s[j] = IF j <= m THEN e.stream[j] ELSE b[j - m]
    BY <1>8, <1>9
  <2>2. ASSUME NEW j \in 1 .. m + taken, j > m PROVE s[j] = e.written + (j - m)
    <3>1. j - m \in 1 .. taken /\ ~(j <= m)
      BY <1>6, <2>2
    <3>2. QED
      BY <1>6, <2>1, <3>1
  <2>3. QED
    BY <2>1, <2>2
<1>11. PICK z \in BOOLEAN : z = (e.short \/ taken < n)
  OBVIOUS
<1>12. PICK d : d = [e EXCEPT !.written = e.written + n, !.stream = s, !.short = z]
  OBVIOUS
<1>13. /\ d \in FileOfDump /\ d.path = e.path /\ d.cut = e.cut /\ d.offset = e.offset
       /\ d.stream = s /\ d.written = e.written + n /\ d.short = z
  <2>1. s \in Seq(Nat) /\ e.written + n \in Nat
    BY <1>4, <1>8
  <2>2. QED
    BY <1>4, <1>12, <2>1 DEF FileOfDump
<1>14. dump' = [dump EXCEPT ![i] = d]
  <2>1. dump' = [dump EXCEPT ![i].written = e.written + n, ![i].stream = s, ![i].short = z]
    BY <1>1, <1>3, <1>5, <1>7, <1>11
  <2>2. QED
    BY <1>3, <1>12, <2>1
<1>15. dump' = [w \in DOMAIN dump |-> dump'[w]] /\ dump'[i] = d
       /\ \A w \in DOMAIN dump : w # i => dump'[w] = dump[w]
  BY <1>14
<1>16. /\ d.cut <= d.offset /\ d.offset <= Len(d.stream)
       /\ \A j, k \in 1 .. Len(d.stream) : j < k => d.stream[j] < d.stream[k]
       /\ \A j \in 1 .. Len(d.stream) : d.stream[j] <= d.written
       /\ ~d.short => Len(d.stream) = d.written
  <2>1. Len(s) = m + taken /\ taken <= n /\ m <= m + taken
    BY <1>6, <1>8, <1>9
  <2>2. PICK o \in Nat, v \in Nat : o = e.offset /\ v = e.written
    BY <1>4
  <2>3. o <= m + taken
    BY <1>4, <1>6, <1>9, <2>2
  <2>4. ASSUME NEW j \in 1 .. m PROVE e.stream[j] \in Nat /\ e.stream[j] <= v
    BY <1>4, <1>9, <2>2
  <2>5. ASSUME NEW j \in 1 .. m + taken PROVE s[j] <= v + n
    <3>1. CASE j <= m
      <4>1. j \in 1 .. m
        BY <3>1
      <4>2. PICK x \in Nat : x = s[j] /\ x <= v
        BY <1>10, <2>4, <3>1, <4>1
      <4>3. QED
        BY <4>2
    <3>2. CASE j > m
      <4>1. s[j] = v + (j - m)
        BY <1>10, <2>2, <3>2
      <4>2. j - m <= taken
        BY <1>6, <3>2
      <4>3. QED
        BY <1>6, <2>1, <4>1, <4>2
    <3>3. QED
      BY <3>1, <3>2
  <2>6. ASSUME NEW j \in 1 .. m + taken, NEW k \in 1 .. m + taken, j < k PROVE s[j] < s[k]
    <3>1. CASE k <= m
      <4>1. j \in 1 .. m /\ k \in 1 .. m
        BY <2>6, <3>1
      <4>2. s[j] = e.stream[j] /\ s[k] = e.stream[k]
        BY <1>10, <4>1
      <4>3. QED
        BY <1>4, <1>9, <2>6, <4>1, <4>2
    <3>2. CASE k > m /\ j <= m
      <4>1. j \in 1 .. m
        BY <3>2
      <4>2. PICK x \in Nat : x = s[j] /\ x <= v
        BY <1>10, <2>4, <3>2, <4>1
      <4>3. s[k] = v + (k - m)
        BY <1>10, <2>2, <3>2
      <4>4. QED
        BY <3>2, <4>2, <4>3
    <3>3. CASE j > m
      <4>1. s[j] = v + (j - m) /\ s[k] = v + (k - m)
        BY <1>10, <2>2, <2>6, <3>3
      <4>2. QED
        BY <2>6, <4>1
    <3>4. QED
      BY <3>1, <3>2, <3>3
  <2>7. ~z => m + taken = v + n
    <3>1. SUFFICES ASSUME ~z PROVE m + taken = v + n
      OBVIOUS
    <3>2. m = v /\ ~(taken < n)
      BY <1>4, <1>9, <1>11, <2>2, <3>1
    <3>3. QED
      BY <1>6, <2>1, <3>2
  <2>8. QED
    BY <1>4, <1>13, <2>1, <2>2, <2>3, <2>5, <2>6, <2>7
<1>17. ASSUME NEW w \in DOMAIN dump
       PROVE  /\ dump'[w] \in FileOfDump /\ NodeRight(w)'
              /\ dump'[w].path = dump[w].path /\ dump'[w].cut = dump[w].cut
              /\ dump'[w].offset = dump[w].offset
              /\ \A j \in 1 .. dump[w].offset : dump'[w].stream[j] = dump[w].stream[j]
  <2>1. CASE w = i
    <3>1. \A j \in 1 .. e.offset : j \in 1 .. m + taken /\ j <= m
      BY <1>4, <1>6, <1>9
    <3>2. NodeRight(w)'
      BY <1>15, <1>16, <2>1 DEF NodeRight
    <3>3. QED
      BY <1>3, <1>10, <1>13, <1>15, <2>1, <3>1, <3>2
  <2>2. CASE w # i
    BY <1>15, <2>2 DEF AllRight, DumpType, NodeRight
  <2>3. QED
    BY <2>1, <2>2
<1>18. AllRight'
  BY <1>2, <1>15, <1>17, FilesKept
<1>19. QED
  BY <1>2, <1>15, <1>18

\* Place by place, what write() of n bytes of s at o makes of a file.
Overwritten(f, old, i, s, o, n) ==
  /\ f \in Seq(Nat \X Nat) /\ Len(f) >= Len(old) /\ Len(f) >= o + n
  /\ Len(f) = Len(old) \/ Len(f) = o + n
  /\ \A j \in 1 .. Len(f) :
       /\ j > o /\ j <= o + n => f[j] = <<i, s[j]>>
       /\ ~(j > o /\ j <= o + n) /\ j <= Len(old) => f[j] = old[j]
       /\ ~(j > o /\ j <= o + n) /\ j > Len(old) => f[j] = Hole

LEMMA FlushedFile ==
  ASSUME AllRight, NEW i \in DOMAIN dump, NEW n \in 1 .. Buffered(i)
  PROVE  Overwritten(Flushed(i, n), file[dump[i].path], i, dump[i].stream, dump[i].offset, n)
<1> PICK f, p, o : f = Flushed(i, n) /\ p = dump[i].path /\ o = dump[i].offset
  OBVIOUS
<1>1. /\ p \in Path /\ file[p] \in Seq(Nat \X Nat) /\ Len(file[p]) \in Nat /\ o \in Nat
      /\ i \in Nat /\ dump[i].stream \in Seq(Nat) /\ Len(dump[i].stream) \in Nat
  BY DEF AllRight, DumpType, FileOfDump
<1>2. n \in Nat /\ n > 0 /\ o + n <= Len(dump[i].stream)
  <2>1. PICK m \in Nat : m = Len(dump[i].stream)
    BY <1>1
  <2>2. n \in 1 .. m - o
    BY <2>1 DEF Buffered
  <2>3. QED
    BY <1>1, <2>1, <2>2
<1>3. PICK old \in Seq(Nat \X Nat), s \in Seq(Nat) : old = file[p] /\ s = dump[i].stream
  BY <1>1
<1>4. PICK l \in Nat, m \in Nat : l = Len(old) /\ m = Len(s)
  BY <1>1, <1>3
<1>5. PICK e \in Nat : e = o + n
  BY <1>1, <1>2
<1>6. PICK top \in Nat : top = IF e > l THEN e ELSE l
  BY <1>4, <1>5
<1>7. f = [j \in 1 .. top |-> IF j > o /\ j <= e THEN <<i, s[j]>>
                             ELSE IF j <= l THEN old[j] ELSE Hole]
  BY <1>3, <1>4, <1>5, <1>6, Zenon DEF Flushed
<1>8. ASSUME NEW j \in 1 .. top
      PROVE  (IF j > o /\ j <= e THEN <<i, s[j]>> ELSE IF j <= l THEN old[j] ELSE Hole) \in Nat \X Nat
  <2>1. CASE j > o /\ j <= e
    <3>1. j \in 1 .. m
      BY <1>1, <1>2, <1>3, <1>4, <1>5, <2>1
    <3>2. s[j] \in Nat
      BY <1>4, <3>1
    <3>3. QED
      BY <1>1, <2>1, <3>2
  <2>2. CASE ~(j > o /\ j <= e) /\ j <= l
    <3>1. old[j] \in Nat \X Nat
      BY <1>4, <2>2
    <3>2. (IF j > o /\ j <= e THEN <<i, s[j]>> ELSE IF j <= l THEN old[j] ELSE Hole) = old[j]
      BY <2>2, Zenon
    <3>3. QED
      BY <3>1, <3>2, Zenon
  <2>3. CASE ~(j > o /\ j <= e) /\ ~(j <= l)
    BY <2>3 DEF Hole
  <2>4. QED
    BY <2>1, <2>2, <2>3
<1>9. f \in Seq(Nat \X Nat) /\ Len(f) = top
  <2>1. f \in [1 .. top -> Nat \X Nat]
    BY <1>7, <1>8, Zenon
  <2>2. QED
    BY <2>1
<1>10. top >= l /\ top >= e /\ (top = l \/ top = e)
  BY <1>4, <1>5, <1>6
<1>11. ASSUME NEW j \in 1 .. top
       PROVE  /\ j > o /\ j <= e => f[j] = <<i, s[j]>>
              /\ ~(j > o /\ j <= e) /\ j <= l => f[j] = old[j]
              /\ ~(j > o /\ j <= e) /\ j > l => f[j] = Hole
  <2>1. f[j] = IF j > o /\ j <= e THEN <<i, s[j]>> ELSE IF j <= l THEN old[j] ELSE Hole
    BY <1>7, Zenon
  <2>2. j > l => ~(j <= l)
    BY <1>4
  <2>3. QED
    BY <2>1, <2>2
<1>12. Overwritten(f, old, i, s, o, n)
  BY <1>3, <1>4, <1>5, <1>9, <1>10, <1>11 DEF Overwritten
<1>13. QED
  BY <1>3, <1>12

LEMMA FlushRight ==
  ASSUME AllRight, NEW i \in DOMAIN dump, Flush(i)
  PROVE  AllRight' /\ DOMAIN dump' = DOMAIN dump /\ UNCHANGED <<live, passVars>>
<1>1. PICK n \in 1 .. Buffered(i) :
        /\ file' = [file EXCEPT ![dump[i].path] = Flushed(i, n)]
        /\ dump' = [dump EXCEPT ![i].offset = @ + n]
  BY Zenon DEF Flush
<1>2. PICK p \in Path, o \in Nat, s \in Seq(Nat) :
        p = dump[i].path /\ o = dump[i].offset /\ s = dump[i].stream
  BY DEF AllRight, DumpType, FileOfDump
<1>3. PICK f : f = Flushed(i, n)
  OBVIOUS
<1>4. PICK old : old = file[p] /\ old \in Seq(Nat \X Nat)
  BY DEF AllRight, DumpType
<1>5. /\ f \in Seq(Nat \X Nat) /\ Len(f) >= Len(old) /\ Len(f) >= o + n
      /\ Len(f) = Len(old) \/ Len(f) = o + n
      /\ \A j \in 1 .. Len(f) :
           /\ j > o /\ j <= o + n => f[j] = <<i, s[j]>>
           /\ ~(j > o /\ j <= o + n) /\ j <= Len(old) => f[j] = old[j]
           /\ ~(j > o /\ j <= o + n) /\ j > Len(old) => f[j] = Hole
  <2>1. Overwritten(Flushed(i, n), file[dump[i].path], i, dump[i].stream, dump[i].offset, n)
    BY FlushedFile
  <2>2. Overwritten(f, old, i, s, o, n)
    BY <1>2, <1>3, <1>4, <2>1
  <2>3. QED
    BY <2>2, Zenon DEF Overwritten
<1>6. PICK l \in Nat, top \in Nat, m \in Nat : l = Len(old) /\ top = Len(f) /\ m = Len(s)
  <2>1. s \in Seq(Nat)
    BY <1>2 DEF AllRight, DumpType, FileOfDump
  <2>2. QED
    BY <1>4, <1>5, <2>1
<1>7. n \in Nat /\ n > 0 /\ o + n <= m
  <2>1. n \in 1 .. m - o
    BY <1>2, <1>6 DEF Buffered
  <2>2. QED
    BY <2>1
<1>8. PICK c \in Nat : c = dump[i].cut /\ c <= o
  BY <1>2 DEF AllRight, DumpType, FileOfDump, NodeRight
<1>9. /\ file' = [file EXCEPT ![p] = f] /\ file'[p] = f
      /\ \A q \in Path : q # p => file'[q] = file[q]
      /\ file' \in [Path -> Seq(Nat \X Nat)]
  BY <1>1, <1>2, <1>3, <1>5 DEF AllRight, DumpType
<1>10. /\ dump' = [w \in DOMAIN dump |-> dump'[w]] /\ DOMAIN dump' = DOMAIN dump
       /\ \A w \in DOMAIN dump : w # i => dump'[w] = dump[w]
       /\ dump'[i] = [dump[i] EXCEPT !.offset = o + n]
  BY <1>1, <1>2
<1>11. /\ dump'[i] \in FileOfDump /\ dump'[i].offset = o + n
       /\ dump'[i].path = p /\ dump'[i].stream = s /\ dump'[i].cut = c
       /\ dump'[i].written = dump[i].written /\ dump'[i].short = dump[i].short
  <2>1. PICK e \in FileOfDump : e = dump[i]
    BY DEF AllRight, DumpType
  <2>2. PICK k \in Nat : k = o + n
    BY <1>7
  <2>3. dump'[i] = [e EXCEPT !.offset = k]
    BY <1>10, <2>1, <2>2
  <2>4. QED
    BY <1>2, <1>8, <2>1, <2>2, <2>3 DEF FileOfDump
<1>12. DumpType'
  BY <1>9, <1>10, <1>11 DEF AllRight, DumpType
<1>13. ASSUME NEW w \in DOMAIN dump PROVE NodeRight(w)'
  <2>1. NodeRight(w)
    BY DEF AllRight
  <2>2. CASE w = i
    <3>1. c <= o + n
      BY <1>7, <1>8
    <3>2. QED
      BY <1>2, <1>6, <1>7, <1>11, <2>1, <2>2, <3>1 DEF NodeRight
  <2>3. CASE w # i
    BY <1>10, <2>1, <2>3 DEF NodeRight
  <2>4. QED
    BY <2>2, <2>3
  \* Node i now covers n places more, and nothing else has changed hands.
<1>14. ASSUME NEW w \in DOMAIN dump, NEW q, NEW j \in Nat, ~(q = p /\ j > o /\ j <= o + n)
       PROVE  Covers(w, q, j)' <=> Covers(w, q, j)
  <2>1. CASE w = i
    <3>1. Covers(w, q, j) <=> p = q /\ c < j /\ j <= o
      BY <1>2, <1>8, <2>1 DEF Covers
    <3>2. Covers(w, q, j)' <=> p = q /\ c < j /\ j <= o + n
      BY <1>11, <2>1 DEF Covers
    <3>3. QED
      BY <1>7, <1>14, <3>1, <3>2
  <2>2. CASE w # i
    BY <1>10, <2>2 DEF Covers
  <2>3. QED
    BY <2>1, <2>2
<1>15. ASSUME NEW j \in Nat, j > o, j <= o + n PROVE Covers(i, p, j)'
  <2>1. c < j
    BY <1>8, <1>15
  <2>2. QED
    BY <1>11, <1>15, <2>1 DEF Covers
<1>16. \A w \in DOMAIN dump : dump'[w].stream = dump[w].stream /\ dump'[w].path = dump[w].path
  BY <1>2, <1>10, <1>11
<1>17. ASSUME NEW w \in DOMAIN dump, dump[w].path # p PROVE FileRight(dump[w].path)'
  <2>1. PICK q \in Path : q = dump[w].path /\ q # p
    BY <1>17 DEF AllRight, DumpType, FileOfDump
  <2>2. FileRight(q) /\ file'[q] = file[q] /\ file[q] \in Seq(Nat \X Nat)
    BY <1>9, <2>1 DEF AllRight, DumpType
  <2>3. \A v \in DOMAIN dump, j \in Nat : Covers(v, q, j)' <=> Covers(v, q, j)
    BY <1>14, <2>1
  <2>4. PICK k \in Nat : k = Len(file[q])
    BY <2>2
  <2>5. ASSUME NEW j \in 1 .. k
        PROVE  \/ file'[q][j] = Hole /\ \A v \in DOMAIN dump : ~Covers(v, q, j)'
               \/ \E v \in DOMAIN dump : Covers(v, q, j)' /\ file'[q][j] = <<v, dump'[v].stream[j]>>
    <3>1. j \in Nat
      OBVIOUS
    <3>2. QED
      BY <1>16, <2>2, <2>3, <2>4, <3>1 DEF FileRight
  <2>6. ASSUME NEW v \in DOMAIN dump, dump'[v].path = q, dump'[v].cut < dump'[v].offset
        PROVE  dump'[v].offset <= Len(file'[q])
    <3>1. v # i
      BY <1>11, <2>1, <2>6
    <3>2. QED
      BY <1>10, <2>2, <2>6, <3>1 DEF FileRight
  <2>7. k > 0 => \E v \in DOMAIN dump : Covers(v, q, k)'
    BY <2>2, <2>3, <2>4 DEF FileRight
  <2>8. Len(file'[q]) = k
    BY <2>2, <2>4
  <2>9. FileRight(q)'
    BY <1>10, <2>5, <2>6, <2>7, <2>8 DEF FileRight, Covers
  <2>10. QED
    BY <1>16, <2>1, <2>9
<1>18. FileRight(p)'
  <2>1. FileRight(p)
    BY <1>2 DEF AllRight
  <2>2. /\ \A j \in 1 .. l :
             \/ old[j] = Hole /\ \A w \in DOMAIN dump : ~Covers(w, p, j)
             \/ \E w \in DOMAIN dump : Covers(w, p, j) /\ old[j] = <<w, dump[w].stream[j]>>
        /\ \A w \in DOMAIN dump : dump[w].path = p /\ dump[w].cut < dump[w].offset => dump[w].offset <= l
        /\ l > 0 => \E w \in DOMAIN dump : Covers(w, p, l)
    BY <1>4, <1>6, <2>1 DEF FileRight
  <2>3. ASSUME NEW w \in DOMAIN dump, NEW j \in Nat, j > l PROVE ~Covers(w, p, j)
    <3>1. SUFFICES ASSUME Covers(w, p, j) PROVE FALSE
      OBVIOUS
    <3>2. PICK a \in Nat, z \in Nat : a = dump[w].cut /\ z = dump[w].offset
      BY DEF AllRight, DumpType, FileOfDump
    <3>3. dump[w].path = p /\ a < j /\ j <= z
      BY <3>1, <3>2 DEF Covers
    <3>4. a < z
      BY <3>3
    <3>5. z <= l
      BY <2>2, <3>2, <3>3, <3>4
    <3>6. QED
      BY <2>3, <3>3, <3>5
  <2>4. ASSUME NEW j \in 1 .. top
        PROVE  \/ f[j] = Hole /\ \A w \in DOMAIN dump : ~Covers(w, p, j)'
               \/ \E w \in DOMAIN dump : Covers(w, p, j)' /\ f[j] = <<w, dump'[w].stream[j]>>
    <3>1. j \in Nat /\ j \in 1 .. Len(f)
      BY <1>6
    <3>2. CASE j > o /\ j <= o + n
      <4>1. f[j] = <<i, s[j]>> /\ Covers(i, p, j)'
        BY <1>5, <1>15, <3>1, <3>2
      <4>2. QED
        BY <1>11, <4>1
    <3>3. CASE ~(j > o /\ j <= o + n)
      <4>1. \A w \in DOMAIN dump : Covers(w, p, j)' <=> Covers(w, p, j)
        BY <1>14, <3>1, <3>3
      <4>2. CASE j <= l
        <5>1. f[j] = old[j] /\ j \in 1 .. l
          BY <1>5, <1>6, <3>1, <3>3, <4>2
        <5>2. QED
          BY <1>16, <2>2, <4>1, <5>1
      <4>3. CASE j > l
        <5>1. f[j] = Hole
          BY <1>5, <1>6, <3>1, <3>3, <4>3
        <5>2. QED
          BY <2>3, <3>1, <4>1, <4>3, <5>1
      <4>4. QED
        BY <3>1, <4>2, <4>3
    <3>4. QED
      BY <3>2, <3>3
  <2>5. ASSUME NEW w \in DOMAIN dump, dump'[w].path = p, dump'[w].cut < dump'[w].offset
        PROVE  dump'[w].offset <= top
    <3>1. CASE w = i
      BY <1>5, <1>6, <1>7, <1>11, <3>1
    <3>2. CASE w # i
      <4>1. PICK z \in Nat : z = dump[w].offset /\ z = dump'[w].offset
        BY <1>10, <3>2 DEF AllRight, DumpType, FileOfDump
      <4>2. z <= l
        BY <1>10, <2>2, <2>5, <3>2, <4>1
      <4>3. l <= top
        BY <1>5, <1>6
      <4>4. QED
        BY <4>1, <4>2, <4>3
    <3>3. QED
      BY <3>1, <3>2
  <2>6. top > 0 => \E w \in DOMAIN dump : Covers(w, p, top)'
    <3>1. SUFFICES ASSUME top > 0 PROVE \E w \in DOMAIN dump : Covers(w, p, top)'
      OBVIOUS
    <3>2. CASE top = o + n
      <4>1. Covers(i, p, top)'
        BY <1>7, <1>15, <3>2
      <4>2. QED
        BY <4>1
    <3>3. CASE top = l /\ top # o + n
      <4>1. ~(top > o /\ top <= o + n)
        BY <1>5, <1>6, <1>7, <3>3
      <4>2. PICK w \in DOMAIN dump : Covers(w, p, top)
        BY <2>2, <3>1, <3>3
      <4>3. QED
        BY <1>14, <4>1, <4>2
    <3>4. QED
      BY <1>5, <1>6, <3>2, <3>3
  <2>7. QED
    BY <1>6, <1>9, <1>10, <2>4, <2>5, <2>6 DEF FileRight, Covers
<1>19. ASSUME NEW w \in DOMAIN dump PROVE FileRight(dump[w].path)'
  <2>1. CASE dump[w].path = p
    <3>1. dump'[w].path = p
      BY <1>16, <2>1
    <3>2. QED
      BY <1>18, <3>1
  <2>2. QED
    BY <1>17, <2>1
<1>20. UNCHANGED <<live, passVars>>
  BY DEF Flush
<1>21. QED
  BY <1>10, <1>12, <1>13, <1>19, <1>20 DEF AllRight

\* The new chain's FILEs are at the start of files that are still empty.
LEMMA GoLiveRight ==
  ASSUME PassInv, AllRight, GoLive,
         \A i \in 1 .. pass : target[i].kind \in Dumps => file[target[i].path] = <<>>
  PROVE  AllRight' /\ DOMAIN dump' \subseteq DOMAIN live' /\ \A i \in DOMAIN dump' : Buffered(i)' = 0
<1>1. /\ Loaded /\ live' = target /\ UNCHANGED file
      /\ dump' = [i \in {k \in DOMAIN target : target[k].kind \in Dumps} |->
                    [path |-> target[i].path, stream |-> <<>>, offset |-> 0,
                     written |-> 0, cut |-> 0, short |-> FALSE]]
  BY Zenon DEF GoLive
<1>2. DOMAIN target = 1 .. Len(target) /\ Len(target) \in Nat /\ pass = Len(target)
  <2>1. DOMAIN target = 1 .. Len(target)
    BY DEF PassInv, Holding, PassType, Nodes
  <2>2. Len(target) \in Nat /\ pass \in 0 .. Len(target) /\ ~(pass < Len(target))
    BY <1>1, Zenon DEF Loaded, Unfinished, PassInv, Holding, PassType, Nodes
  <2>3. pass = Len(target)
    BY <2>2
  <2>4. QED
    BY <2>1, <2>2, <2>3
<1>3. DOMAIN dump' = {k \in 1 .. Len(target) : target[k].kind \in Dumps}
  BY <1>1, <1>2
<1>4. ASSUME NEW i \in DOMAIN dump'
      PROVE  /\ i \in 1 .. Len(target) /\ target[i].path \in Path /\ file'[target[i].path] = <<>>
             /\ dump'[i] = [path |-> target[i].path, stream |-> <<>>, offset |-> 0,
                            written |-> 0, cut |-> 0, short |-> FALSE]
  <2>1. i \in 1 .. Len(target) /\ target[i].kind \in Dumps
    BY <1>3
  <2>2. target[i].path \in Path
    BY <2>1 DEF PassInv, Holding, PassType, Nodes
  <2>3. QED
    BY <1>1, <1>2, <2>1, <2>2
<1>5. ASSUME NEW i \in DOMAIN dump'
      PROVE  /\ dump'[i] \in FileOfDump /\ dump'[i].path = target[i].path /\ dump'[i].stream = <<>>
             /\ dump'[i].offset = 0 /\ dump'[i].cut = 0 /\ dump'[i].written = 0
             /\ Len(dump'[i].stream) = 0
  <2>1. PICK p, e, d :
          /\ p \in Path /\ p = target[i].path /\ e = <<>> /\ d = dump'[i]
          /\ d = [path |-> p, stream |-> e, offset |-> 0, written |-> 0, cut |-> 0, short |-> FALSE]
    BY <1>4
  <2>2. e \in Seq(Nat) /\ Len(e) = 0
    BY <2>1, EmptySeq
  <2>3. d \in FileOfDump /\ d.path = p /\ d.stream = e /\ d.offset = 0 /\ d.cut = 0 /\ d.written = 0
    BY <2>1, <2>2 DEF FileOfDump
  <2>4. QED
    BY <2>1, <2>2, <2>3
<1>6. dump' = [i \in DOMAIN dump' |-> dump'[i]] /\ DOMAIN dump' \subseteq Nat
  BY <1>1, <1>3
<1>7. DumpType'
  BY <1>1, <1>5, <1>6 DEF AllRight, DumpType
<1>8. ASSUME NEW i \in DOMAIN dump' PROVE NodeRight(i)'
  BY <1>5 DEF NodeRight
<1>9. ASSUME NEW i \in DOMAIN dump' PROVE FileRight(dump[i].path)'
  <2>1. PICK p : p = dump'[i].path /\ p = target[i].path
    BY <1>5
  <2>2. Len(file'[p]) = 0
    BY <1>4, <2>1, EmptySeq
  <2>3. \A w \in DOMAIN dump' : ~(dump'[w].cut < dump'[w].offset)
    BY <1>5
  <2>4. FileRight(p)'
    BY <2>2, <2>3 DEF FileRight
  <2>5. QED
    BY <2>1, <2>4
<1>10. \A i \in DOMAIN dump' : Buffered(i)' = 0
  BY <1>5 DEF Buffered
<1>11. QED
  BY <1>1, <1>2, <1>3, <1>7, <1>8, <1>9, <1>10 DEF AllRight

LEMMA StillRight == AllRight /\ UNCHANGED <<file, dump>> => AllRight'
<1> SUFFICES ASSUME AllRight, file' = file, dump' = dump PROVE AllRight'
  OBVIOUS
<1>1. DumpType'
  BY DEF AllRight, DumpType
<1>2. \A i : NodeRight(i) <=> NodeRight(i)'
  BY DEF NodeRight
<1>3. \A p : FileRight(p) <=> FileRight(p)'
  BY DEF FileRight, Covers
<1>4. QED
  BY <1>1, <1>2, <1>3 DEF AllRight

LEMMA InitNodeRight ==
  ASSUME PassInv, DumpInv, InitNode, UNCHANGED main
  PROVE  DumpInv'
<1>1. /\ UNCHANGED <<target, live>> /\ pass \in Nat /\ pass + 1 \in 1 .. Len(target)
      /\ Len(target) \in Nat /\ Nodes(target)
  BY DEF InitNode, Unfinished, PassInv, Holding, PassType, Nodes
<1>2. CASE OpenBinary \/ OpenText
  <2>1. Node.kind \in Dumps /\ Fopen(Node.path) /\ pass' = pass + 1
    BY <1>2 DEF OpenBinary, OpenText, Fopen, InitDone, Dumps
  <2>2. PICK p \in Path : p = target[pass + 1].path /\ p = Node.path
    BY <1>1, <2>1 DEF Nodes, Node
  <2>3. /\ AllRight' /\ DOMAIN dump' = DOMAIN dump /\ file'[p] = <<>>
        /\ \A q \in Path : q # p => file'[q] = file[q]
        /\ \A i \in DOMAIN dump : Buffered(i)' = Buffered(i)
    BY <2>1, <2>2, FopenRight DEF DumpInv
  <2>4. Drained'
    BY <1>1, <2>3 DEF DumpInv, Drained
  <2>5. OpenedEmpty'
    <3>1. ASSUME main = "graph", NEW i \in 1 .. pass + 1, target[i].kind \in Dumps
          PROVE  file'[target[i].path] = <<>>
      <4>1. target[i].path \in Path /\ (i = pass + 1 \/ i \in 1 .. pass)
        BY <1>1, <3>1 DEF Nodes
      <4>2. CASE i = pass + 1
        BY <2>2, <2>3, <4>2
      <4>3. CASE i \in 1 .. pass
        BY <2>3, <3>1, <4>1, <4>3 DEF DumpInv, OpenedEmpty
      <4>4. QED
        BY <4>1, <4>2, <4>3
    <3>2. QED
      BY <1>1, <2>1, <3>1 DEF OpenedEmpty
  <2>6. QED
    BY <2>3, <2>4, <2>5 DEF DumpInv
<1>3. CASE OpenSocket \/ HoldNothing \/ BindSocket \/ BindFails
  <2>1. UNCHANGED dumpVars /\ (pass' = pass \/ (pass' = pass + 1 /\ Node.kind \notin Dumps))
    <3>1. CASE OpenSocket \/ BindFails
      BY <3>1 DEF OpenSocket, BindFails
    <3>2. CASE HoldNothing
      BY <3>2 DEF HoldNothing, InitDone, Holders
    <3>3. CASE BindSocket
      <4>1. Node.kind = "forward_udp"
        BY <3>3 DEF BindSocket, PassInv, Holding, PassType
      <4>2. QED
        BY <3>3, <4>1 DEF BindSocket, InitDone, Dumps
    <3>4. QED
      BY <1>3, <3>1, <3>2, <3>3
  <2>2. UNCHANGED <<file, dump>>
    BY <2>1 DEF dumpVars
  <2>3. AllRight'
    BY <2>2, StillRight DEF DumpInv
  <2>4. Drained'
    BY <1>1, <2>2 DEF DumpInv, Drained, Buffered
  <2>5. OpenedEmpty'
    <3>1. ASSUME NEW i \in 1 .. pass', target[i].kind \in Dumps PROVE i \in 1 .. pass
      BY <1>1, <2>1, <3>1 DEF Node
    <3>2. QED
      BY <1>1, <2>2, <3>1 DEF DumpInv, OpenedEmpty
  <2>6. QED
    BY <2>3, <2>4, <2>5 DEF DumpInv
<1>4. QED
  BY <1>2, <1>3 DEF InitNode

LEMMA DumpSteps == PassInv /\ DumpInv /\ [WebNext]_vars => DumpInv'
<1> SUFFICES ASSUME PassInv, DumpInv, [WebNext]_vars PROVE DumpInv'
  OBVIOUS
<1> USE DEF DumpInv
<1>1. target = <<>> => pass = 0
  BY DEF PassInv, Holding, PassType
<1>2. pass' = 0 => OpenedEmpty'
  BY DEF OpenedEmpty
  \* Steps that neither write nor start or stop the chain.
<1>3. ASSUME UNCHANGED <<file, dump, live>>, OpenedEmpty',
             main' \in {"ring", "serving", "stopping"} => main \in {"ring", "serving", "stopping"},
             main' \notin {"serving", "stopping"} => main \notin {"serving", "stopping"}
      PROVE  DumpInv'
  <2>1. Drained'
    BY <1>3 DEF Drained, Buffered
  <2>2. QED
    BY <1>3, <2>1, StillRight
<1>4. ASSUME UNCHANGED <<stageVars, main>> PROVE DumpInv'
  <2>1. OpenedEmpty'
    BY <1>4 DEF OpenedEmpty, stageVars, passVars, dumpVars
  <2>2. QED
    BY <1>3, <1>4, <2>1 DEF stageVars, dumpVars
<1>5. CASE LoadPlugins
  <2>1. pass' = 0 /\ UNCHANGED <<file, dump, live>> /\ main = "plugins" /\ main' \in {"plugins", "graph", "failed"}
    BY <1>1, <1>5, Zenon DEF LoadPlugins, PassInv, Phases, stageVars, passVars, dumpVars
  <2>2. QED
    BY <1>2, <1>3, <2>1
<1>6. CASE StartLoad \/ StartFails
  <2>1. pass' = 0 /\ UNCHANGED <<file, dump, live>> /\ main = "graph" /\ main' \in {"graph", "failed"}
    BY <1>6 DEF StartLoad, StartFails, BeginPass, TeardownPass, EndPass, webVars, dumpVars
  <2>2. QED
    BY <1>2, <1>3, <2>1
<1>7. CASE StartInit
  BY <1>7, InitNodeRight DEF StartInit, webVars
<1>8. CASE StartLoaded
  <2>1. main = "graph" /\ GoLive /\ main' = "ring"
    BY <1>8 DEF StartLoaded
  <2>2. AllRight' /\ DOMAIN dump' \subseteq DOMAIN live' /\ \A i \in DOMAIN dump' : Buffered(i)' = 0
    BY <2>1, GoLiveRight DEF OpenedEmpty
  <2>3. QED
    BY <2>1, <2>2 DEF OpenedEmpty, Drained
<1>9. CASE StartDone \/ Quit
  <2>1. /\ UNCHANGED <<file, dump, live>> /\ main \in {"ring", "serving"}
        /\ main' \in {"serving", "stopping"}
    BY <1>9 DEF StartDone, Quit, Serving, stageVars, dumpVars
  <2>2. QED
    BY <1>3, <2>1 DEF OpenedEmpty
<1>10. CASE RingFails \/ Killed
  <2>1. /\ UNCHANGED file /\ main' = "failed" /\ live' = <<>>
        /\ dump' = [i \in DOMAIN dump |-> Emptied(dump[i])]
    BY <1>10 DEF RingFails, Killed, Ends, ReleaseStages
  <2>2. AllRight' /\ DOMAIN dump' = DOMAIN dump
    BY <2>1, ReleaseRight
  <2>3. ASSUME NEW i \in DOMAIN dump PROVE Buffered(i)' = 0
    <3>1. PICK d : d = dump'[i] /\ d = Emptied(dump[i])
      BY <2>1
    <3>2. Len(d.stream) = d.offset
      BY <3>1, EmptiedRight
    <3>3. d.offset \in Nat
      BY <2>2, <3>1 DEF AllRight, DumpType, FileOfDump
    <3>4. QED
      BY <3>1, <3>2, <3>3 DEF Buffered
  <2>4. QED
    BY <2>1, <2>2, <2>3 DEF OpenedEmpty, Drained
<1>11. CASE Work
  <2>1. main \in {"serving", "stopping"} /\ UNCHANGED main
    BY <1>11 DEF Work, Serving, webVars
  <2>2. PICK i \in DOMAIN dump : WriteBinary(i) \/ WriteText(i) \/ Flush(i) \/ FlushFails(i)
    BY <1>11 DEF Work
  <2>3. CASE WriteBinary(i) \/ WriteText(i)
    <3>1. PICK n \in 1 .. MaxBytes : Write(i, n)
      BY <2>3 DEF WriteBinary, WriteText
    <3>2. n \in Nat
      BY ResourceAssumption
    <3>3. AllRight' /\ DOMAIN dump' = DOMAIN dump /\ UNCHANGED live
      BY <3>1, <3>2, WriteRight
    <3>4. QED
      BY <2>1, <3>3 DEF OpenedEmpty, Drained
  <2>4. CASE Flush(i)
    <3>1. AllRight' /\ DOMAIN dump' = DOMAIN dump /\ UNCHANGED live
      BY <2>4, FlushRight
    <3>2. QED
      BY <2>1, <3>1 DEF OpenedEmpty, Drained
  <2>5. CASE FlushFails(i)
    <3>1. UNCHANGED <<live, file>> /\ dump' = [dump EXCEPT ![i] = Emptied(dump[i])]
      BY <2>5 DEF FlushFails
    <3>2. AllRight' /\ DOMAIN dump' = DOMAIN dump
      BY <3>1, ReleaseRight
    <3>3. QED
      BY <2>1, <3>1, <3>2 DEF OpenedEmpty, Drained
  <2>6. QED
    BY <2>2, <2>3, <2>4, <2>5
<1>12. CASE StopChain
  <2>1. /\ UNCHANGED <<file, dump>> /\ main' = "unloading"
        /\ \A i \in DOMAIN dump : Buffered(i) = 0
    BY <1>12 DEF StopChain, TeardownLive, dumpVars
  <2>2. Drained' /\ OpenedEmpty'
    BY <2>1 DEF Drained, OpenedEmpty, Buffered
  <2>3. QED
    BY <2>1, <2>2, StillRight
<1>13. CASE UnloadPlugins
  <2>1. UNCHANGED <<file, dump, live>> /\ main = "unloading" /\ main' \in {"unloading", "exited"}
    BY <1>13, Zenon DEF UnloadPlugins, stageVars, dumpVars
  <2>2. QED
    BY <1>3, <2>1 DEF OpenedEmpty
<1>14. CASE Restart
  <2>1. dump' = <<>> /\ DOMAIN dump' = {} /\ UNCHANGED file /\ main' = "plugins"
    BY <1>14 DEF Restart
  <2>2. AllRight'
    BY <2>1 DEF AllRight, DumpType
  <2>3. QED
    BY <2>1, <2>2 DEF OpenedEmpty, Drained
<1>15. CASE WebThread
  <2>1. ASSUME NEW o, NEW n, NEW g, Check(o, n, g) PROVE DumpInv'
    <3>1. pass' = 0 /\ UNCHANGED <<file, dump, live, main>>
      BY <2>1 DEF Check, BeginPass, dumpVars
    <3>2. QED
      BY <1>2, <1>3, <3>1
  <2>2. CASE ValidateInit
    BY <2>2, InitNodeRight DEF ValidateInit, webVars
  <2>3. CASE ValidateFails \/ Validated
    <3>1. pass' = 0 /\ UNCHANGED <<file, dump, live, main>>
      BY <2>3 DEF ValidateFails, Validated, TeardownPass, EndPass, dumpVars
    <3>2. QED
      BY <1>2, <1>3, <3>1
  <2>4. CASE Reread \/ OpenFails \/ OpenGraphFile \/ OpenLibraryFile \/ WriteLibrary \/ Activate
    BY <1>4, <2>4 DEF Reread, OpenFails, OpenGraphFile, OpenLibraryFile, OpenFile, WriteLibrary,
                      Activate
  <2>5. ASSUME NEW n \in Name, PostLoad(n) \/ Delete(n) PROVE DumpInv'
    BY <1>4, <2>1, <2>5 DEF PostLoad, Delete
  <2>6. QED
    BY <1>15, <2>1, <2>2, <2>3, <2>4, <2>5 DEF WebThread, PostGraph, UploadGraph, Probe
<1>16. CASE (\E n \in Name : HandEdit(n)) \/ Over \/ UNCHANGED vars
  BY <1>4, <1>16 DEF HandEdit, Over, vars, webVars
<1>17. QED
  BY <1>5, <1>6, <1>7, <1>8, <1>9, <1>10, <1>11, <1>12, <1>13, <1>14, <1>15, <1>16 DEF WebNext

\* Each byte of a dump file is one that a node was given and has put at that place
\* since the file was last emptied, or a hole; of each node they are in order, and
\* none is missing without a failed write or a kill; a teardown leaves nothing
\* buffered.  Any number of nodes may write to one file.
THEOREM DumpsKeepTheirRecords == WebSpec => []DumpKeepsRecords
<1>1. WebInit => DumpInv
  <2> SUFFICES ASSUME WebInit PROVE DumpInv
    OBVIOUS
  <2>1. main = "plugins" /\ file = [p \in Path |-> <<>>] /\ dump = <<>> /\ DOMAIN dump = {}
    BY DEF WebInit, StagesInit
  <2>2. AllRight
    BY <2>1, EmptySeq DEF AllRight, DumpType
  <2>3. QED
    BY <2>1, <2>2 DEF DumpInv, OpenedEmpty, Drained
<1>2. PassInv /\ DumpInv => DumpKeepsRecords
  <2> SUFFICES ASSUME PassInv, DumpInv PROVE DumpKeepsRecords
    OBVIOUS
  <2>1. ASSUME NEW i \in DOMAIN dump, NEW d, d = dump[i], NEW f, f = file[d.path]
        PROVE  /\ \A j \in DOMAIN f :
                    \/ WrittenBy(d.path, j) = {} /\ f[j] = Hole
                    \/ \E w \in WrittenBy(d.path, j) : f[j] = <<w, dump[w].stream[j]>>
               /\ d.cut < d.offset => d.offset <= Len(f)
               /\ f = <<>> \/ WrittenBy(d.path, Len(f)) # {}
               /\ \A j, k \in DOMAIN d.stream : j < k => d.stream[j] < d.stream[k]
               /\ \A j \in DOMAIN d.stream : d.stream[j] <= d.written
               /\ ~d.short => Len(d.stream) = d.written
    <3>1. d \in FileOfDump /\ NodeRight(i) /\ FileRight(d.path) /\ file \in [Path -> Seq(Nat \X Nat)]
      BY <2>1 DEF DumpInv, AllRight, DumpType
    <3>2. PICK p \in Path : p = d.path /\ f = file[p]
      <4>1. d.path \in Path
        BY <3>1 DEF FileOfDump
      <4>2. QED
        BY <2>1, <4>1
    <3>3. FileRight(p) /\ NodeRight(i) /\ f \in Seq(Nat \X Nat) /\ d.stream \in Seq(Nat)
      BY <3>1, <3>2 DEF FileOfDump
    <3>4. \A j, w : w \in WrittenBy(p, j) <=> w \in DOMAIN dump /\ Covers(w, p, j)
      BY DEF WrittenBy, Covers
    <3>5. DOMAIN f = 1 .. Len(f) /\ Len(f) \in Nat /\ DOMAIN d.stream = 1 .. Len(d.stream)
          /\ (f = <<>> \/ Len(f) > 0)
      BY <3>3
    <3>6. ASSUME NEW j \in DOMAIN f
          PROVE  \/ WrittenBy(p, j) = {} /\ f[j] = Hole
                 \/ \E w \in WrittenBy(p, j) : f[j] = <<w, dump[w].stream[j]>>
      <4>1. \/ f[j] = Hole /\ \A w \in DOMAIN dump : ~Covers(w, p, j)
            \/ \E w \in DOMAIN dump : Covers(w, p, j) /\ f[j] = <<w, dump[w].stream[j]>>
        BY <3>2, <3>3, <3>5 DEF FileRight
      <4>2. QED
        BY <3>4, <4>1
    <3>7. d.cut < d.offset => d.offset <= Len(f)
      BY <2>1, <3>2, <3>3 DEF FileRight
    <3>8. f = <<>> \/ WrittenBy(p, Len(f)) # {}
      BY <3>2, <3>3, <3>4, <3>5 DEF FileRight
    <3>9. /\ \A j, k \in DOMAIN d.stream : j < k => d.stream[j] < d.stream[k]
          /\ \A j \in DOMAIN d.stream : d.stream[j] <= d.written
          /\ ~d.short => Len(d.stream) = d.written
      BY <2>1, <3>3, <3>5 DEF NodeRight
    <3>10. QED
      BY <3>2, <3>6, <3>7, <3>8, <3>9
  <2>2. live = <<>> => \A i \in DOMAIN dump : Buffered(i) = 0
    <3>1. CASE live = <<>> /\ main \in {"serving", "stopping"}
      <4>1. DOMAIN dump \subseteq DOMAIN live
        BY <3>1 DEF DumpInv, Drained
      <4>2. DOMAIN live = {}
        BY <3>1
      <4>3. QED
        BY <4>1, <4>2
    <3>2. CASE main \notin {"serving", "stopping"}
      BY <3>2, Zenon DEF DumpInv, Drained
    <3>3. QED
      BY <3>1, <3>2
  <2>3. QED
    BY <2>1, <2>2 DEF DumpKeepsRecords
<1>3. QED
  BY <1>1, <1>2, DumpSteps, PassInvariant, PTL DEF WebSpec
===============================================================================
