----------------------------- MODULE StageResources -----------------------------
(*****************************************************************************)
(* What the stages of src/src/stages/ hold outside the process, and how      *)
(* graph_config_load() acquires it: the output files of the dump stages, the *)
(* sockets of forward_udp and the ports they are bound to.  A graph is       *)
(* loaded to be run, or only to be checked ("throwaway":                     *)
(* validate_graph_file() and the port probe), with the live chain still at   *)
(* work; both run the same init() of the same stages.                        *)
(*                                                                           *)
(* The ring of ring_output is DaisyChain.tla's, the order and wiring of the  *)
(* nodes GraphConfig.tla's: here a graph is its nodes in init() order.  What *)
(* a dump stage writes is a stream of numbered bytes.                        *)
(*****************************************************************************)
EXTENDS PluginLoader

CONSTANTS
  Graph,       \* graphs: sequences of [kind, path] and [kind, port] nodes
  SoundGraph,  \* those whose wiring holds once all their nodes are there
  Path,        \* the files that dump stages are configured with
  Port,        \* the source ports that forward_udp stages are configured with
  AnyPort,     \* none of them: the kernel picks one
  MaxBytes     \* bound: how many bytes two dump stages of a live chain are given

Dumps   == {"dump_binary", "dump_text"}
Holders == Dumps \cup {"forward_udp"}

ASSUME ResourceAssumption ==
  /\ SoundGraph \subseteq Graph /\ AnyPort \notin Port /\ MaxBytes \in Nat
  /\ \A g \in Graph : g \in Seq({g[i] : i \in DOMAIN g})
  /\ \A g \in Graph : \A i \in DOMAIN g :
       /\ g[i].kind \in Dumps => g[i].path \in Path
       /\ g[i].kind = "forward_udp" => g[i].port \in Port \cup {AnyPort}

VARIABLES
  live,     \* the nodes of the live chain
  target,   \* the graph that graph_config_load() is at
  pass,     \* how many of its nodes have been init()ed
  binding,  \* the next node has a socket and is about to bind() it "yes", has
            \* failed to "failed", or has none "no"
  held,     \* who has a FILE or a socket open: <<"live", i>>, <<"pass", i>>
  bound,    \* who has bound each port: "nobody", "live" or "pass"
  file,     \* what is in each file: bytes <<i, k>> of node i, and holes
  dump      \* the dump nodes of the process's live chain, also once it is gone: what each
            \* FILE has taken and not lost ("stream"), how much of it is in the file
            \* ("offset"; the rest is buffered); history: what process() was given
            \* ("written"), where the FILE stood when the file was last emptied
            \* ("cut"), and whether some of it was lost ("short")

passVars  == <<target, pass, binding, held, bound>>
dumpVars  == <<file, dump>>
stageVars == <<live, passVars, dumpVars>>

Hole == <<0, 0>>

LivePort(q) == \E i \in DOMAIN live : live[i].kind = "forward_udp" /\ live[i].port = q

-------------------------------------------------------------------------------

StagesInit ==
  /\ live = <<>> /\ target = <<>> /\ pass = 0 /\ binding = "no"
  /\ held = {} /\ bound = [q \in Port |-> "nobody"]
  /\ file = [p \in Path |-> <<>>] /\ dump = <<>>

BeginPass(g) == target' = g /\ pass' = 0 /\ binding' = "no" /\ UNCHANGED <<held, bound>>

Node == target[pass + 1]
Unfinished == pass < Len(target)

InitDone == pass' = pass + 1 /\ binding' = "no"
Hold == held' = held \cup {<<"pass", pass + 1>>}

\* fopen() for writing: the file is emptied, whoever else writes it.
Fopen(p) ==
  /\ Hold /\ InitDone
  /\ file' = [file EXCEPT ![p] = <<>>]
  /\ dump' = [i \in DOMAIN dump |->
                IF dump[i].path = p THEN [dump[i] EXCEPT !.cut = dump[i].offset] ELSE dump[i]]
  /\ UNCHANGED bound

OpenBinary == Node.kind = "dump_binary" /\ Fopen(Node.path)
OpenText   == Node.kind = "dump_text" /\ Fopen(Node.path)

\* socket()...
OpenSocket ==
  /\ Node.kind = "forward_udp" /\ Hold
  /\ binding' = "yes"
  /\ UNCHANGED <<pass, bound, dumpVars>>

\* ...and bind(), if a source port or address is asked for.
BindSocket ==
  /\ binding = "yes" /\ InitDone
  /\ Node.port # AnyPort => bound[Node.port] = "nobody"
  /\ bound' = [q \in Port |-> IF q = Node.port THEN "pass" ELSE bound[q]]
  /\ UNCHANGED <<held, dumpVars>>

\* The port is taken, or the address is not one of this host's.
BindFails ==
  /\ binding = "yes" /\ binding' = "failed"
  /\ held' = held \ {<<"pass", pass + 1>>}
  /\ UNCHANGED <<pass, bound, dumpVars>>

HoldNothing ==
  /\ Node.kind \notin Holders /\ InitDone
  /\ UNCHANGED <<held, bound, dumpVars>>

InitNode ==
  /\ Unfinished /\ Registered(Node.kind)
  /\ \/ binding = "no" /\ (OpenBinary \/ OpenText \/ OpenSocket \/ HoldNothing)
     \/ BindSocket \/ BindFails
  /\ UNCHANGED <<target, live>>

\* Why init() may not give an instance: no such stage, no memory, no file, no
\* socket, a failed bind().  Once all nodes are there, their wiring may be refused.
Refused == Unfinished \/ target \notin SoundGraph
Loaded  == ~Unfinished /\ target \in SoundGraph

\* fclose() and close() of what an owner's instances hold.
Closing(owner) ==
  /\ held' = {h \in held : h[1] # owner}
  /\ bound' = [q \in Port |-> IF bound[q] = owner THEN "nobody" ELSE bound[q]]

EndPass == binding # "yes" /\ target' = <<>> /\ pass' = 0 /\ binding' = "no"

\* Mutant: the sweep stops before the last instance.
TeardownPassShort ==
  /\ EndPass
  /\ held' = {h \in held : h[1] # "pass" \/ h[2] = pass}
  /\ bound' = [q \in Port |-> IF bound[q] = "pass" THEN "nobody" ELSE bound[q]]

\* teardown() of every instance of the pass, none of which has written anything.
TeardownPass == EndPass /\ Closing("pass")

\* The pass of the startup becomes the live chain: its FILEs are at their start.
GoLive ==
  /\ Loaded /\ live' = target
  /\ target' = <<>> /\ pass' = 0 /\ binding' = "no"
  /\ held' = {<<"live", h[2]>> : h \in held}
  /\ bound' = [q \in Port |-> IF bound[q] = "pass" THEN "live" ELSE bound[q]]
  /\ dump' = [i \in {k \in DOMAIN target : target[k].kind \in Dumps} |->
                [path |-> target[i].path, stream |-> <<>>, offset |-> 0,
                 written |-> 0, cut |-> 0, short |-> FALSE]]
  /\ UNCHANGED file

-------------------------------------------------------------------------------
\* The dump stages of the live chain, called by its workers.

\* fwrite() or fprintf() of n bytes into the buffer of the FILE, at once, as a FILE
\* has a lock of its own.  It may fail with only the first `taken' of them in it:
\* process() then says so, and the record is dropped.
Write(i, n) ==
  /\ \A k \in DOMAIN dump \ {i} : dump[k].written + dump[i].written + n <= MaxBytes
  /\ dump[i].written + n <= MaxBytes
  /\ \E taken \in 0 .. n :
       dump' = [dump EXCEPT ![i].written = @ + n,
                            ![i].stream = @ \o [k \in 1 .. taken |-> dump[i].written + k],
                            ![i].short = @ \/ taken < n]
  /\ UNCHANGED <<live, passVars, file>>

\* Nothing is written of an empty record.
WriteBinary(i) == live[i].kind = "dump_binary" /\ \E n \in 1 .. MaxBytes : Write(i, n)
WriteText(i)   == live[i].kind = "dump_text" /\ \E n \in 1 .. MaxBytes : Write(i, n)

Buffered(i) == Len(dump[i].stream) - dump[i].offset

\* write() of the next n bytes at the FILE's own offset: what is missing before them
\* becomes a hole, and what another FILE has put there is overwritten.
Flushed(i, n) ==
  LET old == file[dump[i].path]
      end == dump[i].offset + n
  IN  [j \in 1 .. (IF end > Len(old) THEN end ELSE Len(old)) |->
        IF j > dump[i].offset /\ j <= end THEN <<i, dump[i].stream[j]>>
        ELSE IF j <= Len(old) THEN old[j] ELSE Hole]

\* The C library empties the buffer when it likes, and fclose() empties it.
Flush(i) ==
  /\ \E n \in 1 .. Buffered(i) :
       /\ file' = [file EXCEPT ![dump[i].path] = Flushed(i, n)]
       /\ dump' = [dump EXCEPT ![i].offset = @ + n]
  /\ UNCHANGED <<live, passVars>>

\* Without what is not in the file.
Emptied(d) == [d EXCEPT !.stream = SubSeq(d.stream, 1, d.offset), !.short = @ \/ Len(d.stream) > d.offset]

\* write() fails, as on a full disk, and the buffer is given up: behind a later
\* fwrite(), which fails for it, or behind fclose(), which nobody asks.
FlushFails(i) ==
  /\ Buffered(i) > 0
  /\ dump' = [dump EXCEPT ![i] = Emptied(@)]
  /\ UNCHANGED <<live, passVars, file>>

\* Mutant: the instances are freed, their FILEs not closed.
TeardownLiveUnflushed ==
  /\ live' = <<>>
  /\ Closing("live")
  /\ UNCHANGED <<target, pass, binding, dumpVars>>

\* teardown() of the live chain, once each fclose() has written what was buffered, or
\* has failed to.
TeardownLive ==
  /\ \A i \in DOMAIN dump : Buffered(i) = 0
  /\ live' = <<>>
  /\ Closing("live")
  /\ UNCHANGED <<target, pass, binding, dumpVars>>

\* The end of the process without teardown(): the kernel closes what was open, and
\* what was still buffered is lost.
ReleaseStages ==
  /\ live' = <<>> /\ target' = <<>> /\ pass' = 0 /\ binding' = "no"
  /\ held' = {} /\ bound' = [q \in Port |-> "nobody"]
  /\ dump' = [i \in DOMAIN dump |-> Emptied(dump[i])]
  /\ UNCHANGED file

-------------------------------------------------------------------------------

Holds(owner, i) ==
  IF owner = "live" THEN i \in DOMAIN live /\ live[i].kind \in Holders
  ELSE (i \in 1 .. pass /\ target[i].kind \in Holders) \/ (i = pass + 1 /\ binding = "yes")

\* What is open is exactly what the live chain and the instances of the running
\* pass hold, and the socket that is about to be bound: a pass that fails half-way,
\* in init() or behind it, or is thrown away leaves no file, socket or port behind
\* (graph_config.c:385-390, forward_udp_stage.c:77-97, web_status.c:632-643).
NothingLeftOpen ==
  /\ held = {h \in {"live", "pass"} \X (DOMAIN live \cup 1 .. pass + 1) : Holds(h[1], h[2])}
  /\ \A q \in Port :
       bound[q] = IF LivePort(q) THEN "live"
                  ELSE IF \E i \in 1 .. pass : target[i].kind = "forward_udp" /\ target[i].port = q
                         THEN "pass" ELSE "nobody"

\* The nodes that have written byte j of their file since it was last emptied.
WrittenBy(p, j) ==
  {i \in DOMAIN dump : dump[i].path = p /\ dump[i].cut < j /\ j <= dump[i].offset}

\* Each byte of a dump file is one that a node of the chain was given and has put at
\* that place since a pass of some graph last emptied the file, or a hole where none
\* has; it ends with such a byte.  Of each node the file has bytes in the order in
\* which they were given and each once, and all that have been given are there or
\* buffered as long as no write has failed and no process was killed.  Teardown
\* leaves nothing in a buffer (dump_binary_stage.c, dump_text_stage.c).
DumpKeepsRecords ==
  /\ \A i \in DOMAIN dump :
       LET d == dump[i]
           f == file[d.path]
       IN  /\ \A j \in DOMAIN f :
                 \/ WrittenBy(d.path, j) = {} /\ f[j] = Hole
                 \/ \E w \in WrittenBy(d.path, j) : f[j] = <<w, dump[w].stream[j]>>
           /\ d.cut < d.offset => d.offset <= Len(f)
           /\ f = <<>> \/ WrittenBy(d.path, Len(f)) # {}
           /\ \A j, k \in DOMAIN d.stream : j < k => d.stream[j] < d.stream[k]
           /\ \A j \in DOMAIN d.stream : d.stream[j] <= d.written
           /\ ~d.short => Len(d.stream) = d.written
  /\ live = <<>> => \A i \in DOMAIN dump : Buffered(i) = 0

\* README.md:101-102: to save a graph "validates but does not affect the running
\* pipeline".
LiveDumpUntouched ==
  \A i \in DOMAIN live :
    /\ live[i].kind \in Dumps /\ ~dump[i].short
    /\ \A k \in DOMAIN dump \ {i} : dump[k].path # live[i].path
    => /\ Len(file[live[i].path]) = dump[i].offset
       /\ \A j \in 1 .. dump[i].offset : file[live[i].path][j] = <<i, j>>
===============================================================================
