# A TLA+ model of Loomtabulator

Loomtabulator reads records off a DPDK ring, sends each through a tree of plugin stages on a pool
of worker lcores, separates the stream into epochs by barrier records, and lets a web client save
another graph and reload the process. These modules model the parts of it where the order of things
decides: the barrier, the pool, the generator, the plugin and the graph loader, the walk of a
record and the stages it meets, what those stages hold outside the process, the web server's
requests, the life of the process, and a ring between two processes. Paths below are relative to the
repository; `src/` is its source directory.

## The system

| part | state | operations | works with |
|---|---|---|---|
| epoch barrier, `src/epoch_barrier.c` | three atomics: `current_epoch`, `in_flight`, `barrier_pending` | `wait_if_pending`, `enter`, `exit`, `drain` | called by every worker, shared by all |
| worker pool, `src/pipeline_worker.c` | the item in each worker's hand | dequeue, run or drain, free | ring, barrier, chain, counters, stop flag |
| input ring, `src/ring_input.c` | DPDK ring, who owns it | create or attach | generator, other processes, pool, `main()` |
| generator, `src/testgen.c` | counts sent and since the last barrier, epoch id, stop flag | build and enqueue records and barriers | ring; started and joined by `main()` |
| graph loader, `src/graph_config.c` | nodes, queue, chain | parse, check, breadth-first init, tear down on failure | plugins; called by `main()` and by the web thread |
| pipeline walk, `src/pipeline.c` | the record at hand, its buffer, three shared counters | one stage after another to a leaf or a drop | chain, plugins |
| process, `src/main.c` | two flags shared with the signal handler and the web thread | start, status loop, ordered teardown, re-exec | everything |
| web server, `src/web_status.c` | a thread, the `--graph` file, the graph library, status snapshots | save, upload, load, delete, probe, reload, show | loader, plugins, `main()`'s flags |
| plugins, `src/plugin_loader.c` | the registry and the `dlopen()` handles | scan, register, find, shut down | loader, chain |
| stages, `src/stages/` | each instance's own: files, sockets, rings, counts | `init`, `process`, `teardown`, `get_status` | called by the parts above |
| `src/json.c`, `src/common.c`, web UI, plugin SDK, tests | - | - | - |

What is hard here, and what would make each part correct:

* **Barrier.** Every operation is a few atomics and any worker can stop between two of them; two
  drains can overlap. Correct: the counter is exact, every barrier counts once, a tag is never
  earlier than the race allows, few items are ever out of turn, the wait ends.
* **Pool and ring.** The item is out of the ring before the barrier knows of it; a stop can fall
  anywhere. Correct: each item is run by one worker and freed once; a stopped pool leaves nothing.
* **Generator.** Allocations fail and the ring fills up, for records and barriers. Correct: nothing
  leaks, an epoch's boundary does not move when something is lost.
* **Loader.** The tree check is made of in-degree counts, the queue has no bound check, and a
  failure has to undo a set of slots that is not a prefix. Correct: what is accepted is a well-typed,
  fully wired tree; what is refused leaves no instance behind.
* **Walk.** Two routing tables, five ways out, two alternating buffers, a flag with a lifetime.
  Correct: counters add up, types fit, the flag goes where it should.
* **Stages.** Two scratch buffers alternate, each with what the last record left in it; counters are
  incremented one by one while `main()` reads them. Correct: a stage sees its own record and nothing
  else; all counters tell one story; what a client polls never goes back.
* **Resources.** Checking a graph runs the real `init()` of its stages beside the live chain.
  Correct: a check, accepted or refused, leaves nothing open, and dump files hold what was written
  to them, whatever writes fail and whichever stages share a file.
* **Plugins.** One handle may stand for many stages, and any plugin may be refused half-way.
  Correct: no name twice, no stage from a closed handle, each handle closed once.
* **Graph requests.** The text that was checked is not always the text that is written, and a read
  or a write may fail or fall short. Correct: what is on disk and whole is a graph that loads.
* **Process.** Four kinds of thread and a handler, joined in an order; a save and a reload can cross
  a signal. Correct: nothing is used after it is gone, every stop ends, the saved graph is the one
  that runs.

## The modules

| module | models | built on |
|---|---|---|
| `EpochBarrier` | `epoch_barrier.[ch]`, one action per atomic operation, under the protocol of its header | |
| `PipelineWorker` | `pipeline_worker_lcore_main()`, the ring, the stop flag, item ownership | `EpochBarrier` |
| `EpochOrder` | what a pool makes of the promise of `epoch_barrier.h:14-20`, with no mechanism | |
| `TestGen` | `testgen.c` as the pool's producer | `PipelineWorker` |
| `GraphConfig` | `graph_config_load()` | |
| `Pipeline` | `pipeline_run()` on each accepted graph | `GraphConfig` |
| `Lifecycle` | `main()`, the signal handler, the web thread's saves, answers and reloads | |
| `DaisyChain` | a ring between two processes: `ring_output_stage.c`, `ring_input.c`, who drains and frees, through failed creations and the deaths of either process | |
| `Stages` | `process()` and the counters of the nine built-in stages on a chain, with the scratch buffers of `pipeline.c` and the status loop of `main.c` | |
| `PluginLoader` | `plugin_loader.c`: the scan of a directory, the registry, the shutdown | |
| `StageResources` | the files, sockets and ports that `init()` takes and `teardown()` gives back, for the live chain and for throwaway instances | `PluginLoader` |
| `WebStatus` | start and stop with what is on disk, and every request that changes a graph, with hand edits and kills | `StageResources` |
| `PipelineWorkerProofs`, `TestGenProofs` | theorems about the barrier and the pool; about the generator | `PipelineWorker`, `EpochOrder`; `TestGen` |
| `PipelineProofs` | theorems about the loader and the walk | `Pipeline` |
| `LifecycleProofs`, `DaisyChainProofs`, `StagesProofs` | theorems | the modules they name |
| `PluginLoaderProofs`, `WebStatusProofs` | theorems about the registry; about the requests, files, sockets and ports | `PluginLoader`; `WebStatus` |
| `MC*` | instances for TLC | |

**State and code.** `EpochBarrier`'s three first variables are the struct's fields; `pc` is where a
worker stands between two atomics and `epoch` what `enter()` or `drain()` last returned to it. The
loads of the two spin loops are actions only when they end the loop; a load that does not changes
nothing. `PipelineWorker` keeps the whole history of the ring in `log` and the number of dequeued
items in `head`, as `rte_ring` keeps its indices, so that an item has a position for life and
"the epoch it belongs to" (`TrueEpoch`) is the number of barriers ahead of it. `TestGen` adds the
locals of `testgen_run()`. `GraphConfig` reads the file node by node and edge by edge, so that
every file within the bounds is a behaviour; a node is its index plus one, and 0 stands for the
code's -1. A `Stage` is what a descriptor declares and the port count its instance declares.
`Pipeline` keeps of `struct stage_record` its type, its flag and which scratch buffer holds it.
`Lifecycle` has one value of `main` per thing `main()` is about to do, and one of `web` per place
where the web thread can stop. `DaisyChain` keeps every ring ever made, so that a handle can outlive
its ring; an end is the live stage, a throwaway instance of it in the web thread, or the downstream's
input. A process can end at any place without its teardown, by `rte_exit()` or killed, and then stays
down: what a third process finds under the name it left is not modelled. The supervisor that starts and stops the two processes is outside the repository: it keeps
to the order of `docs/MANAGEMENT.md:194-228`, without which the live stage's teardown would free the
ring under a downstream that still reads it.

`Stages` makes a record of cells: three for the header (magic, number, payload length), one or
more for the payload, and two for a value of eight bytes, so that fields of one or two cells stand for
those of two to eight bytes. A scratch buffer keeps the cells behind the current record, as the
code's does. `job[w].step` is where worker `w` stands between a stage's atomic increments; each is an
action. `main()` passes its three loads as the arguments of one call and reads each stage's
counters in one expression, so that the model loads them in any order. `ring_output` makes a record
of what it is given, and its enqueue may fail at any time: how full the ring is depends on the
process that reads it. In `PluginLoader` a plugin's position in the sorted directory is its handle.
In `StageResources` a graph is its nodes in the order of their `init()`, and a pass stands between
`socket()` and `bind()` for a moment, `binding`. What a dump stage writes is a stream of numbered bytes,
a dump file a sequence of such bytes with the node that each is from, with holes where a `FILE`'s
offset has left one. A `FILE` has a buffer; a write into it may take only a part of a record, the
buffer is emptied at any time, any number of bytes at once, and that may fail and lose them, also
in the `fclose()` that nobody checks. Any number of dump nodes may name one file; then they overwrite
each other. `written`, `cut` and `short` are history: what each node was given, where its offset stood
when a pass last emptied the file, and whether a write has failed. `WebStatus` has one value of `step` per place where the web thread
can stop in a request; the temporary file of a save is private to that request and therefore only its
content. `raced` records that a load wrote another text than the one it had checked.

**Interaction.** `PipelineWorker` composes its steps with `EpochBarrier`'s: each worker step is a
barrier step and a step of its own. `TestGen` composes with the pool through the ring alone.
`Pipeline` starts where `GraphConfig` accepts. `Lifecycle` sees a worker as "at the top of its loop"
or "busy": the inside is the pool's, and that a busy worker gets back to the top is what
`StopEndsAll` checks there. `WebStatus` extends `StageResources` and `PluginLoader`: the startup and
every request run one and the same pass of `init()` calls over the registry that was loaded, and the
live chain writes meanwhile. `DownstreamTakesAll` joins two processes: what `ring_output` sends is put
before the next instance's `validate`.

Definitions whose comment begins with `Mutant:` belong to no specification. Each is a plausible bug
in the action it stands before; with the action replaced by it, the property named with it in
`PROJECT.json` fails.

## What the runs show

| run | instance | shows |
|---|---|---|
| `worker_pool` | 3 workers, 4 items, ring of 3 | exact `in_flight`; the epoch ahead of a running record's tag by at most one per other worker; each barrier counts once and drains are numbered without gap or repeat; tags not too early; items owned by one and freed once; a clean stop; `EpochOrder` implemented, with fewer items out of turn than there are workers |
| `testgen_liveness` | 2 workers, 4 records, a barrier after every 2, ring of 2 | no blob leaks; boundaries where the ids say, whatever was lost; every item is consumed; a stop ends all threads |
| `graph_pipeline` | 3 nodes, 3 edges, 3 ids, 6 stage kinds, 2 workers, 2 records | accepted graphs are well-typed, fully wired trees; refused ones leak nothing; every record is counted once, with the right type and flag |
| `lifecycle` | 2 workers, 2 graphs, 2 saves, 1 re-exec | no use after teardown; a clean image for `execv()`; the graph last reported as saved is what starts; every stop ends |
| `daisy_chain` | 2 upstream workers, ring of 2, up to 4 rings made | through probes, failures, deaths and restarts: the live stage's ring is not freed under a user, nothing is stranded on it, no ring is freed twice, and none leaks while both end by their teardowns |
| `stages` | 2 workers, 2 records, 12 chains, 2 status updates | each stage sees its own record only, unless an `extract` before it was called with no header;  the counters of stages and pipeline agree at any time; what goes to the next process is taken there; a status adds up unless records overlapped its loads, and never goes back |
| `graph_saves` | 5 plugins directories, 5 graphs, 2 starts, 1 hand edit, a file and a port | no stage twice or from a closed handle, handles closed once; nothing left open by a check; dump files hold what was written but for truncation and failed writes; what is saved whole passes the loader |
| `silent_drift` | 1 worker, testgen | **violated**: `record.h:34-37` |
| `sigint_reexec` | as `lifecycle` | **violated**: `docs/MANAGEMENT.md:95-97` |
| `sp_producers` | 2 upstream workers, ring of 2 | **violated**: `ring_input.c:30-32` |
| `live_truncated` | as `graph_saves` | **violated**: `README.md:101-102` |
| `ring_size_unchecked` | as `graph_saves` | **violated**: `web/src/App.tsx:513-515`, `README.md:351` |

The five violated runs are disagreements between the code and what is said of it; `PROJECT.json`
quotes each under `findings`.

* *Barrier ids are not checked.* A barrier that could not be allocated or did not fit the ring still
  uses up its id. The boundaries stay where they belong (`EpochBoundaries`), two epochs merge, and
  every later drain is off by one without notice.
* *A signal does not settle that the process exits.* A reload answered before or during the same
  shutdown makes it re-execute.
* *A ring made for one producer gets several.* A downstream that is first to the ring creates it
  with `RING_F_SP_ENQ`; the upstream's `ring_output` stage finds it and enqueues from all its workers.
* *A check empties the live dump file.* A dump stage's `init()` opens its file with `"wb"`, also when
  the graph is only checked. The live chain goes on at its own offset: `DumpKeepsRecords` says exactly
  what is left, a hole where the emptied records were.
* *A ring's size is not checked.* `graph_config_load()` reads `input.ring_size` as any number
  (`graph_config.c:130`), and a save is validated by `graph_config_load()` alone. A graph whose ring
  cannot be made is saved as good, and the next start fails at `ring_input_create()`. What does hold is
  `SavedGraphLoads`: what is saved whole passes the loader.

Where the barrier's header promises more than can be had, the properties say less than it does, and
that is not counted as a finding, since the header itself tells most of it.

* A record between its dequeue and `enter()` is invisible to a drain (the "narrow boundary case" of
  `epoch_barrier.h`; `README.md:37-38` of the repository states the guarantee without it). `EpochSkew`
  and `TagNotEarly` bound only how *early* a tag can be: at most one epoch per other worker. How *late*
  one can be has no bound, as such a record may wait while any number of epochs close, and no property
  bounds it. What can be said of both directions is `OrderSpec`: each barrier closes one epoch, after a
  moment at which no record that had begun was incomplete, and of all the items ahead of one that
  begins or is sealed fewer than there are workers are incomplete. With one worker that is the cliff of
  `epoch_barrier.h:14-20`; with more it is not.
* `epoch_barrier.h:77-82` calls the drain's wait "provably bounded", since every record inside leaves
  and none enters once a barrier is pending. But when two drains overlap, the first to finish clears
  `barrier_pending`, and records enter while the other still waits. With an endless stream that can
  go on for ever; `EveryItemFreed` and `StopEndsAll` hold because the generator stops after `Count`
  records, and do not show the header's claim.

`ClosedOnce` says less than `plugin_loader.h:85` as well, which has the shutdown close every handle:
the handle of a plugin without one good descriptor has no slot in the registry and stays open.
`StopEnds` excepts a client that never finishes its request or never takes its answer: the web thread
then stays in `recv()` or in `send()` (`web_status.c:244-283`, `300-301`), and `main()` joins it.

**Bounds.** Three workers are the fewest with two drains overlapping while a third has a record in
its hand, and the proofs show that the number does not matter for the barrier and the pool. Four
items hold two barriers with records on both sides. Three nodes and two ports have every shape the
loader tells apart: chains, forks, an invalid edge beside or instead of a port, self-loops, cycles
apart from the root, parallel edges, duplicate ids; four nodes with the same properties have been
checked once (5.4 million states) and are too slow to keep. Four rings are enough for
two restarts with a probe between them. Two records in `stages` are one in each worker's hand, or one
after the other through the same two buffers; their payloads differ in length, so that the second is
shorter than what the first left. The nine chains that are accepted have every stage, both modes of
`extract`, one `extract` behind another, flagged records dropped and passed on, and every sink; the
three others are refused. A buffer of six cells takes the longest record exactly, and what a field
that leads out of it reads is one of the cells `Stray`. In `graph_saves` one dump file and one port are
what two graphs can contend for, two bytes give a file that is empty, torn by a truncation or a failed write, or
full, two dump nodes of one graph share it, one graph has a ring that cannot be made,
and a registry of three is too small for one directory. One re-exec shows everything a second
image inherits from the first: the graph file. Constants named `Max...`, and `Count`, are bounds in
guards; nothing else is cut. Symmetry is used on workers and node ids, only in runs without liveness.

**Fairness.** Weak fairness on each worker's step and on the generator's: they are threads that the
system keeps scheduling, and no step blocks but in the spin loops, whose guards say so. That a
particular load of `drain()` falls on a moment with `in_flight = 0` is *not* assumed;
`EveryItemFreed` holds all the same because the generator stops after `Count` records. A successful `rte_malloc()`, a stop request, a signal and a client's next byte are never
assumed: `StopEnds` therefore lets a client that never finishes its request, or never takes
its answer, hold the process up, as `recv()` and `send()` without a timeout do. In `Lifecycle` the generator ends fairly only once it has been told.

## What is proved

Every invariant that a run checks, and every action property and refinement among the runs'
properties, is a theorem, for every value of the constants. The assumptions are those the modules
state about the constants:

* the workers are a finite set (not empty where one of them has to exist), the bounds are naturals,
  the ring has room for an item;
* a plugins directory is a sequence of plugins, a graph a sequence of nodes (`ResourceAssumption`);
* a stage's types are those of the ABI and its port count is a natural (`StageAssumption`);
* a chain of built-in stages is one that the loader's checks leave (`ChainAssumption`: it ends in its
  only sink, and behind a `convert` comes a sink), and a record fits a scratch buffer
  (`StagesAssumption`).

Two statements are about a part of what a stage is given only. `OwnRecordOnly`, and the payload in
`DownstreamTakesAll`, claim nothing behind an `extract` stage that was called with a field that another
one had cut out. `extract_stage.c:32-34` allows for such chains and the type system lets them through,
but the second one then takes a cell of that field, or one that an earlier record left in the buffer,
for a payload length (`extract_stage.c:111`). Chains like that are in the run `stages` and in the
theorems; whether a stage was called with a whole record is said of the record at hand
(`CalledWhole`), so that a chain whose first `extract` does not fit this record is still covered.

**The barrier and the pool** (`PipelineWorkerProofs`).

* `TypeCorrect`, `InFlightIsExact`, `SkewIsBounded`, `DrainsAreNumbered`: the barrier. The
  properties are not inductive alone: the skew of a record depends on how many drains have read
  zero and not yet advanced, which is why `SkewBudget` is in the invariant together with the exact
  count (a drain that reads zero then knows that no record is inside).
* `PoolImplementsBarrier`: the loop keeps to the protocol, so that the barrier's theorems hold of it.
* `PoolTypeCorrect`, `EveryBarrierCounts`, `TagsAreNotEarly`, `ItemsAreOwned`, `StopsCleanly`: the
  pool, from one invariant `PInv` that ties each worker's place in its loop to its place in the
  barrier and to the item in its hand, with the ledger of epochs and barriers.
* `PoolKeepsOrder`: with any number of workers, the pool implements `EpochOrder`, step by step. An item
  is out of turn only if it is in another worker's hand (`HeldAt`), which bounds them by the workers;
  that no record has begun and not completed when a drain reads zero is `InFlightIsExact`.

**The generator** (`TestGenProofs`). `GeneratorFeedsPool` says that generator and pool together are an
execution of the pool, which carries all of the above over (`GeneratedOrder` among it).
`BlobsAreAccounted` and `BoundariesStayPut` come from `TgInv`: what `since_last_barrier` and `epoch_id`
say of the number of the next record (`Position`), that what is on the ring has numbers below it
(`Numbered`), and where each blob went (`Handed`). The products in it are why two lemmas of arithmetic
stand apart.

**The loader and the walk** (`PipelineProofs`). What the edge loop counts is in `Wires`: an
in-degree of zero, one, or more says that a node is the target of no edge, one, or more. The check
before the breadth-first pass turns that into a tree seen from the children, `OneParent`: nobody
leads to the root and every other node has one wire to it. `QueueFrom` turns it round: each entry of
the queue but the first is the target of an earlier one. As no node has two parents, no entry is there
twice (`NoRepeats`), and the queue, which has no bound check, cannot overflow (`QueueNeverOverflows`). A pass that has taken
as many entries as there are nodes has then taken them all. That a set which holds the root and the
children of its members holds every node (`AcceptsOnlyTrees`) would be an induction along the queue;
it is proved by the least position in the queue whose node is missing (`LeastNat`, from the library's
well-foundedness of the naturals). `AcceptsMatchingTypes` and `AcceptsWiredPorts` come from `TypesFlow`
and `SlotsRight`, which hold slot by slot while the pass goes; `LoadLeaksNothing` from `ChainIsFilled`,
which says which slots have an instance at any step. `RunInv` then has `Routed`, which node a record
can be at with its flag, for `CountersAccount`, `StagesGetTheirTypes` and `FlaggedStayRouted`.

**The process** (`LifecycleProofs`). Flags, clients and signals set no order on the threads; `main()`'s
own sequence does. `LifecycleInv` says between which of its steps each thing is there, each thread can
run (`MadeInPlace`, `ThreadsInPlace`) and what the graph file is (`FileInPlace`). From it
`LifecycleKeepsPlaces`, `ThreadsKeepTheirs`, `ReexecsClean` and `RunsSavedGraph`.

**The shared ring** (`DaisyChainProofs`). `OneOwner`: since `rte_ring_create()` fails while a name is
taken and only the creator frees, at any time the one ring that is not freed is the one with the
name, and exactly one end owns it. With what the supervisor's order excludes (`Supervised`) and with
`FreesEmpty` (`main()` joins the workers before `teardown()` drains) it gives `LiveRingIsSafe`,
`RingsAreFreedOnce` and `NothingIsStranded`, for any number of restarts and probes. A process that dies
leaves its ring with the name and no owner (`Died`): nothing is freed any more that was not the other
end's, and only the half of `RingsFreedOnce` about leaks needs both to have ended by their teardowns.

**The stages** (`StagesProofs`), in three layers.

* `StagesCorrect`, `CountersAgree`: `Story` expresses each counter of a stage by those of the next and by the
  workers that stand between two increments (`Held`, a cardinality). Each step moves one worker from
  one such set to the next and adds one to the counter between them.
* `QuietStatusAddsUp`, `StatusGrows`: `StatusInv` keeps what is published below what an update has
  loaded, and that below what is counted, whatever the order of the loads.
* `StagesSeeTheirOwn`, `RingIsTaken`: `CarryInv` says that the buffer which the next stage reads begins
  with what the stages so far have made of this record, whatever cells the last one has left behind
  it, as long as the stages that extract were called with whole records (`WholeIn`); `RingInv` that every blob in hand or on the ring is made from its record, with a number that no
  other has.

**Plugins and graph requests** (`PluginLoaderProofs`, `WebStatusProofs`).

* `StagesStayBacked`, `HandlesCloseOnce`: the loader alone, for every directory and registry size. The
  invariant `LoaderInv` says which plugins the registry has stages of while it is filled, that its
  handles are in order, and that what is closed is what is above the shutdown's slot.
* `ProgramKeepsRegistry`: the same of the whole program, whose steps are the loader's, leave it alone, or
  start it anew.
* `ChecksLeaveNothingOpen`: files, sockets and ports. The property is almost inductive (`Holding`); what
  it needs is where a pass can be (`Phases`: `main()`'s before there is a live chain, the web thread's
  only inside a request). A socket is held from `socket()` on, with or without a source port.
* `SavedGraphsLoad`: the check of a request is sound. A pass that is through has found every stage and
  bound every port on its own (`PassSoFar`, which rests on the previous theorem's invariant), and what
  it found does not depend on the process: the names in a full registry are those the directory
  offers (`NamesFound`), which is why a library file checked before a restart is good after it.
* `DumpsKeepTheirRecords`: node by node (`NodeRight`: what a `FILE` has taken is a part, in order, of what
  its node was given) and file by file (`FileRight`), whichever nodes share a file and whatever writes
  fail, and beside it that the files which the startup has opened are still empty when the chain goes
  live at offset 0 (`OpenedEmpty`).

`EpochBarrier`'s own type invariant has no run, only its theorem; TLC checks the pool's, which
contains it.

**Only model-checked**: `EveryItemFreed`, `StopEndsAll` and `StopEnds`, liveness under fairness, which is
out of the prover's reach, and the five violations. No statement here is proved by induction over
data: where an argument goes along the queue it takes the least counterexample, and where it goes down
a chain (`AsSeenBy`) it takes one stage at a time, in the step that walks it. The modules with theorems, and those they use, have no recursive
operator.

## What is not modelled

* **Text and bytes.** `json.c`'s parser, option parsing and the EAL argument list of `main.c`, packet
  layout and checksums (`common.c`), HTTP headers and static files, the stages'
  config schemas, the web UI. The parser is recursive descent over characters and its result, a tree
  of values, is what `GraphConfig` and `Stages` take; a text it refuses is a file that is refused
  before any state exists.
* **Requests that only read.** `GET` endpoints return what `shown`, `shown_stages` and `library` hold;
  `StatusJson`, `StageStatus` and `Listed` name what they show.
* **The plugin SDK, the stage ABI's headers, the tests.** Copies and declarations; the tests are read
  for what they promise.
* **The rest of `forward_udp`.** Where it sends decides nothing here; that `sendto()` may fail is
  modelled.
* **Records longer than a scratch buffer.** `pipeline.c:26` copies a first record of any length; the
  producers in the repository make none that long, and `StagesAssumption` says so.
* **The memory model.** The barrier is sequentially consistent in the code too
  (`epoch_barrier.c:4-8`); the `volatile` flags are taken to be read in order; relaxed loads of
  counters may come in any order.
* **`count=0` in the generator**, its pacing sleeps, and the test hook `on_record_processed`.
* Counters do not wrap: at 2^64 records they would, which no run could reach.

## Plan

Done: all parts with control of their own, and a theorem for every safety property of the runs. Next:

1. An abstract specification of the web server's saves ("what is whole on disk was checked") that
   `WebStatus` implements, and one of the hand-over between two processes that `DaisyChain` implements.
2. Action properties that need the new invariants: a counter of a stage never goes back over a whole
   record, a slot of an accepted chain never changes.
3. A second hop for `DaisyChain` (a process that is both down- and upstream), and what a restart finds
   under a name that a dead process left.
4. What `extract` behind `extract` may read, as a violation of its own: `extract_stage.c:32-34`.
