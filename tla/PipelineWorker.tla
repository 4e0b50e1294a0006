----------------------------- MODULE PipelineWorker -----------------------------
(*****************************************************************************)
(* src/src/pipeline_worker.c: the loop every worker lcore runs, on top of    *)
(* the barrier it shares with the others.  It adds to EpochBarrier the input *)
(* ring, the stop flag, the item in each worker's hand and its rte_free().   *)
(*                                                                           *)
(* The ring is rte_ring's own picture of itself: log holds every item ever   *)
(* enqueued, head counts the items dequeued, and the items after head are on *)
(* the ring.  An item is named by its position in log.                       *)
(*****************************************************************************)
EXTENDS EpochBarrier, Sequences

CONSTANTS
  Capacity,   \* how many items the ring holds (rte_ring: its size minus one)
  MaxItems,   \* bound: how many items the producers enqueue in all
  SeqNum      \* the sequence numbers they give them

ASSUME CapacityAssumption == Capacity \in Nat \ {0}
ASSUME MaxItemsAssumption == MaxItems \in Nat /\ MaxItems <= MaxEpoch
ASSUME SeqNumAssumption == SeqNum \subseteq Nat

VARIABLES
  log,             \* every item the ring ever received, oldest first
  head,            \* how many of them have been dequeued
  stop_requested,  \* *ctx->stop_requested, main.c's g_shutdown_requested
  loop,            \* where each worker stands in its loop
  item,            \* the item in each worker's hand, 0 when there is none
  freed            \* items given back to rte_free()

poolVars == <<log, head, stop_requested, loop, item, freed>>
vars == <<barrierVars, poolVars>>

\* "top" checks the stop flag, "wait" calls wait_if_pending(), "body" runs from
\* the dequeue to the end of enter/run/exit or drain, "free" frees the item.
LoopStep == {"top", "wait", "body", "free", "exited"}

Kind == {"data", "barrier"}
Item == [kind : Kind, seq : SeqNum]

\* The items on the ring, and those dequeued but not yet freed.
OnRing == head + 1 .. Len(log)
Held   == {item[w] : w \in Worker} \ {0}

\* The barriers among the first n items, and the epoch item i belongs to: the
\* number of barriers that precede it on the ring.
BarriersIn(n)  == {j \in 1 .. n : log[j].kind = "barrier"}
TrueEpoch(i) == Cardinality(BarriersIn(i - 1))

IsData(i) == log[i].kind = "data"

-------------------------------------------------------------------------------

PoolInit ==
  /\ Init
  /\ log = <<>>
  /\ head = 0
  /\ stop_requested = FALSE
  /\ loop = [w \in Worker |-> "top"]
  /\ item = [w \in Worker |-> 0]
  /\ freed = {}

LoopTo(w, from, to) ==
  /\ loop[w] = from
  /\ loop' = [loop EXCEPT ![w] = to]

\* Mutant: a ring that takes one item too many.
RingFullLate == Len(log) - head > Capacity

\* rte_ring_enqueue() by the ring's single producer: it fails on a full ring.
RingFull == Len(log) - head >= Capacity

Enqueue(kind, seq) ==
  /\ ~RingFull
  /\ log' = Append(log, [kind |-> kind, seq |-> seq])

\* Any producer: testgen's thread (TestGen.tla) or another process attached to the
\* ring, which numbers its records as it likes.
Produce(kind, seq) ==
  /\ Len(log) < MaxItems
  /\ Enqueue(kind, seq)
  /\ UNCHANGED <<barrierVars, head, stop_requested, loop, item, freed>>

RequestStop ==
  /\ ~stop_requested
  /\ stop_requested' = TRUE
  /\ UNCHANGED <<barrierVars, log, head, loop, item, freed>>

\* while (!*ctx->stop_requested)
CheckStop(w) ==
  /\ LoopTo(w, "top", IF stop_requested THEN "exited" ELSE "wait")
  /\ UNCHANGED <<barrierVars, log, head, stop_requested, item, freed>>

PassBarrier(w) ==
  /\ LoopTo(w, "wait", "body")
  /\ WaitIfPending(w)
  /\ UNCHANGED <<log, head, stop_requested, item, freed>>

\* rte_ring_dequeue_burst(ring, &item, 1) on an empty ring.
DequeueNothing(w) ==
  /\ OnRing = {}
  /\ LoopTo(w, "body", "top")
  /\ TakeNothing(w)
  /\ UNCHANGED <<log, head, stop_requested, item, freed>>

\* The same call on a ring that holds an item: the oldest one, and the magic
\* number decides what the worker does with it.
DequeueItem(w) ==
  /\ OnRing # {}
  /\ loop[w] = "body"
  /\ IF IsData(head + 1) THEN TakeRecord(w) ELSE TakeBarrier(w)
  /\ head' = head + 1
  /\ item' = [item EXCEPT ![w] = head + 1]
  /\ UNCHANGED <<log, stop_requested, loop, freed>>

\* enter() and drain() inside the body, where only the barrier's state changes.
InBarrier(w) ==
  /\ loop[w] = "body"
  /\ \/ EnterAdd(w) \/ EnterLoad(w)
     \/ DrainAnnounce(w) \/ DrainSeesZero(w) \/ DrainAdvance(w)
  /\ UNCHANGED poolVars

\* pipeline_run() has returned (Pipeline.tla): the record leaves the barrier.
FinishRecord(w) ==
  /\ LoopTo(w, "body", "free")
  /\ Exit(w)
  /\ UNCHANGED <<log, head, stop_requested, item, freed>>

\* Mutant: a drain that gives up, and leaves barrier_pending set, once the pool stops.
FinishDrainStopped(w) ==
  /\ LoopTo(w, "body", "free")
  /\ Goto(w, "release", "idle")
  /\ barrier_pending' = stop_requested
  /\ UNCHANGED <<current_epoch, in_flight, epoch, log, head, stop_requested, item, freed>>

\* drain() has returned.
FinishDrain(w) ==
  /\ LoopTo(w, "body", "free")
  /\ DrainRelease(w)
  /\ UNCHANGED <<log, head, stop_requested, item, freed>>

\* Mutant: the item is freed on the record path alone.
FreeItemRecord(w) ==
  /\ LoopTo(w, "free", "top")
  /\ freed' = freed \cup {i \in {item[w]} : IsData(i)}
  /\ item' = [item EXCEPT ![w] = 0]
  /\ UNCHANGED <<barrierVars, log, head, stop_requested>>

\* rte_free(item)
FreeItem(w) ==
  /\ LoopTo(w, "free", "top")
  /\ freed' = freed \cup {item[w]}
  /\ item' = [item EXCEPT ![w] = 0]
  /\ UNCHANGED <<barrierVars, log, head, stop_requested>>

WorkerThread(w) ==
  \/ CheckStop(w) \/ PassBarrier(w)
  \/ DequeueNothing(w) \/ DequeueItem(w)
  \/ InBarrier(w) \/ FinishRecord(w) \/ FinishDrain(w)
  \/ FreeItem(w)

\* The pool has stopped and nothing more arrives: the behaviour stays where it is.
PoolEnded ==
  /\ \A w \in Worker : loop[w] = "exited"
  /\ UNCHANGED vars

PoolNext ==
  \/ \E kind \in Kind, seq \in SeqNum : Produce(kind, seq)
  \/ RequestStop
  \/ \E w \in Worker : WorkerThread(w)
  \/ PoolEnded

PoolSpec == PoolInit /\ [][PoolNext]_vars

-------------------------------------------------------------------------------

PoolTypeOK ==
  /\ TypeOK
  /\ log \in Seq(Item)
  /\ head \in 0 .. Len(log)
  /\ Len(log) - head <= Capacity
  /\ stop_requested \in BOOLEAN
  /\ loop \in [Worker -> LoopStep]
  /\ item \in [Worker -> 0 .. head]
  /\ freed \subseteq 1 .. head

\* Every barrier advances the epoch exactly once: the epoch and the barriers some
\* worker still has to advance for add up to the barriers dequeued so far,
\* whichever workers drain them and in whatever order.
EpochLedger ==
  current_epoch + Cardinality(Undrained) = Cardinality(BarriersIn(head))

\* A record is never tagged with an epoch more than one step per other worker
\* behind the one it belongs to: the barriers ahead of it that have not advanced
\* the epoch yet are each in the hand of another worker.
TagNotEarly ==
  \A w \in Worker : pc[w] = "run" =>
    TrueEpoch(item[w]) <= epoch[w] + Cardinality(Worker) - 1

\* Every item dequeued is in one worker's hand or has been freed, never both and
\* never twice: the pool leaks nothing and no worker runs or frees another's item.
ItemOwnership ==
  /\ \A v, w \in Worker : v # w /\ item[v] # 0 => item[v] # item[w]
  /\ freed \cup Held = 1 .. head
  /\ freed \cap Held = {}

\* A pool that has stopped leaves the barrier as it was made: no drain abandoned
\* half-way, no record inside, nothing dequeued and not freed
\* (pipeline_worker.h:45-51).
CleanStop ==
  (\A w \in Worker : loop[w] = "exited") =>
    ~barrier_pending /\ in_flight = 0 /\ Undrained = {} /\ freed = 1 .. head

\* The items in the hands of the workers at some places of the barrier's protocol.
HeldAt(places) == {item[w] : w \in {v \in Worker : pc[v] \in places}}

\* A record begins with enter()'s fetch_add and is complete once exit() has run; a
\* barrier is sealed once its drain has read in_flight = 0, and complete once it has
\* advanced the epoch.
Entering   == {"enter"}
Unsealed   == {"drain", "await"}
Incomplete == {"enter", "stamp", "run", "drain", "await", "advance"}

Begun     == {i \in 1 .. head : IsData(i)} \ HeldAt(Entering)
Sealed    == {i \in 1 .. head : ~IsData(i)} \ HeldAt(Unsealed)
Completed == (1 .. head) \ HeldAt(Incomplete)

\* What the pool promises, with any number of workers and whichever of them drain
\* which barriers (EpochOrder.tla): each barrier closes one epoch, after a moment at
\* which no record that had begun was incomplete, and fewer items than there are
\* workers are out of turn.
Order == INSTANCE EpochOrder
           WITH Window <- Cardinality(Worker), begun <- Begun, sealed <- Sealed,
                done <- Completed, epoch <- current_epoch
OrderSpec == Order!Spec
===============================================================================
