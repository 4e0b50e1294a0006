-------------------------------- MODULE TestGen ---------------------------------
(*****************************************************************************)
(* src/src/testgen.c: the thread that feeds the worker pool's input ring     *)
(* with synthetic records and, after every BarrierEvery of them, a barrier   *)
(* that carries the epoch id.  An allocation may fail and the ring may be    *)
(* full: a record's allocation is retried, everything else is given up.      *)
(*****************************************************************************)
EXTENDS PipelineWorker

CONSTANTS
  Count,         \* cfg->count, how many records to send (0, without end, is not modelled)
  BarrierEvery   \* cfg->barrier_every, 0 for no barriers at all

ASSUME CountAssumption == Count \in Nat \ {0} /\ 2 * Count <= MaxItems /\ 0 .. Count \subseteq SeqNum
ASSUME BarrierEveryAssumption == BarrierEvery \in Nat

VARIABLES
  tg,                   \* where the thread stands in testgen_run()
  sent,                 \* records built so far, enqueued or dropped
  since_last_barrier,   \* of those, how many since the last barrier was due
  epoch_id,             \* the id of the next barrier
  tg_stop,              \* testgen.c's g_stop_requested
  allocated,            \* rte_malloc() calls that returned a blob
  discarded             \* blobs rte_free()d by testgen because the ring was full

tgVars == <<tg, sent, since_last_barrier, epoch_id, tg_stop, allocated, discarded>>
allVars == <<vars, tgVars>>

TgStep == {"loop", "malloc", "enqueue", "barrier", "enqueue_barrier", "done"}

\* The pool's state as the producer leaves it alone, but for the ring itself.
PoolButLog == <<barrierVars, head, stop_requested, loop, item, freed>>

-------------------------------------------------------------------------------

TgInit ==
  /\ PoolInit
  /\ tg = "loop"
  /\ sent = 0 /\ since_last_barrier = 0 /\ epoch_id = 0
  /\ tg_stop = FALSE
  /\ allocated = 0 /\ discarded = 0

TgTo(from, to) == tg = from /\ tg' = to

\* while (!g_stop_requested && sent < cfg->count)
TgLoop ==
  /\ TgTo("loop", IF tg_stop \/ sent = Count THEN "done" ELSE "malloc")
  /\ UNCHANGED <<vars, sent, since_last_barrier, epoch_id, tg_stop, allocated, discarded>>

\* rte_malloc() of a record: a failure sleeps and goes round the loop again.
TgMallocFails ==
  /\ TgTo("malloc", "loop")
  /\ UNCHANGED <<vars, sent, since_last_barrier, epoch_id, tg_stop, allocated, discarded>>

TgMalloc ==
  /\ TgTo("malloc", "enqueue")
  /\ allocated' = allocated + 1
  /\ UNCHANGED <<vars, sent, since_last_barrier, epoch_id, tg_stop, discarded>>

\* Mutant: the blob the full ring refused is not freed.
EnqueueOrLeak(kind, seq) ==
  /\ \/ Enqueue(kind, seq)
     \/ RingFull /\ UNCHANGED log
  /\ UNCHANGED discarded

\* rte_ring_enqueue(), or rte_free() on a full ring.
EnqueueOrFree(kind, seq) ==
  \/ /\ Enqueue(kind, seq)
     /\ UNCHANGED discarded
  \/ /\ RingFull
     /\ discarded' = discarded + 1
     /\ UNCHANGED log

BarrierDue == BarrierEvery # 0 /\ since_last_barrier + 1 >= BarrierEvery

TgEnqueue ==
  /\ TgTo("enqueue", IF BarrierDue THEN "barrier" ELSE "loop")
  /\ EnqueueOrFree("data", sent)
  /\ sent' = sent + 1
  /\ since_last_barrier' = since_last_barrier + 1
  /\ UNCHANGED <<PoolButLog, epoch_id, tg_stop, allocated>>

\* Mutant: the count since the last barrier is not reset.
NextEpochNoReset ==
  /\ epoch_id' = epoch_id + 1
  /\ UNCHANGED since_last_barrier

\* What testgen_run() does after emit_barrier(), whether or not the barrier
\* reached the ring.
NextEpoch ==
  /\ epoch_id' = epoch_id + 1
  /\ since_last_barrier' = 0

\* emit_barrier()
TgBarrierMallocFails ==
  /\ TgTo("barrier", "loop")
  /\ NextEpoch
  /\ UNCHANGED <<vars, sent, tg_stop, allocated, discarded>>

TgBarrierMalloc ==
  /\ TgTo("barrier", "enqueue_barrier")
  /\ allocated' = allocated + 1
  /\ UNCHANGED <<vars, sent, since_last_barrier, epoch_id, tg_stop, discarded>>

TgEnqueueBarrier ==
  /\ TgTo("enqueue_barrier", "loop")
  /\ EnqueueOrFree("barrier", epoch_id)
  /\ NextEpoch
  /\ UNCHANGED <<PoolButLog, sent, tg_stop, allocated>>

\* testgen_stop(), called by main() once its status loop has seen the quit flag.
TestgenStop ==
  /\ stop_requested
  /\ ~tg_stop
  /\ tg_stop' = TRUE
  /\ UNCHANGED <<vars, tg, sent, since_last_barrier, epoch_id, allocated, discarded>>

Testgen ==
  \/ TgLoop
  \/ TgMalloc \/ TgMallocFails \/ TgEnqueue
  \/ TgBarrierMalloc \/ TgBarrierMallocFails \/ TgEnqueueBarrier

AllStopped == tg = "done" /\ \A w \in Worker : loop[w] = "exited"

\* Everything has ended: the behaviour stays where it is.
Ended ==
  /\ AllStopped /\ tg_stop
  /\ UNCHANGED allVars

TgNext ==
  \/ Testgen
  \/ TestgenStop
  \/ RequestStop /\ UNCHANGED tgVars
  \/ \E w \in Worker : WorkerThread(w) /\ UNCHANGED tgVars
  \/ Ended

TgSpec == TgInit /\ [][TgNext]_allVars

\* Every thread keeps running.  A stop request and a successful allocation may
\* never come; a malloc that fails again and again keeps testgen in its loop.
TgFairSpec ==
  /\ TgSpec
  /\ WF_allVars(Testgen)
  /\ WF_allVars(TestgenStop)
  /\ \A w \in Worker : WF_allVars(WorkerThread(w) /\ UNCHANGED tgVars)

-------------------------------------------------------------------------------

\* Every blob allocated is in testgen's hand, on the ring, in a worker's hand or
\* freed, by testgen when the ring was full or by the worker that dequeued it:
\* none leaks, whatever is lost on the way.
BlobLedger ==
  allocated = discarded + Cardinality(freed) + Cardinality(Held)
              + Cardinality(OnRing)
              + (IF tg \in {"enqueue", "enqueue_barrier"} THEN 1 ELSE 0)

\* Barrier k stands between record (k+1)*BarrierEvery - 1 and the next one on the
\* ring, even when records or other barriers around it were dropped: a lost
\* barrier merges two epochs and never moves a boundary.
EpochBoundaries ==
  \A j, k \in 1 .. Len(log) :
    (log[j].kind = "barrier" /\ log[k].kind = "data") =>
      (j < k <=> log[k].seq >= (log[j].seq + 1) * BarrierEvery)

\* record.h:28-37: the epoch a drain moves to is the one its barrier's id names;
\* any drift between producer and consumer is caught.
NoSilentDrift ==
  \A w \in Worker :
    pc[w] = "release" => epoch[w] = log[item[w]].seq + 1

\* Every item that reached the ring is freed by some worker, unless the program is
\* told to stop first: no drain and no park in wait_if_pending() lasts for ever.
EveryItemFreed == []<>(freed = 1 .. Len(log) \/ stop_requested)

\* A stop request ends every worker and the generator, also when it falls while
\* workers drain, wait for a drain or have an item in their hands.
StopEndsAll == stop_requested ~> AllStopped

===============================================================================
