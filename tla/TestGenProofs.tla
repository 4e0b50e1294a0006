------------------------------ MODULE TestGenProofs ------------------------------
(*****************************************************************************)
(* Theorems about TestGen.tla: the generator is one of the producers that    *)
(* PipelineWorker.tla allows, so that every theorem about the pool holds of  *)
(* the two together, and what it adds to them: where the barriers stand and  *)
(* what becomes of every blob.                                               *)
(*****************************************************************************)
EXTENDS TestGen, PipelineWorkerProofs

\* The position in testgen_run() says what sent, epoch_id and since_last_barrier
\* have in common.  NextEpoch runs whether or not the barrier is on the ring, which
\* keeps since_last_barrier the distance from a multiple of BarrierEvery.
Position ==
  /\ tg \in TgStep
  /\ sent \in 0 .. Count /\ epoch_id \in Nat /\ since_last_barrier \in Nat
  /\ epoch_id + since_last_barrier <= sent
  /\ tg \in {"malloc", "enqueue"} => sent < Count
  /\ BarrierEvery = 0 => epoch_id = 0 /\ tg \notin {"barrier", "enqueue_barrier"}
  /\ BarrierEvery # 0 =>
       /\ sent = epoch_id * BarrierEvery + since_last_barrier
       /\ IF tg \in {"barrier", "enqueue_barrier"}
          THEN since_last_barrier = BarrierEvery
          ELSE since_last_barrier < BarrierEvery

\* The numbers on the ring are those that have been given out.
Numbered ==
  /\ log \in Seq(Item)
  /\ Len(log) <= sent + epoch_id
  /\ \A k \in 1 .. Len(log) :
       log[k].seq < (IF log[k].kind = "data" THEN sent ELSE epoch_id)

\* The blob testgen has in its hand.
InHand == IF tg \in {"enqueue", "enqueue_barrier"} THEN 1 ELSE 0

\* Every blob allocated was put on the ring, freed or is still in the hand.
Handed ==
  /\ allocated \in Nat /\ discarded \in Nat
  /\ allocated = discarded + Len(log) + InHand

TgInv == Position /\ Numbered /\ Handed /\ EpochBoundaries

-------------------------------------------------------------------------------
\* Lemmas: two facts of arithmetic, the item put on the ring, and steps that leave
\* the generator alone.

LEMMA NextMultiple ==
  ASSUME NEW a \in Nat, NEW b \in Nat
  PROVE  /\ a * b \in Nat
         /\ (a + 1) * b = a * b + b
OBVIOUS

LEMMA MultiplesGrow ==
  ASSUME NEW a \in Nat, NEW b \in Nat, NEW c \in Nat, a <= b
  PROVE  a * c <= b * c
OBVIOUS

\* An item on the ring is a record or a barrier, and its number is a natural.
LEMMA LogItems ==
  ASSUME log \in Seq(Item), NEW k \in 1 .. Len(log)
  PROVE  log[k].kind \in Kind /\ log[k].seq \in Nat
<1>1. log[k] \in Item
  OBVIOUS
<1> QED
  BY <1>1, SeqNumAssumption DEF Item

\* What the ring holds after an enqueue.
LEMMA Enqueued ==
  ASSUME log \in Seq(Item), NEW kind \in Kind, NEW seq \in SeqNum, Enqueue(kind, seq)
  PROVE  /\ log' \in Seq(Item) /\ Len(log) \in Nat /\ Len(log') = Len(log) + 1
         /\ \A k \in 1 .. Len(log) : log'[k] = log[k]
         /\ log'[Len(log')] = [kind |-> kind, seq |-> seq]
<1>1. [kind |-> kind, seq |-> seq] \in Item
  BY DEF Item
<1> QED
  BY <1>1, AppendProperties DEF Enqueue

LEMMA OthersKeepTgInv ==
  ASSUME TgInv, log' = log, UNCHANGED tgVars
  PROVE  TgInv'
BY DEF TgInv, Position, Numbered, Handed, InHand, EpochBoundaries, tgVars

LEMMA WorkersKeepLog ==
  ASSUME NEW w \in Worker, WorkerThread(w)
  PROVE  log' = log
BY DEF WorkerThread, CheckStop, PassBarrier, DequeueNothing, DequeueItem, InBarrier, FinishRecord,
       FinishDrain, FreeItem, poolVars

\* The blob goes to the ring or is freed, and leaves the hand.
LEMMA BlobHandedOn ==
  ASSUME Handed, InHand = 1, log \in Seq(Item), NEW kind \in Kind, NEW seq \in SeqNum,
         EnqueueOrFree(kind, seq), allocated' = allocated, InHand' = 0
  PROVE  Handed'
<1>1. CASE Enqueue(kind, seq) /\ UNCHANGED discarded
  <2>1. Len(log) \in Nat /\ Len(log') = Len(log) + 1
    BY <1>1, Enqueued
  <2>2. /\ allocated \in Nat /\ discarded \in Nat
        /\ allocated = discarded + Len(log) + 1
    BY DEF Handed
  <2>3. allocated' = discarded' + Len(log') + 0
    BY <1>1, <2>1, <2>2
  <2> QED
    BY <1>1, <2>2, <2>3 DEF Handed
<1>2. CASE discarded' = discarded + 1 /\ UNCHANGED log
  BY <1>2 DEF Handed
<1> QED
  BY <1>1, <1>2 DEF EnqueueOrFree

-------------------------------------------------------------------------------
\* The generator's two enqueues.

\* A record goes behind the barriers whose ids are given out, and its number is at
\* least what the last of them stands for.
LEMMA RecordKeepsTgInv == ASSUME TgInv, TgEnqueue PROVE TgInv'
<1>1. /\ tg = "enqueue" /\ tg' = (IF BarrierDue THEN "barrier" ELSE "loop")
      /\ EnqueueOrFree("data", sent) /\ sent' = sent + 1
      /\ since_last_barrier' = since_last_barrier + 1
      /\ epoch_id' = epoch_id /\ allocated' = allocated
  BY DEF TgEnqueue, TgTo
<1>2. /\ sent \in Nat /\ sent < Count /\ epoch_id \in Nat /\ since_last_barrier \in Nat
      /\ log \in Seq(Item) /\ Len(log) \in Nat /\ Count \in Nat /\ BarrierEvery \in Nat
  BY <1>1, CountAssumption, BarrierEveryAssumption DEF TgInv, Position, Numbered
<1>3. "data" \in Kind /\ sent \in SeqNum
  BY <1>2, CountAssumption DEF Kind
<1>4. Position'
  <2>1. epoch_id * BarrierEvery \in Nat
    BY <1>2, NextMultiple
  <2>2. BarrierEvery # 0 => sent = epoch_id * BarrierEvery + since_last_barrier
    BY DEF TgInv, Position
  <2>3. BarrierEvery # 0 => sent' = epoch_id' * BarrierEvery + since_last_barrier'
    BY <1>1, <1>2, <2>1, <2>2
  <2>4. BarrierEvery # 0 => IF tg' \in {"barrier", "enqueue_barrier"}
                            THEN since_last_barrier' = BarrierEvery
                            ELSE since_last_barrier' < BarrierEvery
    BY <1>1, <1>2 DEF TgInv, Position, BarrierDue
  <2>5. /\ tg' \in {"barrier", "loop"} /\ sent' \in 0 .. Count
        /\ epoch_id' \in Nat /\ since_last_barrier' \in Nat
        /\ epoch_id' + since_last_barrier' <= sent'
    BY <1>1, <1>2 DEF TgInv, Position
  <2>6. BarrierEvery = 0 => epoch_id' = 0 /\ tg' \notin {"barrier", "enqueue_barrier"}
    BY <1>1 DEF TgInv, Position, BarrierDue
  <2> QED
    BY <2>3, <2>4, <2>5, <2>6 DEF Position, TgStep
<1>5. Handed'
  <2>1. InHand = 1 /\ InHand' = 0
    BY <1>1 DEF InHand
  <2> QED
    BY <1>1, <1>2, <1>3, <2>1, BlobHandedOn DEF TgInv
<1>6. CASE Enqueue("data", sent)
  <2>1. /\ log' \in Seq(Item) /\ Len(log') = Len(log) + 1
        /\ \A k \in 1 .. Len(log) : log'[k] = log[k]
        /\ log'[Len(log')] = [kind |-> "data", seq |-> sent]
    BY <1>2, <1>3, <1>6, Enqueued
  <2>2. \A k \in 1 .. Len(log) : log[k].kind \in Kind /\ log[k].seq \in Nat
    BY <1>2, LogItems
  <2>3. Numbered'
    <3>1. Len(log') <= sent' + epoch_id'
      BY <1>1, <1>2, <2>1 DEF TgInv, Numbered
    <3>2. ASSUME NEW k \in 1 .. Len(log')
          PROVE  log'[k].seq < (IF log'[k].kind = "data" THEN sent' ELSE epoch_id')
      <4>1. CASE k \in 1 .. Len(log)
        <5>1. log[k].seq < (IF log[k].kind = "data" THEN sent ELSE epoch_id)
          BY <4>1 DEF TgInv, Numbered
        <5> QED
          BY <1>1, <1>2, <2>1, <2>2, <4>1, <5>1
      <4>2. CASE k = Len(log')
        BY <1>1, <1>2, <2>1, <4>2
      <4> QED
        BY <1>2, <2>1, <4>1, <4>2
    <3> QED
      BY <2>1, <3>1, <3>2 DEF Numbered
  <2>4. EpochBoundaries'
    <3> SUFFICES ASSUME NEW j \in 1 .. Len(log'), NEW k \in 1 .. Len(log'),
                        log'[j].kind = "barrier", log'[k].kind = "data"
                 PROVE  j < k <=> log'[k].seq >= (log'[j].seq + 1) * BarrierEvery
      BY DEF EpochBoundaries
    <3>1. j \in 1 .. Len(log) /\ log'[j] = log[j]
      BY <1>2, <2>1
    <3>2. CASE k \in 1 .. Len(log)
      BY <2>1, <3>1, <3>2 DEF TgInv, EpochBoundaries
    <3>3. CASE k = Len(log')
      <4>1. log'[k].seq = sent /\ j < k
        BY <1>2, <2>1, <3>1, <3>3
      <4>2. log[j].seq \in Nat /\ log[j].seq + 1 <= epoch_id
        BY <1>2, <2>2, <3>1 DEF TgInv, Numbered
      <4>3. (log[j].seq + 1) * BarrierEvery <= epoch_id * BarrierEvery
        <5>1. log[j].seq + 1 \in Nat
          BY <4>2
        <5> QED
          BY <1>2, <4>2, <5>1, MultiplesGrow, Zenon
      <4>4. BarrierEvery # 0
        BY <1>2, <4>2 DEF TgInv, Position
      <4>5. epoch_id * BarrierEvery <= sent
        BY <1>2, <4>4, NextMultiple DEF TgInv, Position
      <4>6. (log[j].seq + 1) * BarrierEvery \in Nat /\ epoch_id * BarrierEvery \in Nat
        <5>1. log[j].seq + 1 \in Nat
          BY <4>2
        <5> QED
          BY <1>2, <5>1, NextMultiple, Zenon
      <4> QED
        BY <1>2, <3>1, <4>1, <4>3, <4>5, <4>6
    <3> QED
      BY <1>2, <2>1, <3>2, <3>3
  <2> QED
    BY <1>4, <1>5, <2>3, <2>4 DEF TgInv
<1>7. CASE UNCHANGED log
  <2>1. \A k \in 1 .. Len(log) : log[k].kind \in Kind /\ log[k].seq \in Nat
    BY <1>2, LogItems
  <2>2. Numbered'
    BY <1>1, <1>2, <1>7, <2>1 DEF TgInv, Numbered
  <2>3. EpochBoundaries'
    BY <1>7 DEF TgInv, EpochBoundaries
  <2> QED
    BY <1>4, <1>5, <2>2, <2>3 DEF TgInv
<1> QED
  BY <1>1, <1>6, <1>7 DEF EnqueueOrFree

\* A barrier is due when sent is the next multiple: every record on the ring has a
\* lower number.
LEMMA BarrierKeepsTgInv == ASSUME TgInv, TgEnqueueBarrier PROVE TgInv'
<1>1. /\ tg = "enqueue_barrier" /\ tg' = "loop" /\ EnqueueOrFree("barrier", epoch_id)
      /\ epoch_id' = epoch_id + 1 /\ since_last_barrier' = 0
      /\ sent' = sent /\ allocated' = allocated
  BY DEF TgEnqueueBarrier, TgTo, NextEpoch
<1>2. /\ sent \in Nat /\ sent <= Count /\ epoch_id \in Nat
      /\ log \in Seq(Item) /\ Len(log) \in Nat /\ Count \in Nat
      /\ BarrierEvery \in Nat /\ BarrierEvery # 0
      /\ since_last_barrier = BarrierEvery /\ epoch_id + since_last_barrier <= sent
      /\ sent = epoch_id * BarrierEvery + since_last_barrier
  BY <1>1, CountAssumption, BarrierEveryAssumption DEF TgInv, Position, Numbered
<1>3. "barrier" \in Kind /\ epoch_id \in SeqNum
  BY <1>2, CountAssumption DEF Kind
<1>4. sent = (epoch_id + 1) * BarrierEvery
  BY <1>2, NextMultiple
<1>5. Position'
  BY <1>1, <1>2, <1>4 DEF Position, TgStep
<1>6. Handed'
  <2>1. InHand = 1 /\ InHand' = 0
    BY <1>1 DEF InHand
  <2> QED
    BY <1>1, <1>2, <1>3, <2>1, BlobHandedOn DEF TgInv
<1>7. CASE Enqueue("barrier", epoch_id)
  <2>1. /\ log' \in Seq(Item) /\ Len(log') = Len(log) + 1
        /\ \A k \in 1 .. Len(log) : log'[k] = log[k]
        /\ log'[Len(log')] = [kind |-> "barrier", seq |-> epoch_id]
    BY <1>2, <1>3, <1>7, Enqueued
  <2>2. \A k \in 1 .. Len(log) : log[k].kind \in Kind /\ log[k].seq \in Nat
    BY <1>2, LogItems
  <2>3. Numbered'
    <3>1. Len(log') <= sent' + epoch_id'
      <4>1. Len(log) <= sent + epoch_id /\ Len(log) \in Nat /\ sent \in Nat /\ epoch_id \in Nat
        BY <1>2 DEF TgInv, Numbered
      <4>2. Len(log') = Len(log) + 1 /\ sent' = sent /\ epoch_id' = epoch_id + 1
        BY <1>1, <2>1
      <4> QED
        BY <4>1, <4>2
    <3>2. ASSUME NEW k \in 1 .. Len(log')
          PROVE  log'[k].seq < (IF log'[k].kind = "data" THEN sent' ELSE epoch_id')
      <4>1. CASE k \in 1 .. Len(log)
        <5>1. log[k].seq < (IF log[k].kind = "data" THEN sent ELSE epoch_id)
          BY <4>1 DEF TgInv, Numbered
        <5> QED
          BY <1>1, <1>2, <2>1, <2>2, <4>1, <5>1
      <4>2. CASE k = Len(log')
        BY <1>1, <1>2, <2>1, <4>2
      <4> QED
        BY <1>2, <2>1, <4>1, <4>2
    <3> QED
      BY <2>1, <3>1, <3>2 DEF Numbered
  <2>4. EpochBoundaries'
    <3> SUFFICES ASSUME NEW j \in 1 .. Len(log'), NEW k \in 1 .. Len(log'),
                        log'[j].kind = "barrier", log'[k].kind = "data"
                 PROVE  j < k <=> log'[k].seq >= (log'[j].seq + 1) * BarrierEvery
      BY DEF EpochBoundaries
    <3>1. k \in 1 .. Len(log) /\ log'[k] = log[k]
      <4>1. k # Len(log')
        BY <2>1
      <4>2. k \in 1 .. Len(log)
        BY <1>2, <2>1, <4>1
      <4> QED
        BY <2>1, <4>2
    <3>2. CASE j \in 1 .. Len(log)
      BY <2>1, <3>1, <3>2 DEF TgInv, EpochBoundaries
    <3>3. CASE j = Len(log')
      <4>1. log'[j].seq = epoch_id /\ ~(j < k)
        BY <1>2, <2>1, <3>1, <3>3
      <4>2. log'[k].seq < sent /\ log'[k].seq \in Nat
        BY <2>2, <3>1 DEF TgInv, Numbered
      <4> QED
        BY <1>2, <1>4, <4>1, <4>2
    <3> QED
      BY <1>2, <2>1, <3>2, <3>3
  <2> QED
    BY <1>5, <1>6, <2>3, <2>4 DEF TgInv
<1>8. CASE UNCHANGED log
  <2>1. \A k \in 1 .. Len(log) : log[k].kind \in Kind /\ log[k].seq \in Nat
    BY <1>2, LogItems
  <2>2. Numbered'
    BY <1>1, <1>2, <1>8, <2>1 DEF TgInv, Numbered
  <2>3. EpochBoundaries'
    BY <1>8 DEF TgInv, EpochBoundaries
  <2> QED
    BY <1>5, <1>6, <2>2, <2>3 DEF TgInv
<1> QED
  BY <1>1, <1>7, <1>8 DEF EnqueueOrFree

-------------------------------------------------------------------------------
\* The invariant, and the generator as the pool's producer.

LEMMA TgStarts == TgInit => TgInv
<1> SUFFICES ASSUME TgInit PROVE TgInv
  OBVIOUS
<1>1. /\ tg = "loop" /\ sent = 0 /\ since_last_barrier = 0 /\ epoch_id = 0
      /\ allocated = 0 /\ discarded = 0 /\ log = <<>>
  BY DEF TgInit, PoolInit
<1>2. Position
  BY <1>1, CountAssumption, BarrierEveryAssumption, NextMultiple DEF Position, TgStep
<1>3. Numbered
  BY <1>1, EmptySeq DEF Numbered
<1>4. Handed /\ EpochBoundaries
  BY <1>1, EmptySeq DEF Handed, InHand, EpochBoundaries
<1> QED
  BY <1>2, <1>3, <1>4 DEF TgInv

LEMMA TgStepKeepsInv == TgInv /\ [TgNext]_allVars => TgInv'
<1> SUFFICES ASSUME TgInv, [TgNext]_allVars PROVE TgInv'
  OBVIOUS
<1>1. CASE TgLoop
  <2>1. /\ tg = "loop" /\ tg' \in {"done", "malloc"}
        /\ tg' = "malloc" => sent # Count
        /\ UNCHANGED <<log, sent, since_last_barrier, epoch_id, allocated, discarded>>
    BY <1>1 DEF TgLoop, TgTo, vars, poolVars
  <2>2. Position'
    BY <2>1, CountAssumption DEF TgInv, Position, TgStep
  <2>3. Numbered' /\ Handed' /\ EpochBoundaries'
    BY <2>1 DEF TgInv, Numbered, Handed, InHand, EpochBoundaries
  <2> QED
    BY <2>2, <2>3 DEF TgInv
<1>2. CASE TgMallocFails
  BY <1>2 DEF TgMallocFails, TgTo, TgInv, Position, TgStep, Numbered, Handed, InHand,
              EpochBoundaries, vars, poolVars
<1>3. CASE TgMalloc
  <2>1. /\ tg = "malloc" /\ tg' = "enqueue" /\ allocated' = allocated + 1
        /\ UNCHANGED <<log, sent, since_last_barrier, epoch_id, discarded>>
    BY <1>3 DEF TgMalloc, TgTo, vars, poolVars
  <2>2. Handed'
    BY <2>1 DEF TgInv, Handed, InHand, Numbered
  <2> QED
    BY <2>1, <2>2 DEF TgInv, Position, TgStep, Numbered, EpochBoundaries
<1>4. CASE TgEnqueue
  BY <1>4, RecordKeepsTgInv
<1>5. CASE TgBarrierMallocFails
  <2>1. /\ tg = "barrier" /\ tg' = "loop" /\ epoch_id' = epoch_id + 1 /\ since_last_barrier' = 0
        /\ UNCHANGED <<log, sent, allocated, discarded>>
    BY <1>5 DEF TgBarrierMallocFails, TgTo, NextEpoch, vars, poolVars
  <2>2. /\ sent \in Nat /\ epoch_id \in Nat /\ Len(log) \in Nat /\ log \in Seq(Item)
        /\ BarrierEvery \in Nat /\ BarrierEvery # 0 /\ since_last_barrier = BarrierEvery
        /\ epoch_id + since_last_barrier <= sent /\ Count \in Nat /\ sent <= Count
        /\ sent = epoch_id * BarrierEvery + since_last_barrier
    BY <2>1, BarrierEveryAssumption, CountAssumption DEF TgInv, Position, Numbered
  <2>3. sent = (epoch_id + 1) * BarrierEvery
    BY <2>2, NextMultiple
  <2>4. Position'
    BY <2>1, <2>2, <2>3 DEF Position, TgStep
  <2>5. \A k \in 1 .. Len(log) : log[k].seq \in Nat
    BY <2>2, LogItems
  <2>6. Numbered' /\ Handed' /\ EpochBoundaries'
    BY <2>1, <2>2, <2>5 DEF TgInv, Numbered, Handed, InHand, EpochBoundaries
  <2> QED
    BY <2>4, <2>6 DEF TgInv
<1>6. CASE TgBarrierMalloc
  <2>1. /\ tg = "barrier" /\ tg' = "enqueue_barrier" /\ allocated' = allocated + 1
        /\ UNCHANGED <<log, sent, since_last_barrier, epoch_id, discarded>>
    BY <1>6 DEF TgBarrierMalloc, TgTo, vars, poolVars
  <2>2. Handed'
    BY <2>1 DEF TgInv, Handed, InHand, Numbered
  <2> QED
    BY <2>1, <2>2 DEF TgInv, Position, TgStep, Numbered, EpochBoundaries
<1>7. CASE TgEnqueueBarrier
  BY <1>7, BarrierKeepsTgInv
<1>8. CASE TestgenStop
  BY <1>8 DEF TestgenStop, TgInv, Position, Numbered, Handed, InHand, EpochBoundaries, vars,
              poolVars
<1>9. CASE RequestStop /\ UNCHANGED tgVars
  BY <1>9, OthersKeepTgInv DEF RequestStop
<1>10. ASSUME NEW w \in Worker, WorkerThread(w), UNCHANGED tgVars PROVE TgInv'
  BY <1>10, WorkersKeepLog, OthersKeepTgInv
<1>11. CASE UNCHANGED allVars
  BY <1>11, OthersKeepTgInv DEF allVars, vars, poolVars
<1> QED
  BY <1>1, <1>2, <1>3, <1>4, <1>5, <1>6, <1>7, <1>8, <1>9, <1>10, <1>11
     DEF TgNext, Testgen, Ended

LEMMA TgSpecKeepsInv == TgSpec => []TgInv
BY TgStarts, TgStepKeepsInv, PTL DEF TgSpec

\* What the generator does to the pool is produce an item, or nothing.
LEMMA EnqueueProduces ==
  ASSUME NEW kind \in Kind, NEW seq \in SeqNum, EnqueueOrFree(kind, seq), UNCHANGED PoolButLog,
         Len(log) < MaxItems
  PROVE  Produce(kind, seq) \/ UNCHANGED vars
BY DEF EnqueueOrFree, Produce, PoolButLog, vars, poolVars

\* The bounds of PipelineWorker.tla hold of what the generator sends: at most a
\* record and a barrier for each of the Count.
LEMMA TgStepProduces == TgInv /\ [TgNext]_allVars => [PoolNext]_vars
<1> SUFFICES ASSUME TgInv, [TgNext]_allVars PROVE [PoolNext]_vars
  OBVIOUS
<1>1. /\ Count \in Nat /\ 2 * Count <= MaxItems /\ 0 .. Count \subseteq SeqNum /\ MaxItems \in Nat
      /\ sent \in Nat /\ sent <= Count /\ epoch_id \in Nat /\ epoch_id <= sent
      /\ Len(log) \in Nat /\ Len(log) <= sent + epoch_id
  BY CountAssumption, MaxItemsAssumption DEF TgInv, Position, Numbered
<1>2. CASE TgEnqueue
  <2>1. sent < Count /\ EnqueueOrFree("data", sent) /\ UNCHANGED PoolButLog
    BY <1>2 DEF TgEnqueue, TgTo, TgInv, Position
  <2>2. "data" \in Kind /\ sent \in SeqNum /\ Len(log) < MaxItems
    BY <1>1, <2>1 DEF Kind
  <2> QED
    BY <2>1, <2>2, EnqueueProduces DEF PoolNext
<1>3. CASE TgEnqueueBarrier
  <2>1. /\ EnqueueOrFree("barrier", epoch_id) /\ UNCHANGED PoolButLog
        /\ BarrierEvery \in Nat /\ BarrierEvery # 0 /\ epoch_id + BarrierEvery <= sent
    BY <1>3, BarrierEveryAssumption DEF TgEnqueueBarrier, TgTo, TgInv, Position
  <2>2. "barrier" \in Kind /\ epoch_id \in SeqNum /\ Len(log) < MaxItems
    BY <1>1, <2>1 DEF Kind
  <2> QED
    BY <2>1, <2>2, EnqueueProduces DEF PoolNext
<1>4. TgLoop \/ TgMalloc \/ TgMallocFails \/ TgBarrierMalloc \/ TgBarrierMallocFails
        \/ TestgenStop \/ Ended \/ UNCHANGED allVars => UNCHANGED vars
  BY DEF TgLoop, TgMalloc, TgMallocFails, TgBarrierMalloc, TgBarrierMallocFails, TestgenStop,
         Ended, allVars
<1> QED
  BY <1>2, <1>3, <1>4, Zenon DEF TgNext, Testgen, PoolNext

-------------------------------------------------------------------------------

\* testgen_run() is a producer as PipelineWorker.tla has it, for every Count and
\* BarrierEvery: what is proved of the pool under any producer holds under this one.
THEOREM GeneratorFeedsPool == TgSpec => PoolSpec
<1>1. TgInit => PoolInit
  BY DEF TgInit
<1> QED
  BY <1>1, TgSpecKeepsInv, TgStepProduces, PTL DEF TgSpec, PoolSpec

\* Every blob testgen allocates is freed by whoever had it last, or is on the ring or
\* in a hand: full rings, failed allocations and stop requests leak none.
THEOREM BlobsAreAccounted == TgSpec => []BlobLedger
<1>1. TgInv /\ PInv => BlobLedger
  <2> SUFFICES ASSUME TgInv, PInv PROVE BlobLedger
    OBVIOUS
  <2>1. head \in 0 .. Len(log) /\ Len(log) \in Nat
    BY DEF PInv, PoolState
  <2>2. IsFiniteSet(1 .. head) /\ Cardinality(1 .. head) = head
    BY <2>1, FS_Interval
  <2>3. Cardinality(OnRing) = Len(log) - head
    <3>1. head + 1 \in Int /\ Len(log) \in Int
      BY <2>1
    <3>2. Cardinality(OnRing) = IF head + 1 > Len(log) THEN 0 ELSE Len(log) - (head + 1) + 1
      BY <3>1, FS_Interval, Zenon DEF OnRing
    <3> QED
      BY <2>1, <3>2
  <2>4. /\ freed \cup Held = 1 .. head /\ freed \cap Held = {}
        /\ freed \subseteq 1 .. head /\ Held \subseteq 1 .. head
    BY DEF PInv, ItemOwnership
  <2>5. IsFiniteSet(freed) /\ IsFiniteSet(Held)
    BY <2>2, <2>4, FS_Subset
  <2>6. Cardinality(freed) \in Nat /\ Cardinality(Held) \in Nat
    BY <2>5, FS_CardinalityType
  <2>7. Cardinality(freed) + Cardinality(Held) = head
    <3>1. Cardinality(freed \cup Held)
            = Cardinality(freed) + Cardinality(Held) - Cardinality(freed \cap Held)
      BY <2>5, FS_Union, Zenon
    <3>2. Cardinality(freed \cup Held) = head /\ Cardinality(freed \cap Held) = 0
      BY <2>2, <2>4, FS_EmptySet, Zenon
    <3> QED
      BY <2>6, <3>1, <3>2
  <2>8. /\ allocated \in Nat /\ discarded \in Nat /\ InHand \in {0, 1}
        /\ allocated = discarded + Len(log) + InHand
    BY DEF TgInv, Handed, InHand
  <2>9. allocated = discarded + Cardinality(freed) + Cardinality(Held) + Cardinality(OnRing) + InHand
    BY <2>1, <2>3, <2>6, <2>7, <2>8
  <2> QED
    BY <2>9 DEF BlobLedger, InHand
<1> QED
  BY <1>1, TgSpecKeepsInv, GeneratorFeedsPool, PoolInvariance, PTL

\* Barrier k divides the records below (k+1)*BarrierEvery from the others, whatever
\* the ring and the allocator refused before and after it.
THEOREM BoundariesStayPut == TgSpec => []EpochBoundaries
<1>1. TgInv => EpochBoundaries
  BY DEF TgInv
<1> QED
  BY <1>1, TgSpecKeepsInv, PTL

\* The order the pool keeps is kept with this producer, whatever it had to drop: the
\* ids of later barriers may drift, what they order does not.
THEOREM GeneratedOrder == TgSpec => OrderSpec
BY GeneratorFeedsPool, PoolKeepsOrder, PTL
===============================================================================
