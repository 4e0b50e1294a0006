------------------------------ MODULE EpochBarrier ------------------------------
(*****************************************************************************)
(* src/src/epoch_barrier.[ch]: the three atomics that separate the epochs of *)
(* the record stream, used by a pool of worker threads.  Every atomic        *)
(* operation of the C code is one action; the calling protocol is the one    *)
(* epoch_barrier.h states (wait_if_pending before every dequeue, enter and   *)
(* exit around every data record, drain on a barrier record), with any       *)
(* interleaving of the workers and any stream of data and barrier records.   *)
(*****************************************************************************)
EXTENDS Integers, FiniteSets

CONSTANTS
  Worker,    \* the worker threads that share the barrier
  MaxEpoch   \* bound: how many barrier records the stream may hold

ASSUME WorkerAssumption == IsFiniteSet(Worker) /\ Worker # {}
ASSUME MaxEpochAssumption == MaxEpoch \in Nat

VARIABLES
  current_epoch,    \* _Atomic uint64_t current_epoch
  in_flight,        \* _Atomic uint64_t in_flight
  barrier_pending,  \* _Atomic bool barrier_pending
  pc,               \* where each worker stands in the protocol
  epoch             \* what enter() or drain() last returned to each worker

barrierVars == <<current_epoch, in_flight, barrier_pending, pc, epoch>>

\* "idle"     between two iterations, about to call wait_if_pending()
\* "cleared"  wait_if_pending() has returned, about to dequeue
\* "enter", "stamp"  inside enter(), before its fetch_add and before its load
\* "run"      between enter() and exit()
\* "drain", "await", "advance", "release"  inside drain(), before its first
\*            store, in its wait, before its fetch_add, before its last store
Step == {"idle", "cleared", "enter", "stamp", "run",
         "drain", "await", "advance", "release"}

InFlight  == {w \in Worker : pc[w] \in {"stamp", "run"}}
Undrained == {w \in Worker : pc[w] \in {"drain", "await", "advance"}}
Advancing == {w \in Worker : pc[w] = "advance"}

-------------------------------------------------------------------------------

Init ==
  /\ current_epoch = 0
  /\ in_flight = 0
  /\ barrier_pending = FALSE
  /\ pc = [w \in Worker |-> "idle"]
  /\ epoch = [w \in Worker |-> 0]

Goto(w, from, to) ==
  /\ pc[w] = from
  /\ pc' = [pc EXCEPT ![w] = to]

\* The load of wait_if_pending() that reads FALSE; one that reads TRUE yields
\* and loads again, which changes nothing.
WaitIfPending(w) ==
  /\ ~barrier_pending
  /\ Goto(w, "idle", "cleared")
  /\ UNCHANGED <<current_epoch, in_flight, barrier_pending, epoch>>

\* What the caller's dequeue can find: nothing, a data record, a barrier.
TakeNothing(w) ==
  /\ Goto(w, "cleared", "idle")
  /\ UNCHANGED <<current_epoch, in_flight, barrier_pending, epoch>>

TakeRecord(w) ==
  /\ Goto(w, "cleared", "enter")
  /\ UNCHANGED <<current_epoch, in_flight, barrier_pending, epoch>>

TakeBarrier(w) ==
  /\ current_epoch + Cardinality(Undrained) < MaxEpoch
  /\ Goto(w, "cleared", "drain")
  /\ UNCHANGED <<current_epoch, in_flight, barrier_pending, epoch>>

EnterAdd(w) ==
  /\ Goto(w, "enter", "stamp")
  /\ in_flight' = in_flight + 1
  /\ UNCHANGED <<current_epoch, barrier_pending, epoch>>

\* Mutant: enter() returns the epoch the worker had cached.
EnterLoadCached(w) ==
  /\ Goto(w, "stamp", "run")
  /\ UNCHANGED <<current_epoch, in_flight, barrier_pending, epoch>>

EnterLoad(w) ==
  /\ Goto(w, "stamp", "run")
  /\ epoch' = [epoch EXCEPT ![w] = current_epoch]
  /\ UNCHANGED <<current_epoch, in_flight, barrier_pending>>

\* Mutant: a path through the record branch that forgets exit().
ExitForgotten(w) ==
  /\ Goto(w, "run", "idle")
  /\ UNCHANGED <<current_epoch, in_flight, barrier_pending, epoch>>

Exit(w) ==
  /\ Goto(w, "run", "idle")
  /\ in_flight' = in_flight - 1
  /\ UNCHANGED <<current_epoch, barrier_pending, epoch>>

DrainAnnounce(w) ==
  /\ Goto(w, "drain", "await")
  /\ barrier_pending' = TRUE
  /\ UNCHANGED <<current_epoch, in_flight, epoch>>

\* Mutant: a drain that overlaps another does not wait itself.
DrainSeesOther(w) ==
  /\ in_flight = 0 \/ \E v \in Worker \ {w} : pc[v] \in {"await", "advance", "release"}
  /\ Goto(w, "await", "advance")
  /\ UNCHANGED <<current_epoch, in_flight, barrier_pending, epoch>>

\* The load of drain()'s wait that reads 0 and ends it.
DrainSeesZero(w) ==
  /\ in_flight = 0
  /\ Goto(w, "await", "advance")
  /\ UNCHANGED <<current_epoch, in_flight, barrier_pending, epoch>>

\* Mutant: two drains that meet count as one.
DrainAdvanceCoalesced(w) ==
  /\ Goto(w, "advance", "release")
  /\ current_epoch' = IF \E v \in Worker : pc[v] = "release"
                         THEN current_epoch ELSE current_epoch + 1
  /\ epoch' = [epoch EXCEPT ![w] = current_epoch']
  /\ UNCHANGED <<in_flight, barrier_pending>>

DrainAdvance(w) ==
  /\ Goto(w, "advance", "release")
  /\ current_epoch' = current_epoch + 1
  /\ epoch' = [epoch EXCEPT ![w] = current_epoch']
  /\ UNCHANGED <<in_flight, barrier_pending>>

DrainRelease(w) ==
  /\ Goto(w, "release", "idle")
  /\ barrier_pending' = FALSE
  /\ UNCHANGED <<current_epoch, in_flight, epoch>>

Thread(w) ==
  \/ WaitIfPending(w)
  \/ TakeNothing(w) \/ TakeRecord(w) \/ TakeBarrier(w)
  \/ EnterAdd(w) \/ EnterLoad(w) \/ Exit(w)
  \/ DrainAnnounce(w) \/ DrainSeesZero(w) \/ DrainAdvance(w) \/ DrainRelease(w)

Next == \E w \in Worker : Thread(w)

Spec == Init /\ [][Next]_barrierVars

-------------------------------------------------------------------------------

TypeOK ==
  /\ current_epoch \in 0 .. MaxEpoch
  /\ in_flight \in Nat
  /\ barrier_pending \in BOOLEAN
  /\ pc \in [Worker -> Step]
  /\ epoch \in [Worker -> 0 .. MaxEpoch]

\* in_flight always equals the number of workers between enter()'s fetch_add and
\* exit(): no increment is lost, matched twice or left behind, so the unsigned
\* counter never wraps and a drain that reads 0 really saw an empty pipeline.
InFlightCount == in_flight = Cardinality(InFlight)

\* How stale the epoch that enter() returned can become while its record is still
\* in the pipeline: only a drain that had read in_flight = 0 before this record's
\* increment can still advance the epoch, so the pool advances it at most once
\* per other worker.
EpochSkew ==
  \A w \in Worker : pc[w] = "run" =>
    current_epoch - epoch[w] <= Cardinality(Worker) - 1

\* The fact that makes EpochSkew hold: while a record is in the pipeline every
\* advance still to come is one of the drains already past its wait.
SkewBudget ==
  \A w \in Worker : pc[w] = "run" =>
    current_epoch + Cardinality(Advancing) <= epoch[w] + Cardinality(Worker) - 1

\* An epoch never goes back, advances by one at a time, and two drains never
\* return the same new epoch, however many of them overlap.
DrainsNumbered ==
  [][/\ current_epoch' \in {current_epoch, current_epoch + 1}
     /\ \A v, w \in Worker :
          (pc'[v] = "release" /\ pc'[w] = "release" /\ v # w)
             => epoch'[v] # epoch'[w]]_barrierVars
===============================================================================
