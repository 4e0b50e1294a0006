-------------------------- MODULE PipelineWorkerProofs --------------------------
(*****************************************************************************)
(* Theorems about EpochBarrier, for every finite pool of workers and every   *)
(* bound on the number of barriers, and then about PipelineWorker, which     *)
(* drives it: for every pool, every ring capacity and every stream of items. *)
(*****************************************************************************)
EXTENDS PipelineWorker, FiniteSetTheorems, SequenceTheorems, TLAPS

-------------------------------------------------------------------------------
\* The barrier.

\* The workers inside drain() that have not advanced the epoch never outnumber
\* the barriers the bound still allows.
EpochBudget == current_epoch + Cardinality(Undrained) <= MaxEpoch

\* Each drain on its way out of drain() returned an epoch of its own.
ReleaseEpochs ==
  /\ \A w \in Worker : pc[w] = "release" => epoch[w] <= current_epoch
  /\ \A v, w \in Worker :
       (pc[v] = "release" /\ pc[w] = "release" /\ v # w) => epoch[v] # epoch[w]

\* The inductive invariant.
IInv == TypeOK /\ InFlightCount /\ EpochBudget /\ SkewBudget /\ ReleaseEpochs

-------------------------------------------------------------------------------

\* The sets of workers that the invariant counts are finite, and no larger than
\* the pool.
LEMMA CountsAreNat ==
  /\ IsFiniteSet(InFlight)  /\ Cardinality(InFlight) \in Nat
  /\ IsFiniteSet(Undrained) /\ Cardinality(Undrained) \in Nat
  /\ IsFiniteSet(Advancing) /\ Cardinality(Advancing) \in Nat
  /\ Cardinality(Worker) \in Nat \ {0}
<1>1. InFlight \subseteq Worker /\ Undrained \subseteq Worker /\ Advancing \subseteq Worker
  BY DEF InFlight, Undrained, Advancing
<1>2. IsFiniteSet(InFlight) /\ IsFiniteSet(Undrained) /\ IsFiniteSet(Advancing)
  BY <1>1, FS_Subset, WorkerAssumption
<1>3. Cardinality(Worker) # 0
  BY FS_EmptySet, WorkerAssumption
<1>4. QED
  BY <1>2, <1>3, FS_CardinalityType, WorkerAssumption

\* A worker outside a set is one of the pool that the set does not count.
LEMMA AllButOne ==
  ASSUME NEW w \in Worker, pc[w] # "advance"
  PROVE  Cardinality(Advancing) <= Cardinality(Worker) - 1
<1>1. Advancing \subseteq Worker \ {w}
  BY DEF Advancing
<1>2. IsFiniteSet(Worker \ {w}) /\ Cardinality(Worker \ {w}) = Cardinality(Worker) - 1
  BY FS_RemoveElement, WorkerAssumption
<1>3. QED
  BY <1>1, <1>2, FS_Subset

\* How one worker's step from one place to another changes the three sets.
LEMMA StepChangesSets ==
  ASSUME TypeOK, NEW w \in Worker, NEW from \in Step, NEW to \in Step, Goto(w, from, to)
  PROVE  /\ InFlight'  = IF to \in {"stamp", "run"} THEN InFlight \cup {w} ELSE InFlight \ {w}
         /\ Undrained' = IF to \in {"drain", "await", "advance"}
                           THEN Undrained \cup {w} ELSE Undrained \ {w}
         /\ Advancing' = IF to = "advance" THEN Advancing \cup {w} ELSE Advancing \ {w}
         /\ w \in InFlight  <=> from \in {"stamp", "run"}
         /\ w \in Undrained <=> from \in {"drain", "await", "advance"}
         /\ w \in Advancing <=> from = "advance"
  BY DEF TypeOK, Goto, InFlight, Undrained, Advancing

\* The same for the numbers of workers in them.
LEMMA StepChangesCounts ==
  ASSUME TypeOK, NEW w \in Worker, NEW from \in Step, NEW to \in Step, Goto(w, from, to)
  PROVE  /\ Cardinality(InFlight') = Cardinality(InFlight)
              + (IF to \in {"stamp", "run"} THEN 1 ELSE 0)
              - (IF from \in {"stamp", "run"} THEN 1 ELSE 0)
         /\ Cardinality(Undrained') = Cardinality(Undrained)
              + (IF to \in {"drain", "await", "advance"} THEN 1 ELSE 0)
              - (IF from \in {"drain", "await", "advance"} THEN 1 ELSE 0)
         /\ Cardinality(Advancing') = Cardinality(Advancing)
              + (IF to = "advance" THEN 1 ELSE 0)
              - (IF from = "advance" THEN 1 ELSE 0)
<1>1. /\ Cardinality(InFlight \cup {w}) =
            IF w \in InFlight THEN Cardinality(InFlight) ELSE Cardinality(InFlight) + 1
      /\ Cardinality(InFlight \ {w}) =
            IF w \in InFlight THEN Cardinality(InFlight) - 1 ELSE Cardinality(InFlight)
  BY CountsAreNat, FS_AddElement, FS_RemoveElement
<1>2. /\ Cardinality(Undrained \cup {w}) =
            IF w \in Undrained THEN Cardinality(Undrained) ELSE Cardinality(Undrained) + 1
      /\ Cardinality(Undrained \ {w}) =
            IF w \in Undrained THEN Cardinality(Undrained) - 1 ELSE Cardinality(Undrained)
  BY CountsAreNat, FS_AddElement, FS_RemoveElement
<1>3. /\ Cardinality(Advancing \cup {w}) =
            IF w \in Advancing THEN Cardinality(Advancing) ELSE Cardinality(Advancing) + 1
      /\ Cardinality(Advancing \ {w}) =
            IF w \in Advancing THEN Cardinality(Advancing) - 1 ELSE Cardinality(Advancing)
  BY CountsAreNat, FS_AddElement, FS_RemoveElement
<1>4. /\ InFlight'  = IF to \in {"stamp", "run"} THEN InFlight \cup {w} ELSE InFlight \ {w}
      /\ Undrained' = IF to \in {"drain", "await", "advance"}
                        THEN Undrained \cup {w} ELSE Undrained \ {w}
      /\ Advancing' = IF to = "advance" THEN Advancing \cup {w} ELSE Advancing \ {w}
      /\ w \in InFlight  <=> from \in {"stamp", "run"}
      /\ w \in Undrained <=> from \in {"drain", "await", "advance"}
      /\ w \in Advancing <=> from = "advance"
  BY StepChangesSets
<1>5. /\ Cardinality(InFlight) \in Nat
      /\ Cardinality(Undrained) \in Nat
      /\ Cardinality(Advancing) \in Nat
  BY CountsAreNat
<1>6. Cardinality(InFlight') = Cardinality(InFlight)
        + (IF to \in {"stamp", "run"} THEN 1 ELSE 0)
        - (IF from \in {"stamp", "run"} THEN 1 ELSE 0)
  BY <1>1, <1>4, <1>5
<1>7. Cardinality(Undrained') = Cardinality(Undrained)
        + (IF to \in {"drain", "await", "advance"} THEN 1 ELSE 0)
        - (IF from \in {"drain", "await", "advance"} THEN 1 ELSE 0)
  BY <1>2, <1>4, <1>5
<1>8. Cardinality(Advancing') = Cardinality(Advancing)
        + (IF to = "advance" THEN 1 ELSE 0)
        - (IF from = "advance" THEN 1 ELSE 0)
  BY <1>3, <1>4, <1>5
<1>9. QED
  BY <1>6, <1>7, <1>8

-------------------------------------------------------------------------------

\* The invariant holds when the barrier has been initialised.
LEMMA InitEstablishesIInv == Init => IInv
<1> SUFFICES ASSUME Init PROVE IInv
  OBVIOUS
<1>1. InFlight = {} /\ Undrained = {}
  BY DEF Init, InFlight, Undrained
<1>2. Cardinality(InFlight) = 0 /\ Cardinality(Undrained) = 0
  BY <1>1, FS_EmptySet
<1>3. TypeOK
  <2>1. 0 \in 0 .. MaxEpoch /\ "idle" \in Step
    BY MaxEpochAssumption DEF Step
  <2>2. QED
    BY <2>1 DEF Init, TypeOK
<1>4. InFlightCount /\ EpochBudget
  BY <1>2, MaxEpochAssumption DEF Init, InFlightCount, EpochBudget
<1>5. SkewBudget /\ ReleaseEpochs
  BY DEF Init, SkewBudget, ReleaseEpochs
<1>6. QED
  BY <1>3, <1>4, <1>5 DEF IInv

\* Every atomic operation of every worker preserves the invariant.
LEMMA NextPreservesIInv == IInv /\ [Next]_barrierVars => IInv'
<1> SUFFICES ASSUME IInv, [Next]_barrierVars PROVE IInv'
  OBVIOUS
<1> USE DEF IInv
<1>1. ASSUME NEW w \in Worker, Thread(w) PROVE IInv'
  <2>1. CASE WaitIfPending(w)
    <3>1. /\ Cardinality(InFlight') = Cardinality(InFlight)
          /\ Cardinality(Undrained') = Cardinality(Undrained)
          /\ Cardinality(Advancing') = Cardinality(Advancing)
      <4>1. "idle" \in Step /\ "cleared" \in Step /\ Goto(w, "idle", "cleared")
        BY <2>1 DEF WaitIfPending, Step
      <4>2. QED
        BY <4>1, StepChangesCounts, CountsAreNat
    <3>2. TypeOK' /\ InFlightCount' /\ EpochBudget'
      BY <2>1, <3>1, CountsAreNat, MaxEpochAssumption
         DEF WaitIfPending, Goto, TypeOK, Step, InFlightCount, EpochBudget
    <3>3. SkewBudget'
      BY <2>1, <3>1, CountsAreNat, MaxEpochAssumption
         DEF WaitIfPending, Goto, TypeOK, Step, SkewBudget
    <3>4. ReleaseEpochs'
      BY <2>1, MaxEpochAssumption DEF WaitIfPending, Goto, TypeOK, Step, ReleaseEpochs
    <3>5. QED
      BY <3>2, <3>3, <3>4 DEF IInv
  <2>2. CASE TakeNothing(w)
    <3>1. /\ Cardinality(InFlight') = Cardinality(InFlight)
          /\ Cardinality(Undrained') = Cardinality(Undrained)
          /\ Cardinality(Advancing') = Cardinality(Advancing)
      <4>1. "cleared" \in Step /\ "idle" \in Step /\ Goto(w, "cleared", "idle")
        BY <2>2 DEF TakeNothing, Step
      <4>2. QED
        BY <4>1, StepChangesCounts, CountsAreNat
    <3>2. TypeOK' /\ InFlightCount' /\ EpochBudget'
      BY <2>2, <3>1, CountsAreNat, MaxEpochAssumption
         DEF TakeNothing, Goto, TypeOK, Step, InFlightCount, EpochBudget
    <3>3. SkewBudget'
      BY <2>2, <3>1, CountsAreNat, MaxEpochAssumption
         DEF TakeNothing, Goto, TypeOK, Step, SkewBudget
    <3>4. ReleaseEpochs'
      BY <2>2, MaxEpochAssumption DEF TakeNothing, Goto, TypeOK, Step, ReleaseEpochs
    <3>5. QED
      BY <3>2, <3>3, <3>4 DEF IInv
  <2>3. CASE TakeRecord(w)
    <3>1. /\ Cardinality(InFlight') = Cardinality(InFlight)
          /\ Cardinality(Undrained') = Cardinality(Undrained)
          /\ Cardinality(Advancing') = Cardinality(Advancing)
      <4>1. "cleared" \in Step /\ "enter" \in Step /\ Goto(w, "cleared", "enter")
        BY <2>3 DEF TakeRecord, Step
      <4>2. QED
        BY <4>1, StepChangesCounts, CountsAreNat
    <3>2. TypeOK' /\ InFlightCount' /\ EpochBudget'
      BY <2>3, <3>1, CountsAreNat, MaxEpochAssumption
         DEF TakeRecord, Goto, TypeOK, Step, InFlightCount, EpochBudget
    <3>3. SkewBudget'
      BY <2>3, <3>1, CountsAreNat, MaxEpochAssumption
         DEF TakeRecord, Goto, TypeOK, Step, SkewBudget
    <3>4. ReleaseEpochs'
      BY <2>3, MaxEpochAssumption DEF TakeRecord, Goto, TypeOK, Step, ReleaseEpochs
    <3>5. QED
      BY <3>2, <3>3, <3>4 DEF IInv
  <2>4. CASE TakeBarrier(w)
    <3>1. /\ Cardinality(InFlight') = Cardinality(InFlight)
          /\ Cardinality(Undrained') = Cardinality(Undrained) + 1
          /\ Cardinality(Advancing') = Cardinality(Advancing)
      <4>1. "cleared" \in Step /\ "drain" \in Step /\ Goto(w, "cleared", "drain")
        BY <2>4 DEF TakeBarrier, Step
      <4>2. QED
        BY <4>1, StepChangesCounts, CountsAreNat
    <3>2. TypeOK' /\ InFlightCount' /\ EpochBudget'
      BY <2>4, <3>1, CountsAreNat, MaxEpochAssumption
         DEF TakeBarrier, Goto, TypeOK, Step, InFlightCount, EpochBudget
    <3>3. SkewBudget'
      BY <2>4, <3>1, CountsAreNat, MaxEpochAssumption
         DEF TakeBarrier, Goto, TypeOK, Step, SkewBudget
    <3>4. ReleaseEpochs'
      BY <2>4, MaxEpochAssumption DEF TakeBarrier, Goto, TypeOK, Step, ReleaseEpochs
    <3>5. QED
      BY <3>2, <3>3, <3>4 DEF IInv
  <2>5. CASE EnterAdd(w)
    <3>1. /\ Cardinality(InFlight') = Cardinality(InFlight) + 1
          /\ Cardinality(Undrained') = Cardinality(Undrained)
          /\ Cardinality(Advancing') = Cardinality(Advancing)
      <4>1. "enter" \in Step /\ "stamp" \in Step /\ Goto(w, "enter", "stamp")
        BY <2>5 DEF EnterAdd, Step
      <4>2. QED
        BY <4>1, StepChangesCounts, CountsAreNat
    <3>2. TypeOK' /\ InFlightCount' /\ EpochBudget'
      BY <2>5, <3>1, CountsAreNat, MaxEpochAssumption
         DEF EnterAdd, Goto, TypeOK, Step, InFlightCount, EpochBudget
    <3>3. SkewBudget'
      BY <2>5, <3>1, CountsAreNat, MaxEpochAssumption
         DEF EnterAdd, Goto, TypeOK, Step, SkewBudget
    <3>4. ReleaseEpochs'
      BY <2>5, MaxEpochAssumption DEF EnterAdd, Goto, TypeOK, Step, ReleaseEpochs
    <3>5. QED
      BY <3>2, <3>3, <3>4 DEF IInv
  <2>6. CASE EnterLoad(w)
    <3>1. /\ Cardinality(InFlight') = Cardinality(InFlight)
          /\ Cardinality(Undrained') = Cardinality(Undrained)
          /\ Cardinality(Advancing') = Cardinality(Advancing)
      <4>1. "stamp" \in Step /\ "run" \in Step /\ Goto(w, "stamp", "run")
        BY <2>6 DEF EnterLoad, Step
      <4>2. QED
        BY <4>1, StepChangesCounts, CountsAreNat
    <3>2. TypeOK' /\ InFlightCount' /\ EpochBudget'
      BY <2>6, <3>1, CountsAreNat, MaxEpochAssumption
         DEF EnterLoad, Goto, TypeOK, Step, InFlightCount, EpochBudget
    <3>3. SkewBudget'
      <4>1. Cardinality(Advancing) <= Cardinality(Worker) - 1
        BY <2>6, AllButOne DEF EnterLoad, Goto
      <4>2. QED
        BY <2>6, <3>1, <4>1, CountsAreNat, MaxEpochAssumption
           DEF EnterLoad, Goto, TypeOK, Step, SkewBudget
    <3>4. ReleaseEpochs'
      BY <2>6, MaxEpochAssumption DEF EnterLoad, Goto, TypeOK, Step, ReleaseEpochs
    <3>5. QED
      BY <3>2, <3>3, <3>4 DEF IInv
  <2>7. CASE Exit(w)
    <3>1. /\ Cardinality(InFlight') = Cardinality(InFlight) - 1
          /\ Cardinality(Undrained') = Cardinality(Undrained)
          /\ Cardinality(Advancing') = Cardinality(Advancing)
      <4>1. "run" \in Step /\ "idle" \in Step /\ Goto(w, "run", "idle")
        BY <2>7 DEF Exit, Step
      <4>2. QED
        BY <4>1, StepChangesCounts, CountsAreNat
    <3>2. TypeOK' /\ InFlightCount' /\ EpochBudget'
      <4>1. w \in InFlight
        BY <2>7 DEF Exit, Goto, InFlight
      <4>2. in_flight # 0
        BY <4>1, CountsAreNat, FS_EmptySet DEF InFlightCount
      <4>3. QED
        BY <2>7, <3>1, <4>2, CountsAreNat, MaxEpochAssumption
           DEF Exit, Goto, TypeOK, Step, InFlightCount, EpochBudget
    <3>3. SkewBudget'
      BY <2>7, <3>1, CountsAreNat, MaxEpochAssumption
         DEF Exit, Goto, TypeOK, Step, SkewBudget
    <3>4. ReleaseEpochs'
      BY <2>7, MaxEpochAssumption DEF Exit, Goto, TypeOK, Step, ReleaseEpochs
    <3>5. QED
      BY <3>2, <3>3, <3>4 DEF IInv
  <2>8. CASE DrainAnnounce(w)
    <3>1. /\ Cardinality(InFlight') = Cardinality(InFlight)
          /\ Cardinality(Undrained') = Cardinality(Undrained)
          /\ Cardinality(Advancing') = Cardinality(Advancing)
      <4>1. "drain" \in Step /\ "await" \in Step /\ Goto(w, "drain", "await")
        BY <2>8 DEF DrainAnnounce, Step
      <4>2. QED
        BY <4>1, StepChangesCounts, CountsAreNat
    <3>2. TypeOK' /\ InFlightCount' /\ EpochBudget'
      BY <2>8, <3>1, CountsAreNat, MaxEpochAssumption
         DEF DrainAnnounce, Goto, TypeOK, Step, InFlightCount, EpochBudget
    <3>3. SkewBudget'
      BY <2>8, <3>1, CountsAreNat, MaxEpochAssumption
         DEF DrainAnnounce, Goto, TypeOK, Step, SkewBudget
    <3>4. ReleaseEpochs'
      BY <2>8, MaxEpochAssumption DEF DrainAnnounce, Goto, TypeOK, Step, ReleaseEpochs
    <3>5. QED
      BY <3>2, <3>3, <3>4 DEF IInv
  <2>9. CASE DrainSeesZero(w)
    <3>1. /\ Cardinality(InFlight') = Cardinality(InFlight)
          /\ Cardinality(Undrained') = Cardinality(Undrained)
          /\ Cardinality(Advancing') = Cardinality(Advancing) + 1
      <4>1. "await" \in Step /\ "advance" \in Step /\ Goto(w, "await", "advance")
        BY <2>9 DEF DrainSeesZero, Step
      <4>2. QED
        BY <4>1, StepChangesCounts, CountsAreNat
    <3>2. TypeOK' /\ InFlightCount' /\ EpochBudget'
      BY <2>9, <3>1, CountsAreNat, MaxEpochAssumption
         DEF DrainSeesZero, Goto, TypeOK, Step, InFlightCount, EpochBudget
    <3>3. SkewBudget'
      <4>1. InFlight = {}
        BY <2>9, CountsAreNat, FS_EmptySet DEF DrainSeesZero, InFlightCount
      <4>2. \A v \in Worker : pc'[v] # "run"
        BY <2>9, <4>1 DEF DrainSeesZero, Goto, TypeOK, InFlight
      <4>3. QED
        BY <4>2 DEF SkewBudget
    <3>4. ReleaseEpochs'
      BY <2>9, MaxEpochAssumption DEF DrainSeesZero, Goto, TypeOK, Step, ReleaseEpochs
    <3>5. QED
      BY <3>2, <3>3, <3>4 DEF IInv
  <2>10. CASE DrainAdvance(w)
    <3>1. /\ Cardinality(InFlight') = Cardinality(InFlight)
          /\ Cardinality(Undrained') = Cardinality(Undrained) - 1
          /\ Cardinality(Advancing') = Cardinality(Advancing) - 1
      <4>1. "advance" \in Step /\ "release" \in Step /\ Goto(w, "advance", "release")
        BY <2>10 DEF DrainAdvance, Step
      <4>2. QED
        BY <4>1, StepChangesCounts, CountsAreNat
    <3>2. TypeOK' /\ InFlightCount' /\ EpochBudget'
      <4>1. w \in Undrained
        BY <2>10 DEF DrainAdvance, Goto, Undrained
      <4>2. Cardinality(Undrained) # 0
        BY <4>1, CountsAreNat, FS_EmptySet
      <4>3. current_epoch + 1 \in 0 .. MaxEpoch
        BY <4>2, CountsAreNat, MaxEpochAssumption DEF TypeOK, EpochBudget
      <4>4. QED
        BY <2>10, <3>1, <4>3, CountsAreNat, MaxEpochAssumption
           DEF DrainAdvance, Goto, TypeOK, Step, InFlightCount, EpochBudget
    <3>3. SkewBudget'
      BY <2>10, <3>1, CountsAreNat, MaxEpochAssumption
         DEF DrainAdvance, Goto, TypeOK, Step, SkewBudget
    <3>4. ReleaseEpochs'
      BY <2>10, MaxEpochAssumption DEF DrainAdvance, Goto, TypeOK, Step, ReleaseEpochs
    <3>5. QED
      BY <3>2, <3>3, <3>4 DEF IInv
  <2>11. CASE DrainRelease(w)
    <3>1. /\ Cardinality(InFlight') = Cardinality(InFlight)
          /\ Cardinality(Undrained') = Cardinality(Undrained)
          /\ Cardinality(Advancing') = Cardinality(Advancing)
      <4>1. "release" \in Step /\ "idle" \in Step /\ Goto(w, "release", "idle")
        BY <2>11 DEF DrainRelease, Step
      <4>2. QED
        BY <4>1, StepChangesCounts, CountsAreNat
    <3>2. TypeOK' /\ InFlightCount' /\ EpochBudget'
      BY <2>11, <3>1, CountsAreNat, MaxEpochAssumption
         DEF DrainRelease, Goto, TypeOK, Step, InFlightCount, EpochBudget
    <3>3. SkewBudget'
      BY <2>11, <3>1, CountsAreNat, MaxEpochAssumption
         DEF DrainRelease, Goto, TypeOK, Step, SkewBudget
    <3>4. ReleaseEpochs'
      BY <2>11, MaxEpochAssumption DEF DrainRelease, Goto, TypeOK, Step, ReleaseEpochs
    <3>5. QED
      BY <3>2, <3>3, <3>4 DEF IInv

  <2>12. QED
    BY <1>1, <2>1, <2>2, <2>3, <2>4, <2>5, <2>6, <2>7, <2>8, <2>9, <2>10, <2>11
       DEF Thread
<1>2. CASE UNCHANGED barrierVars
  BY <1>2 DEF barrierVars, TypeOK, InFlightCount, EpochBudget, SkewBudget, ReleaseEpochs,
              InFlight, Undrained, Advancing
<1>3. QED
  BY <1>1, <1>2 DEF Next

-------------------------------------------------------------------------------

\* The inductive invariant holds throughout every execution.
LEMMA Invariance == Spec => []IInv
  BY InitEstablishesIInv, NextPreservesIInv, PTL DEF Spec

\* Type correctness: the epoch never passes the number of barriers, and the
\* counter that exit() decrements is never decremented below zero.
THEOREM TypeCorrect == Spec => []TypeOK
<1>1. IInv => TypeOK
  BY DEF IInv
<1>2. QED
  BY <1>1, Invariance, PTL

\* in_flight is at all times the number of workers between enter() and exit().
THEOREM InFlightIsExact == Spec => []InFlightCount
<1>1. IInv => InFlightCount
  BY DEF IInv
<1>2. QED
  BY <1>1, Invariance, PTL

\* While a record is in the pipeline the epoch runs ahead of its tag by at most
\* one per other worker, however many barriers arrive meanwhile.
THEOREM SkewIsBounded == Spec => []EpochSkew
<1>1. IInv => EpochSkew
  <2> SUFFICES ASSUME IInv, NEW w \in Worker, pc[w] = "run"
               PROVE  current_epoch - epoch[w] <= Cardinality(Worker) - 1
    BY DEF EpochSkew
  <2>1. current_epoch + Cardinality(Advancing) <= epoch[w] + Cardinality(Worker) - 1
    BY DEF IInv, SkewBudget
  <2>2. QED
    BY <2>1, CountsAreNat, MaxEpochAssumption DEF IInv, TypeOK
<1>2. QED
  BY <1>1, Invariance, PTL

\* The epoch grows by one at a time, and no two overlapping drains return the same
\* new epoch.
THEOREM DrainsAreNumbered == Spec => DrainsNumbered
<1>1. IInv /\ IInv' /\ [Next]_barrierVars
        => [/\ current_epoch' \in {current_epoch, current_epoch + 1}
            /\ \A v, w \in Worker :
                 (pc'[v] = "release" /\ pc'[w] = "release" /\ v # w)
                   => epoch'[v] # epoch'[w]]_barrierVars
  <2> SUFFICES ASSUME IInv', Next
               PROVE  /\ current_epoch' \in {current_epoch, current_epoch + 1}
                      /\ \A v, w \in Worker :
                           (pc'[v] = "release" /\ pc'[w] = "release" /\ v # w)
                             => epoch'[v] # epoch'[w]
    OBVIOUS
  <2>1. current_epoch' \in {current_epoch, current_epoch + 1}
    BY DEF Next, Thread, WaitIfPending, TakeNothing, TakeRecord, TakeBarrier, EnterAdd,
           EnterLoad, Exit, DrainAnnounce, DrainSeesZero, DrainAdvance, DrainRelease
  <2>2. QED
    BY <2>1 DEF IInv, ReleaseEpochs
<1>2. QED
  BY <1>1, Invariance, PTL DEF Spec, DrainsNumbered

-------------------------------------------------------------------------------
\* The pool.

\* How a worker's place in its loop, its place in the barrier's protocol and the
\* item in its hand go together.
Control ==
  \A w \in Worker :
    /\ loop[w] = "body" <=> pc[w] # "idle"
    /\ item[w] # 0 <=> (loop[w] = "free" \/ pc[w] \notin {"idle", "cleared"})
    /\ pc[w] \in {"enter", "stamp", "run"} => log[item[w]].kind = "data"
    /\ pc[w] \in {"drain", "await", "advance", "release"} => log[item[w]].kind = "barrier"

\* barrier_pending is never set without a worker inside drain() that will clear it.
PendingHasDrain ==
  barrier_pending => \E w \in Worker : pc[w] \in {"await", "advance", "release"}

\* The part of the invariant that speaks of the barrier's state only comes from
\* EpochBarrier; these parts are the pool's own.
PoolState ==
  /\ log \in Seq(Item)
  /\ head \in 0 .. Len(log)
  /\ Len(log) - head <= Capacity
  /\ stop_requested \in BOOLEAN
  /\ loop \in [Worker -> LoopStep]
  /\ item \in [Worker -> 0 .. head]
  /\ freed \subseteq 1 .. head

PInv == IInv /\ PoolState /\ Control /\ PendingHasDrain /\ ItemOwnership /\ EpochLedger /\ TagNotEarly

-------------------------------------------------------------------------------

\* The pool uses the barrier as its protocol prescribes: every step of a worker is
\* a step of EpochBarrier or leaves the barrier's state alone.
LEMMA StepImplementsBarrier == [PoolNext]_vars => [Next]_barrierVars
<1> SUFFICES ASSUME [PoolNext]_vars PROVE [Next]_barrierVars
  OBVIOUS
<1>1. ASSUME NEW kind \in Kind, NEW seq \in SeqNum, Produce(kind, seq)
      PROVE  UNCHANGED barrierVars
  BY <1>1 DEF Produce
<1>2. CASE RequestStop
  BY <1>2 DEF RequestStop
<1>3. ASSUME NEW w \in Worker, WorkerThread(w)
      PROVE  Thread(w) \/ UNCHANGED barrierVars
  BY <1>3 DEF WorkerThread, CheckStop, PassBarrier, DequeueNothing, DequeueItem, InBarrier,
              FinishRecord, FinishDrain, FreeItem, Thread
<1>4. CASE UNCHANGED vars
  BY <1>4 DEF vars
<1>5. QED
  BY <1>1, <1>2, <1>3, <1>4 DEF PoolNext, PoolEnded, Next

\* So every theorem about the barrier holds of the pool: pipeline_worker.c keeps to
\* the calling protocol that epoch_barrier.h states.
THEOREM PoolImplementsBarrier == PoolSpec => Spec
<1>1. PoolInit => Init
  BY DEF PoolInit
<1>2. QED
  BY <1>1, StepImplementsBarrier, PTL DEF PoolSpec, Spec

-------------------------------------------------------------------------------

\* Items already on the ring's history never change: it only grows at its end.
LogGrows ==
  /\ log' \in Seq(Item)
  /\ Len(log') \in {Len(log), Len(log) + 1}
  /\ \A j \in 1 .. Len(log) : log'[j] = log[j]

\* The ring's log only ever grows, by one item at its end.
LEMMA StepGrowsLog ==
  ASSUME PoolState, [PoolNext]_vars
  PROVE  LogGrows
<1> USE DEF PoolState
<1>1. ASSUME NEW kind \in Kind, NEW seq \in SeqNum, Produce(kind, seq)
      PROVE  LogGrows
  <2>1. [kind |-> kind, seq |-> seq] \in Item
    BY DEF Item
  <2>2. QED
    BY <1>1, <2>1, AppendProperties DEF Produce, Enqueue, LogGrows
<1>2. CASE log' = log
  BY <1>2 DEF LogGrows
<1>3. RequestStop \/ (\E w \in Worker : WorkerThread(w)) \/ UNCHANGED vars => log' = log
  BY DEF RequestStop, WorkerThread, CheckStop, PassBarrier, DequeueNothing, DequeueItem,
         InBarrier, FinishRecord, FinishDrain, FreeItem, vars, poolVars
<1>4. QED
  BY <1>1, <1>2, <1>3 DEF PoolNext, PoolEnded

\* So the barriers among the first n items stay the same.
LEMMA BarriersStable ==
  ASSUME PoolState, LogGrows, NEW n \in Int, n <= Len(log)
  PROVE  BarriersIn(n)' = BarriersIn(n)
<1>1. \A j \in 1 .. n : j \in 1 .. Len(log)
  BY DEF PoolState
<1>2. QED
  BY <1>1 DEF BarriersIn, LogGrows

\* The barriers among the first n items are finitely many, and more items hold no
\* fewer of them.
LEMMA BarriersFinite ==
  ASSUME NEW n \in Int
  PROVE  IsFiniteSet(BarriersIn(n)) /\ Cardinality(BarriersIn(n)) \in Nat
<1>1. IsFiniteSet(1 .. n)
  BY FS_Interval
<1>2. BarriersIn(n) \subseteq 1 .. n
  BY DEF BarriersIn
<1>3. QED
  BY <1>1, <1>2, FS_Subset, FS_CardinalityType

\* The number of barriers ahead grows with the position on the ring.
LEMMA BarriersMonotone ==
  ASSUME NEW m \in Int, NEW n \in Int, m <= n
  PROVE  Cardinality(BarriersIn(m)) <= Cardinality(BarriersIn(n))
<1>1. BarriersIn(m) \subseteq BarriersIn(n)
  BY DEF BarriersIn
<1>2. QED
  BY <1>1, BarriersFinite, FS_Subset

\* One more item is one more barrier if it is a barrier.
LEMMA BarriersStep ==
  ASSUME NEW n \in Nat
  PROVE  Cardinality(BarriersIn(n + 1)) =
           Cardinality(BarriersIn(n)) + (IF log[n + 1].kind = "barrier" THEN 1 ELSE 0)
<1>1. CASE log[n + 1].kind = "barrier"
  <2>1. BarriersIn(n + 1) = BarriersIn(n) \cup {n + 1} /\ n + 1 \notin BarriersIn(n)
    BY <1>1 DEF BarriersIn
  <2>2. QED
    BY <1>1, <2>1, BarriersFinite, FS_AddElement
<1>2. CASE log[n + 1].kind # "barrier"
  <2>1. BarriersIn(n + 1) = BarriersIn(n)
    BY <1>2 DEF BarriersIn
  <2>2. QED
    BY <1>2, <2>1, BarriersFinite
<1>3. QED
  BY <1>1, <1>2

-------------------------------------------------------------------------------

\* Nothing has happened when the pool starts.
LEMMA InitEstablishesPInv == PoolInit => PInv
<1> SUFFICES ASSUME PoolInit PROVE PInv
  OBVIOUS
<1>1. IInv
  BY InitEstablishesIInv DEF PoolInit
<1>2. PoolState
  <2>1. Len(log) = 0 /\ log \in Seq(Item)
    BY DEF PoolInit
  <2>2. head \in 0 .. Len(log) /\ 0 \in 0 .. head /\ "top" \in LoopStep /\ Len(log) - head <= Capacity
    BY <2>1, CapacityAssumption DEF PoolInit, LoopStep
  <2>3. QED
    BY <2>1, <2>2 DEF PoolInit, PoolState
<1>3. Control /\ PendingHasDrain /\ TagNotEarly
  BY DEF PoolInit, Init, Control, PendingHasDrain, TagNotEarly
<1>4. ItemOwnership
  BY DEF PoolInit, ItemOwnership, Held
<1>5. EpochLedger
  <2>1. Undrained = {} /\ BarriersIn(head) = {}
    BY DEF PoolInit, Init, Undrained, BarriersIn
  <2>2. QED
    BY <2>1, FS_EmptySet DEF PoolInit, Init, EpochLedger
<1>6. QED
  BY <1>1, <1>2, <1>3, <1>4, <1>5 DEF PInv

\* The pool's own types.
LEMMA StepPreservesState ==
  ASSUME PInv, [PoolNext]_vars
  PROVE  PoolState'
<1> USE DEF PInv, PoolState, LoopStep
<1>0. LogGrows
  BY StepGrowsLog
<1>1. ASSUME NEW kind \in Kind, NEW seq \in SeqNum, Produce(kind, seq)
      PROVE  PoolState'
  BY <1>1, <1>0, CapacityAssumption, AppendProperties DEF Produce, Enqueue, RingFull, LogGrows
<1>2. CASE RequestStop
  BY <1>2 DEF RequestStop
<1>3. ASSUME NEW w \in Worker, CheckStop(w) \/ PassBarrier(w) \/ DequeueNothing(w)
                               \/ InBarrier(w) \/ FinishRecord(w) \/ FinishDrain(w)
      PROVE  PoolState'
  BY <1>3 DEF CheckStop, PassBarrier, DequeueNothing, InBarrier, FinishRecord, FinishDrain,
              LoopTo, poolVars
<1>4. ASSUME NEW w \in Worker, DequeueItem(w)
      PROVE  PoolState'
  <2>1. head + 1 \in 0 .. Len(log)
    BY <1>4 DEF DequeueItem, OnRing
  <2>2. QED
    BY <1>4, <2>1, CapacityAssumption DEF DequeueItem
<1>5. ASSUME NEW w \in Worker, FreeItem(w)
      PROVE  PoolState'
  <2>1. item[w] \in 1 .. head
    BY <1>5 DEF FreeItem, LoopTo, Control
  <2>2. 0 \in 0 .. head
    OBVIOUS
  <2>3. QED
    BY <1>5, <2>1, <2>2 DEF FreeItem, LoopTo
<1>6. CASE UNCHANGED vars
  BY <1>6 DEF vars, poolVars
<1>7. QED
  BY <1>1, <1>2, <1>3, <1>4, <1>5, <1>6 DEF PoolNext, PoolEnded, WorkerThread

\* A worker's place in the loop, in the barrier and the item in its hand keep
\* going together.
LEMMA StepPreservesControl ==
  ASSUME PInv, [PoolNext]_vars
  PROVE  Control' /\ PendingHasDrain'
<1> USE DEF PInv, Control, PendingHasDrain
<1>0. LogGrows /\ PoolState /\ PoolState' /\ TypeOK
  BY StepGrowsLog, StepPreservesState DEF IInv
<1>1. \A v \in Worker : item[v] # 0 => item[v] \in 1 .. Len(log)
  BY <1>0 DEF PoolState
<1>2. \A v \in Worker : item[v] # 0 => log'[item[v]] = log[item[v]]
  BY <1>0, <1>1 DEF LogGrows
<1>3. ASSUME NEW kind \in Kind, NEW seq \in SeqNum, Produce(kind, seq)
      PROVE  Control' /\ PendingHasDrain'
  BY <1>0, <1>2, <1>3 DEF Produce, barrierVars, TypeOK, Step
<1>4. CASE RequestStop
  BY <1>4 DEF RequestStop, barrierVars
<1>5. ASSUME NEW w \in Worker, CheckStop(w) \/ FreeItem(w)
      PROVE  Control' /\ PendingHasDrain'
  BY <1>5, <1>0 DEF CheckStop, FreeItem, LoopTo, barrierVars, PoolState
<1>6. ASSUME NEW w \in Worker, PassBarrier(w) \/ DequeueNothing(w)
      PROVE  Control' /\ PendingHasDrain'
  BY <1>6, <1>0 DEF PassBarrier, DequeueNothing, LoopTo, WaitIfPending, TakeNothing, Goto,
                    PoolState, TypeOK
<1>7. ASSUME NEW w \in Worker, DequeueItem(w)
      PROVE  Control' /\ PendingHasDrain'
  <2>1. head + 1 \in 1 .. Len(log)
    BY <1>0, <1>7 DEF DequeueItem, OnRing, PoolState
  <2>2. log[head + 1].kind \in {"data", "barrier"}
    <3>1. log[head + 1] \in Item
      BY <2>1, ElementOfSeq DEF PoolState
    <3>2. QED
      BY <3>1 DEF Item, Kind
  <2>3. PICK n \in Nat \ {0} : n = head + 1
    BY <2>1
  <2>4. /\ loop[w] = "body" /\ pc[w] = "cleared" /\ item' = [item EXCEPT ![w] = n]
        /\ pc' = [pc EXCEPT ![w] = IF IsData(n) THEN "enter" ELSE "drain"]
        /\ UNCHANGED <<log, loop, barrier_pending>>
    BY <1>7, <2>3 DEF DequeueItem, TakeRecord, TakeBarrier, Goto
  <2>5. CASE IsData(n)
    BY <1>0, <2>5, <2>4 DEF IsData, PoolState, TypeOK
  <2>6. CASE ~IsData(n)
    BY <1>0, <2>2, <2>6, <2>3, <2>4 DEF IsData, PoolState, TypeOK
  <2>7. QED
    BY <2>5, <2>6
<1>8. ASSUME NEW w \in Worker, InBarrier(w)
      PROVE  Control' /\ PendingHasDrain'
  <2> USE <1>0, <1>8 DEF InBarrier, poolVars, Goto, PoolState, TypeOK
  <2>1. CASE EnterAdd(w)
    BY <2>1 DEF EnterAdd
  <2>2. CASE EnterLoad(w)
    BY <2>2 DEF EnterLoad
  <2>3. CASE DrainAnnounce(w)
    BY <2>3 DEF DrainAnnounce
  <2>4. CASE DrainSeesZero(w)
    BY <2>4 DEF DrainSeesZero
  <2>5. CASE DrainAdvance(w)
    BY <2>5 DEF DrainAdvance
  <2>6. QED
    BY <2>1, <2>2, <2>3, <2>4, <2>5
<1>9. ASSUME NEW w \in Worker, FinishRecord(w) \/ FinishDrain(w)
      PROVE  Control' /\ PendingHasDrain'
  BY <1>9, <1>0 DEF FinishRecord, FinishDrain, Exit, DrainRelease, LoopTo, Goto, PoolState, TypeOK
<1>10. CASE UNCHANGED vars
  BY <1>10 DEF vars, poolVars, barrierVars
<1>11. QED
  BY <1>3, <1>4, <1>5, <1>6, <1>7, <1>8, <1>9, <1>10 DEF PoolNext, PoolEnded, WorkerThread

\* No item is leaked, shared or freed twice.
LEMMA StepPreservesOwnership ==
  ASSUME PInv, [PoolNext]_vars
  PROVE  ItemOwnership'
<1> USE DEF PInv, ItemOwnership, Held
<1>0. item \in [Worker -> 0 .. head] /\ head \in Nat
  BY DEF PoolState
<1>1. ASSUME NEW kind \in Kind, NEW seq \in SeqNum, Produce(kind, seq)
      PROVE  ItemOwnership'
  BY <1>1 DEF Produce
<1>2. CASE RequestStop
  BY <1>2 DEF RequestStop
<1>3. ASSUME NEW w \in Worker, CheckStop(w) \/ PassBarrier(w) \/ DequeueNothing(w)
                               \/ InBarrier(w) \/ FinishRecord(w) \/ FinishDrain(w)
      PROVE  ItemOwnership'
  BY <1>3 DEF CheckStop, PassBarrier, DequeueNothing, InBarrier, FinishRecord, FinishDrain,
              poolVars
<1>4. ASSUME NEW w \in Worker, DequeueItem(w)
      PROVE  ItemOwnership'
  <2>1. item[w] = 0
    <3>1. pc[w] = "cleared" /\ loop[w] = "body"
      BY <1>4 DEF DequeueItem, TakeRecord, TakeBarrier, Goto
    <3>2. QED
      BY <3>1 DEF Control
  <2>2. head' = head + 1 /\ item' = [item EXCEPT ![w] = head + 1] /\ freed' = freed
    BY <1>4 DEF DequeueItem
  <2>3. \A v \in Worker : item'[v] = IF v = w THEN head + 1 ELSE item[v]
    BY <1>0, <2>2
  <2>4. \A u, v \in Worker : u # v /\ item'[u] # 0 => item'[u] # item'[v]
    BY <1>0, <2>3
  <2>5. Held' = Held \cup {head + 1}
    BY <1>0, <2>1, <2>3
  <2>6. 1 .. head + 1 = (1 .. head) \cup {head + 1} /\ head + 1 \notin 1 .. head
    BY <1>0
  <2>7. freed' \cup Held' = 1 .. head' /\ freed' \cap Held' = {}
    BY <2>2, <2>5, <2>6
  <2>8. QED
    BY <2>4, <2>7
<1>5. ASSUME NEW w \in Worker, FreeItem(w)
      PROVE  ItemOwnership'
  <2>1. item[w] # 0
    BY <1>5 DEF FreeItem, LoopTo, Control
  <2>2. head' = head /\ item' = [item EXCEPT ![w] = 0] /\ freed' = freed \cup {item[w]}
    BY <1>5 DEF FreeItem
  <2>3. \A v \in Worker : item'[v] = IF v = w THEN 0 ELSE item[v]
    BY <1>0, <2>2
  <2>4. Held' = Held \ {item[w]} /\ item[w] \in Held
    BY <2>1, <2>3
  <2>5. QED
    BY <2>2, <2>3, <2>4
<1>6. CASE UNCHANGED vars
  BY <1>6 DEF vars, poolVars
<1>7. QED
  BY <1>1, <1>2, <1>3, <1>4, <1>5, <1>6 DEF PoolNext, PoolEnded, WorkerThread

\* The epoch accounts for every barrier taken off the ring.
LEMMA StepPreservesLedger ==
  ASSUME PInv, [PoolNext]_vars
  PROVE  EpochLedger'
<1> USE DEF PInv, IInv, EpochLedger
<1>0. LogGrows /\ head \in Nat /\ head <= Len(log) /\ Len(log) \in Nat
  BY StepGrowsLog DEF PoolState
<1>1. head' = head => Cardinality(BarriersIn(head))' = Cardinality(BarriersIn(head))
  <2> SUFFICES ASSUME head' = head PROVE BarriersIn(head)' = BarriersIn(head)
    OBVIOUS
  <2>1. \A j \in 1 .. head : j \in 1 .. Len(log)
    BY <1>0
  <2>2. QED
    BY <2>1, <1>0 DEF BarriersIn, LogGrows
<1>2. /\ current_epoch \in Nat
      /\ Cardinality(Undrained) \in Nat
      /\ Cardinality(BarriersIn(head)) \in Nat
  BY <1>0, CountsAreNat, BarriersFinite, MaxEpochAssumption DEF TypeOK
<1>3. CASE UNCHANGED barrierVars /\ head' = head
  <2>1. current_epoch' = current_epoch /\ Undrained' = Undrained
    BY <1>3 DEF barrierVars, Undrained
  <2>2. QED
    BY <1>1, <1>3, <2>1
<1>4. ASSUME NEW kind \in Kind, NEW seq \in SeqNum, Produce(kind, seq)
      PROVE  EpochLedger'
  BY <1>3, <1>4 DEF Produce
<1>5. ASSUME NEW w \in Worker, CheckStop(w) \/ FreeItem(w)
      PROVE  EpochLedger'
  BY <1>3, <1>5 DEF CheckStop, FreeItem
<1>6. ASSUME NEW w \in Worker, NEW from \in Step, NEW to \in Step, Goto(w, from, to),
             head' = head, current_epoch' = current_epoch,
             from \in {"drain", "await", "advance"} <=> to \in {"drain", "await", "advance"}
      PROVE  EpochLedger'
  <2>1. Cardinality(Undrained') = Cardinality(Undrained)
    BY <1>2, <1>6, StepChangesCounts
  <2>2. QED
    BY <1>1, <1>6, <2>1
<1>7. ASSUME NEW w \in Worker, DequeueItem(w)
      PROVE  EpochLedger'
  <2>1. head' = head + 1 /\ head + 1 \in 1 .. Len(log) /\ log' = log
    BY <1>0, <1>7 DEF DequeueItem, OnRing
  <2>2. Cardinality(BarriersIn(head))' = Cardinality(BarriersIn(head + 1))
    BY <2>1 DEF BarriersIn
  <2>3. CASE IsData(head + 1)
    <3>1. TakeRecord(w) /\ log[head + 1].kind # "barrier"
      BY <1>7, <2>3 DEF DequeueItem, IsData
    <3>2. Goto(w, "cleared", "enter") /\ "cleared" \in Step /\ "enter" \in Step
      BY <3>1 DEF TakeRecord, Step
    <3>3. Cardinality(Undrained') = Cardinality(Undrained) /\ current_epoch' = current_epoch
      BY <1>2, <3>1, <3>2, StepChangesCounts DEF TakeRecord
    <3>4. Cardinality(BarriersIn(head + 1)) = Cardinality(BarriersIn(head))
      BY <1>0, <1>2, <3>1, BarriersStep
    <3>5. QED
      BY <2>2, <3>3, <3>4
  <2>4. CASE ~IsData(head + 1)
    <3>1. TakeBarrier(w)
      BY <1>7, <2>4 DEF DequeueItem
    <3>2. log[head + 1].kind = "barrier"
      <4>1. log[head + 1] \in Item
        BY <2>1, ElementOfSeq DEF PoolState
      <4>2. QED
        BY <4>1, <2>4 DEF IsData, Item, Kind
    <3>3. Goto(w, "cleared", "drain") /\ "cleared" \in Step /\ "drain" \in Step
      BY <3>1 DEF TakeBarrier, Step
    <3>4. Cardinality(Undrained') = Cardinality(Undrained) + 1 /\ current_epoch' = current_epoch
      BY <1>2, <3>1, <3>3, StepChangesCounts DEF TakeBarrier
    <3>5. Cardinality(BarriersIn(head + 1)) = Cardinality(BarriersIn(head)) + 1
      BY <1>0, <3>2, BarriersStep
    <3>6. QED
      BY <1>2, <2>2, <3>4, <3>5
  <2>5. QED
    BY <2>3, <2>4
<1>8. ASSUME NEW w \in Worker, PassBarrier(w) \/ DequeueNothing(w) \/ FinishRecord(w)
                               \/ FinishDrain(w)
      PROVE  EpochLedger'
  <2>1. \E from, to \in Step :
           /\ Goto(w, from, to)
           /\ from \notin {"drain", "await", "advance"} /\ to \notin {"drain", "await", "advance"}
    BY <1>8 DEF PassBarrier, WaitIfPending, DequeueNothing, TakeNothing, FinishRecord, Exit,
                FinishDrain, DrainRelease, Step
  <2>2. head' = head /\ current_epoch' = current_epoch
    BY <1>8 DEF PassBarrier, WaitIfPending, DequeueNothing, TakeNothing, FinishRecord, Exit,
                FinishDrain, DrainRelease
  <2>3. QED
    BY <1>6, <2>1, <2>2
<1>9. ASSUME NEW w \in Worker, InBarrier(w)
       PROVE  EpochLedger'
  <2>0. head' = head
    BY <1>9 DEF InBarrier, poolVars
  <2>1. CASE EnterAdd(w) \/ EnterLoad(w) \/ DrainAnnounce(w) \/ DrainSeesZero(w)
    <3>1. \E from, to \in Step :
             /\ Goto(w, from, to)
             /\ from \in {"drain", "await", "advance"} <=> to \in {"drain", "await", "advance"}
      BY <2>1 DEF EnterAdd, EnterLoad, DrainAnnounce, DrainSeesZero, Step
    <3>2. current_epoch' = current_epoch
      BY <2>1 DEF EnterAdd, EnterLoad, DrainAnnounce, DrainSeesZero
    <3>3. QED
      BY <1>6, <2>0, <3>1, <3>2
  <2>2. CASE DrainAdvance(w)
    <3>1. Goto(w, "advance", "release") /\ "advance" \in Step /\ "release" \in Step
      BY <2>2 DEF DrainAdvance, Step
    <3>2. Cardinality(Undrained') = Cardinality(Undrained) - 1
      BY <1>2, <3>1, StepChangesCounts
    <3>3. current_epoch' = current_epoch + 1
      BY <2>2 DEF DrainAdvance
    <3>4. QED
      BY <1>1, <1>2, <2>0, <3>2, <3>3
  <2>3. QED
    BY <1>9, <2>1, <2>2 DEF InBarrier
<1>10. CASE RequestStop \/ UNCHANGED vars
  BY <1>3, <1>10 DEF RequestStop, vars, poolVars
<1>11. QED
  BY <1>4, <1>5, <1>7, <1>8, <1>9, <1>10 DEF PoolNext, PoolEnded, WorkerThread

\* The epoch a record was tagged with stays close to the one it belongs to: what
\* one step does to a record that is in the pipeline after it.
LEMMA StepKeepsRecord ==
  ASSUME PInv, [PoolNext]_vars, NEW v \in Worker, pc'[v] = "run"
  PROVE  /\ item[v] \in 1 .. head
         /\ item'[v] = item[v]
         /\ TrueEpoch(item[v])' = TrueEpoch(item[v])
         /\ \/ pc[v] = "run" /\ epoch'[v] = epoch[v]
            \/ pc[v] = "stamp" /\ epoch'[v] = current_epoch
<1> USE DEF PInv
<1>0. /\ LogGrows /\ PoolState /\ item \in [Worker -> 0 .. head]
      /\ head \in Nat /\ Len(log) \in Nat /\ head <= Len(log)
      /\ pc \in [Worker -> Step] /\ epoch \in [Worker -> 0 .. MaxEpoch]
  BY StepGrowsLog DEF IInv, PoolState, TypeOK
<1>1. /\ item'[v] = item[v]
      /\ \/ pc[v] = "run" /\ epoch'[v] = epoch[v]
         \/ pc[v] = "stamp" /\ epoch'[v] = current_epoch
  <2>1. CASE UNCHANGED barrierVars /\ (item'[v] = item[v] \/ loop[v] = "free")
    BY <2>1 DEF barrierVars, Control
  <2>2. (\E kind \in Kind, seq \in SeqNum : Produce(kind, seq))
          \/ RequestStop \/ UNCHANGED vars => UNCHANGED barrierVars /\ item' = item
    BY DEF Produce, RequestStop, vars, poolVars
  <2>3. ASSUME NEW w \in Worker, CheckStop(w) \/ FreeItem(w)
        PROVE  UNCHANGED barrierVars /\ (item'[v] = item[v] \/ loop[v] = "free")
    BY <1>0, <2>3 DEF CheckStop, FreeItem, LoopTo
  <2>4. ASSUME NEW w \in Worker, PassBarrier(w) \/ DequeueNothing(w) \/ FinishRecord(w)
                                 \/ FinishDrain(w)
        PROVE  pc[v] = "run" /\ epoch' = epoch /\ item' = item
    BY <1>0, <2>4 DEF PassBarrier, WaitIfPending, DequeueNothing, TakeNothing, FinishRecord,
                      Exit, FinishDrain, DrainRelease, Goto
  <2>5. ASSUME NEW w \in Worker, DequeueItem(w)
        PROVE  pc[v] = "run" /\ epoch' = epoch /\ item'[v] = item[v]
    BY <1>0, <2>5 DEF DequeueItem, TakeRecord, TakeBarrier, Goto
  <2>6. ASSUME NEW w \in Worker, InBarrier(w)
        PROVE  /\ item' = item
               /\ \/ pc[v] = "run" /\ epoch'[v] = epoch[v]
                  \/ pc[v] = "stamp" /\ epoch'[v] = current_epoch
    BY <1>0, <2>6 DEF InBarrier, poolVars, EnterAdd, EnterLoad, DrainAnnounce, DrainSeesZero,
                      DrainAdvance, Goto
  <2>7. QED
    BY <2>1, <2>2, <2>3, <2>4, <2>5, <2>6 DEF PoolNext, PoolEnded, WorkerThread
<1>2. item[v] \in 1 .. head
  BY <1>0, <1>1 DEF Control
<1>3. \A j \in 1 .. item[v] - 1 : j \in 1 .. Len(log)
  BY <1>0, <1>2
<1>4. BarriersIn(item[v] - 1)' = BarriersIn(item[v] - 1)
  BY <1>0, <1>1, <1>3 DEF BarriersIn, LogGrows
<1>5. QED
  BY <1>1, <1>2, <1>4 DEF TrueEpoch

\* A worker outside drain() is one of the pool that the ledger does not count.
LEMMA UndrainedByOthers ==
  ASSUME NEW w \in Worker, w \notin Undrained
  PROVE  Cardinality(Undrained) <= Cardinality(Worker) - 1
<1>1. Undrained \subseteq Worker \ {w}
  BY DEF Undrained
<1>2. IsFiniteSet(Worker \ {w}) /\ Cardinality(Worker \ {w}) = Cardinality(Worker) - 1
  BY FS_RemoveElement, WorkerAssumption
<1>3. QED
  BY <1>1, <1>2, FS_Subset

\* Every record in the pipeline keeps a tag that is not too early.
LEMMA StepPreservesTags ==
  ASSUME PInv, [PoolNext]_vars
  PROVE  TagNotEarly'
<1> SUFFICES ASSUME NEW v \in Worker, pc'[v] = "run"
             PROVE  TrueEpoch(item[v])' <= epoch'[v] + Cardinality(Worker) - 1
  BY DEF TagNotEarly
<1>1. /\ item[v] \in 1 .. head /\ head \in Nat
      /\ TrueEpoch(item[v])' = TrueEpoch(item[v])
      /\ \/ pc[v] = "run" /\ epoch'[v] = epoch[v]
         \/ pc[v] = "stamp" /\ epoch'[v] = current_epoch
  BY StepKeepsRecord DEF PInv, PoolState
<1>2. CASE pc[v] = "run" /\ epoch'[v] = epoch[v]
  BY <1>1, <1>2 DEF PInv, TagNotEarly
<1>3. CASE pc[v] = "stamp" /\ epoch'[v] = current_epoch
  <2>1. TrueEpoch(item[v]) <= Cardinality(BarriersIn(head))
    BY <1>1, BarriersMonotone DEF TrueEpoch
  <2>2. Cardinality(Undrained) <= Cardinality(Worker) - 1
    BY <1>3, UndrainedByOthers DEF Undrained
  <2>3. /\ Cardinality(Undrained) \in Nat /\ Cardinality(Worker) \in Nat
        /\ current_epoch \in Nat /\ Cardinality(BarriersIn(head)) \in Nat
        /\ TrueEpoch(item[v]) \in Nat
    BY <1>1, CountsAreNat, BarriersFinite, MaxEpochAssumption
       DEF TrueEpoch, PInv, IInv, TypeOK
  <2>4. current_epoch + Cardinality(Undrained) = Cardinality(BarriersIn(head))
    BY DEF PInv, EpochLedger
  <2>5. TrueEpoch(item[v]) <= current_epoch + Cardinality(Worker) - 1
    BY <2>1, <2>2, <2>3, <2>4
  <2>6. QED
    BY <1>1, <1>3, <2>5
<1>4. QED
  BY <1>1, <1>2, <1>3

\* The invariant is inductive: its parts support each other.
LEMMA StepPreservesPInv == PInv /\ [PoolNext]_vars => PInv'
<1> SUFFICES ASSUME PInv, [PoolNext]_vars PROVE PInv'
  OBVIOUS
<1>1. IInv'
  BY StepImplementsBarrier, NextPreservesIInv DEF PInv
<1>2. QED
  BY <1>1, StepPreservesState, StepPreservesControl, StepPreservesOwnership,
     StepPreservesLedger, StepPreservesTags DEF PInv

\* It holds throughout every execution of the pool.
LEMMA PoolInvariance == PoolSpec => []PInv
  BY InitEstablishesPInv, StepPreservesPInv, PTL DEF PoolSpec

-------------------------------------------------------------------------------

\* Type correctness of the pool: among others, no more than Capacity items are ever
\* on the ring and no worker holds an item that has not been dequeued.
THEOREM PoolTypeCorrect == PoolSpec => []PoolTypeOK
<1>1. PInv => PoolTypeOK
  BY DEF PInv, IInv, PoolState, PoolTypeOK
<1>2. QED
  BY <1>1, PoolInvariance, PTL

\* Every barrier dequeued advances the epoch exactly once.
THEOREM EveryBarrierCounts == PoolSpec => []EpochLedger
<1>1. PInv => EpochLedger
  BY DEF PInv
<1>2. QED
  BY <1>1, PoolInvariance, PTL

\* A record's tag is behind its true epoch by at most one per other worker.
THEOREM TagsAreNotEarly == PoolSpec => []TagNotEarly
<1>1. PInv => TagNotEarly
  BY DEF PInv
<1>2. QED
  BY <1>1, PoolInvariance, PTL

\* No item is leaked, held twice, or used or freed after it was freed.
THEOREM ItemsAreOwned == PoolSpec => []ItemOwnership
<1>1. PInv => ItemOwnership
  BY DEF PInv
<1>2. QED
  BY <1>1, PoolInvariance, PTL

\* A pool that has stopped leaves the barrier idle and every dequeued item freed.
THEOREM StopsCleanly == PoolSpec => []CleanStop
<1>1. PInv => CleanStop
  <2> SUFFICES ASSUME PInv, \A w \in Worker : loop[w] = "exited"
               PROVE  ~barrier_pending /\ in_flight = 0 /\ Undrained = {} /\ freed = 1 .. head
    BY DEF CleanStop
  <2>1. \A w \in Worker : pc[w] = "idle" /\ item[w] = 0
    BY DEF PInv, Control
  <2>2. InFlight = {} /\ Undrained = {} /\ ~barrier_pending
    BY <2>1 DEF InFlight, Undrained, PInv, PendingHasDrain
  <2>3. in_flight = 0
    BY <2>2, FS_EmptySet DEF PInv, IInv, InFlightCount
  <2>4. Held = {}
    BY <2>1 DEF Held
  <2>5. QED
    BY <2>2, <2>3, <2>4 DEF PInv, ItemOwnership
<1>2. QED
  BY <1>1, PoolInvariance, PTL

-------------------------------------------------------------------------------
(* The pool keeps the order of EpochOrder.tla: what it has begun, sealed and *)
(* completed is told from the places of the workers that hold the rest.      *)

\* What a worker holds between the dequeue and exit() or the advance of its drain.
LEMMA HeldItem ==
  ASSUME PInv, NEW w \in Worker, pc[w] \in Incomplete
  PROVE  /\ item[w] \in 1 .. head /\ item[w] \in 1 .. Len(log)
         /\ IsData(item[w]) <=> pc[w] \in {"enter", "stamp", "run"}
         /\ ~IsData(item[w]) => log[item[w]].kind = "barrier"
         /\ \A P \in SUBSET Incomplete : item[w] \in HeldAt(P) <=> pc[w] \in P
<1>1. item[w] \in 1 .. head /\ item[w] \in 1 .. Len(log)
  BY DEF PInv, PoolState, Control, Incomplete
<1>2. /\ IsData(item[w]) <=> pc[w] \in {"enter", "stamp", "run"}
      /\ ~IsData(item[w]) => log[item[w]].kind = "barrier"
  BY DEF PInv, Control, Incomplete, IsData
<1>3. \A v \in Worker : item[v] = item[w] => v = w
  BY <1>1 DEF PInv, ItemOwnership
<1> QED
  BY <1>1, <1>2, <1>3 DEF HeldAt

\* How a step changes the items in hand at some places: not at all...
LEMMA HeldAtStays ==
  ASSUME NEW P, \A v \in Worker : /\ pc'[v] \in P <=> pc[v] \in P
                                  /\ pc[v] \in P => item'[v] = item[v]
  PROVE  HeldAt(P)' = HeldAt(P)
BY DEF HeldAt

\* ...by the item of a worker that leaves them...
LEMMA HeldAtLoses ==
  ASSUME PInv, NEW w \in Worker, NEW P \in SUBSET Incomplete, NEW to, to \notin P,
         pc[w] \in P, pc' = [pc EXCEPT ![w] = to], item' = item
  PROVE  HeldAt(P)' = HeldAt(P) \ {item[w]}
<1>1. item[w] # 0 /\ \A v \in Worker : item[v] = item[w] => v = w
  BY DEF PInv, Control, ItemOwnership, Incomplete
<1>2. \A v \in Worker : pc'[v] = IF v = w THEN to ELSE pc[v]
  BY DEF PInv, IInv, TypeOK
<1> QED
  BY <1>1, <1>2 DEF HeldAt

\* ...or by the one a worker has dequeued.
LEMMA HeldAtGains ==
  ASSUME PInv, NEW w \in Worker, NEW P, NEW to \in P, NEW i, pc[w] \notin P,
         pc' = [pc EXCEPT ![w] = to], item' = [item EXCEPT ![w] = i]
  PROVE  HeldAt(P)' = HeldAt(P) \cup {i}
<1>1. \A v \in Worker : /\ pc'[v] = IF v = w THEN to ELSE pc[v]
                        /\ item'[v] = IF v = w THEN i ELSE item[v]
  BY DEF PInv, IInv, TypeOK, PoolState
<1> QED
  BY <1>1 DEF HeldAt

\* A step that dequeues nothing and takes no worker over an edge of the three sets.
LEMMA OrderStays ==
  ASSUME head' = head, \A i \in 1 .. head : log'[i] = log[i],
         HeldAt(Entering)' = HeldAt(Entering), HeldAt(Unsealed)' = HeldAt(Unsealed),
         HeldAt(Incomplete)' = HeldAt(Incomplete)
  PROVE  Begun' = Begun /\ Sealed' = Sealed /\ Completed' = Completed
BY DEF Begun, Sealed, Completed, IsData, Entering, Unsealed, Incomplete

LEMMA StutterStays ==
  ASSUME head' = head, log' = log,
         \A v \in Worker : \/ pc'[v] = pc[v] /\ item'[v] = item[v]
                           \/ pc'[v] \notin Incomplete /\ pc[v] \notin Incomplete
  PROVE  UNCHANGED <<log, Begun, Sealed, Completed>>
<1>1. \A P \in SUBSET Incomplete : \A v \in Worker : /\ pc'[v] \in P <=> pc[v] \in P
                                                     /\ pc[v] \in P => item'[v] = item[v]
  OBVIOUS
<1>2. Entering \in SUBSET Incomplete /\ Unsealed \in SUBSET Incomplete
  BY DEF Entering, Unsealed, Incomplete
<1>3. HeldAt(Entering)' = HeldAt(Entering)
  BY <1>1, <1>2, HeldAtStays DEF Entering
<1>4. HeldAt(Unsealed)' = HeldAt(Unsealed)
  BY <1>1, <1>2, HeldAtStays DEF Unsealed
<1>5. HeldAt(Incomplete)' = HeldAt(Incomplete)
  BY <1>1, HeldAtStays DEF Incomplete
<1> QED
  BY <1>3, <1>4, <1>5, OrderStays

\* An item in a worker's hand is in turn: the ring gives items out in order, so each
\* incomplete one ahead is in the hand of another worker.
LEMMA HeldInTurn ==
  ASSUME PInv, NEW w \in Worker, pc[w] \in Incomplete
  PROVE  Order!InTurn(item[w])
<1> DEFINE S == (1 .. item[w] - 1) \ Completed
           T == Worker \ {w}
           f == [i \in S |-> CHOOSE v \in T : item[v] = i]
<1>1. item[w] \in 1 .. head /\ head \in Nat
  BY HeldItem DEF PInv, PoolState
<1>2. \A i \in S : \E v \in T : item[v] = i
  <2> SUFFICES ASSUME NEW i \in S PROVE \E v \in T : item[v] = i
    OBVIOUS
  <2>1. i \in 1 .. head /\ i # item[w]
    BY <1>1
  <2>2. i \in HeldAt(Incomplete)
    BY <2>1 DEF Completed
  <2> QED
    BY <2>1, <2>2 DEF HeldAt
<1>3. \A i \in S : f[i] \in T /\ item[f[i]] = i
  BY <1>2
<1>4. f \in Injection(S, T)
  BY <1>3, ZenonT(40) DEF Injection, IsInjective
<1>5. IsFiniteSet(T) /\ Cardinality(T) = Cardinality(Worker) - 1
  BY FS_RemoveElement, WorkerAssumption
<1>6. Cardinality(S) <= Cardinality(T) /\ IsFiniteSet(S)
  <2> HIDE DEF S, T, f
  <2> QED
    BY <1>4, <1>5, FS_Injection
<1>7. Cardinality(S) \in Nat /\ Cardinality(Worker) \in Nat
  BY <1>6, CountsAreNat, FS_CardinalityType
<1>8. Cardinality(S) < Cardinality(Worker)
  <2> HIDE DEF S, T
  <2> QED
    BY <1>5, <1>6, <1>7
<1>9. \A U : Order!Cardinality(U) = Cardinality(U)
  BY DEF Order!Cardinality, Cardinality
<1> QED
  BY <1>8, <1>9 DEF Order!InTurn

\* The four steps that cross an edge.
LEMMA EnterBegins ==
  ASSUME PInv, NEW w \in Worker, EnterAdd(w), UNCHANGED poolVars
  PROVE  Order!Begin(item[w])
<1>1. /\ pc[w] = "enter" /\ pc' = [pc EXCEPT ![w] = "stamp"]
      /\ UNCHANGED <<log, head, item, current_epoch>>
  BY DEF EnterAdd, Goto, poolVars
<1>2. pc[w] \in Incomplete /\ Entering \in SUBSET Incomplete /\ "stamp" \notin Entering
  BY <1>1 DEF Incomplete, Entering
<1>3. /\ item[w] \in 1 .. head /\ IsData(item[w]) /\ item[w] \in HeldAt(Entering)
  BY <1>1, <1>2, HeldItem DEF Entering
<1>4. HeldAt(Entering)' = HeldAt(Entering) \ {item[w]}
  BY <1>1, <1>2, HeldAtLoses DEF Entering
<1>5. \A v \in Worker : pc'[v] = IF v = w THEN "stamp" ELSE pc[v]
  BY <1>1 DEF PInv, IInv, TypeOK
<1>6. HeldAt(Unsealed)' = HeldAt(Unsealed)
  BY <1>1, <1>5, HeldAtStays DEF Unsealed
<1>7. HeldAt(Incomplete)' = HeldAt(Incomplete)
  BY <1>1, <1>5, HeldAtStays DEF Incomplete
<1>8. Begun' = Begun \cup {item[w]} /\ item[w] \notin Begun
  BY <1>1, <1>3, <1>4 DEF Begun, IsData, Entering
<1>9. Sealed' = Sealed /\ Completed' = Completed
  BY <1>1, <1>6, <1>7 DEF Sealed, Completed, IsData, Unsealed, Incomplete
<1> QED
  BY <1>1, <1>2, <1>3, <1>8, <1>9, HeldInTurn DEF Order!Begin, IsData

LEMMA ExitCompletes ==
  ASSUME PInv, NEW w \in Worker, FinishRecord(w)
  PROVE  Order!Complete(item[w])
<1>1. /\ pc[w] = "run" /\ pc' = [pc EXCEPT ![w] = "idle"]
      /\ UNCHANGED <<log, head, item, current_epoch>>
  BY DEF FinishRecord, Exit, Goto
<1>2. pc[w] \in Incomplete /\ Entering \in SUBSET Incomplete /\ "idle" \notin Incomplete
  BY <1>1 DEF Incomplete, Entering
<1>3. /\ item[w] \in 1 .. head /\ IsData(item[w]) /\ item[w] \notin HeldAt(Entering)
      /\ item[w] \in HeldAt(Incomplete)
  BY <1>1, <1>2, HeldItem DEF Entering
<1>4. HeldAt(Incomplete)' = HeldAt(Incomplete) \ {item[w]}
  BY <1>1, <1>2, HeldAtLoses DEF Incomplete
<1>5. \A v \in Worker : pc'[v] = IF v = w THEN "idle" ELSE pc[v]
  BY <1>1 DEF PInv, IInv, TypeOK
<1>6. HeldAt(Entering)' = HeldAt(Entering) /\ HeldAt(Unsealed)' = HeldAt(Unsealed)
  BY <1>1, <1>5, HeldAtStays DEF Unsealed, Entering
<1>7. Completed' = Completed \cup {item[w]} /\ item[w] \notin Completed /\ item[w] \in Begun
  BY <1>1, <1>3, <1>4 DEF Completed, Begun, Incomplete
<1>8. Begun' = Begun /\ Sealed' = Sealed
  BY <1>1, <1>6 DEF Begun, Sealed, IsData, Entering, Unsealed
<1> QED
  BY <1>1, <1>7, <1>8 DEF Order!Complete

\* A drain reads in_flight = 0: no worker has a record that has begun.
LEMMA DrainSeals ==
  ASSUME PInv, NEW w \in Worker, DrainSeesZero(w), UNCHANGED poolVars
  PROVE  Order!Seal(item[w])
<1>1. /\ in_flight = 0 /\ pc[w] = "await" /\ pc' = [pc EXCEPT ![w] = "advance"]
      /\ UNCHANGED <<log, head, item, current_epoch>>
  BY DEF DrainSeesZero, Goto, poolVars
<1>2. pc[w] \in Incomplete /\ Unsealed \in SUBSET Incomplete /\ "advance" \notin Unsealed
  BY <1>1 DEF Incomplete, Unsealed
<1>3. /\ item[w] \in 1 .. head /\ ~IsData(item[w]) /\ log[item[w]].kind = "barrier"
      /\ item[w] \in HeldAt(Unsealed)
  BY <1>1, <1>2, HeldItem DEF Unsealed
<1>4. HeldAt(Unsealed)' = HeldAt(Unsealed) \ {item[w]}
  BY <1>1, <1>2, HeldAtLoses DEF Unsealed
<1>5. \A v \in Worker : pc'[v] = IF v = w THEN "advance" ELSE pc[v]
  BY <1>1 DEF PInv, IInv, TypeOK
<1>6. HeldAt(Entering)' = HeldAt(Entering) /\ HeldAt(Incomplete)' = HeldAt(Incomplete)
  BY <1>1, <1>5, HeldAtStays DEF Entering, Incomplete
<1>7. Sealed' = Sealed \cup {item[w]} /\ item[w] \notin Sealed
  BY <1>1, <1>3, <1>4 DEF Sealed, IsData, Unsealed
<1>8. Begun' = Begun /\ Completed' = Completed
  BY <1>1, <1>6 DEF Begun, Completed, IsData, Entering, Incomplete
<1>9. InFlight = {}
  BY <1>1, CountsAreNat, FS_EmptySet DEF PInv, IInv, InFlightCount
<1>10. Begun \subseteq Completed
  <2> SUFFICES ASSUME NEW i \in Begun, i \in HeldAt(Incomplete) PROVE FALSE
    BY DEF Begun, Completed
  <2>1. PICK v \in Worker : pc[v] \in Incomplete /\ item[v] = i
    BY DEF HeldAt
  <2>2. pc[v] \notin {"stamp", "run"}
    BY <1>9 DEF InFlight
  <2>3. pc[v] = "enter"
    BY <2>1, <2>2, HeldItem DEF Begun
  <2> QED
    BY <2>1, <2>3 DEF Begun, HeldAt, Entering
<1> QED
  BY <1>1, <1>2, <1>3, <1>7, <1>8, <1>10, HeldInTurn DEF Order!Seal

LEMMA AdvanceCloses ==
  ASSUME PInv, NEW w \in Worker, DrainAdvance(w), UNCHANGED poolVars
  PROVE  Order!Close(item[w])
<1>1. /\ pc[w] = "advance" /\ pc' = [pc EXCEPT ![w] = "release"]
      /\ UNCHANGED <<log, head, item>> /\ current_epoch' = current_epoch + 1
  BY DEF DrainAdvance, Goto, poolVars
<1>2. pc[w] \in Incomplete /\ Unsealed \in SUBSET Incomplete /\ "release" \notin Incomplete
  BY <1>1 DEF Incomplete, Unsealed
<1>3. /\ item[w] \in 1 .. head /\ ~IsData(item[w]) /\ item[w] \notin HeldAt(Unsealed)
      /\ item[w] \in HeldAt(Incomplete)
  BY <1>1, <1>2, HeldItem DEF Unsealed
<1>4. HeldAt(Incomplete)' = HeldAt(Incomplete) \ {item[w]}
  BY <1>1, <1>2, HeldAtLoses DEF Incomplete
<1>5. \A v \in Worker : pc'[v] = IF v = w THEN "release" ELSE pc[v]
  BY <1>1 DEF PInv, IInv, TypeOK
<1>6. HeldAt(Entering)' = HeldAt(Entering) /\ HeldAt(Unsealed)' = HeldAt(Unsealed)
  BY <1>1, <1>5, HeldAtStays DEF Unsealed, Entering
<1>7. Completed' = Completed \cup {item[w]} /\ item[w] \notin Completed /\ item[w] \in Sealed
  BY <1>1, <1>3, <1>4 DEF Completed, Sealed, Incomplete
<1>8. Begun' = Begun /\ Sealed' = Sealed
  BY <1>1, <1>6 DEF Begun, Sealed, IsData, Entering, Unsealed
<1> QED
  BY <1>1, <1>7, <1>8 DEF Order!Close

\* A dequeue adds an item to what has been given out, and to what has not begun or is
\* not sealed.
LEMMA DequeueStays ==
  ASSUME PInv, NEW w \in Worker, DequeueItem(w)
  PROVE  UNCHANGED <<log, Begun, Sealed, Completed, current_epoch>>
<1> DEFINE to == IF IsData(head + 1) THEN "enter" ELSE "drain"
<1>1. /\ pc[w] = "cleared" /\ pc' = [pc EXCEPT ![w] = to] /\ head' = head + 1
      /\ item' = [item EXCEPT ![w] = head + 1] /\ UNCHANGED <<log, current_epoch>>
  BY DEF DequeueItem, TakeRecord, TakeBarrier, Goto
<1>2. head \in Nat /\ 1 .. head + 1 = (1 .. head) \cup {head + 1} /\ head + 1 \notin 1 .. head
  BY DEF PInv, PoolState
<1>3. pc[w] \notin Incomplete /\ to \in Incomplete
  BY <1>1 DEF Incomplete
<1>4. HeldAt(Incomplete)' = HeldAt(Incomplete) \cup {head + 1}
  <2> HIDE DEF to
  <2> QED
    BY <1>1, <1>3, HeldAtGains
<1>5. \A v \in Worker : /\ pc'[v] = IF v = w THEN to ELSE pc[v]
                        /\ item'[v] = IF v = w THEN head + 1 ELSE item[v]
  BY <1>1 DEF PInv, IInv, TypeOK, PoolState
<1>6. HeldAt(Entering)' = IF IsData(head + 1) THEN HeldAt(Entering) \cup {head + 1}
                                              ELSE HeldAt(Entering)
  BY <1>1, <1>5 DEF HeldAt, Entering
<1>7. HeldAt(Unsealed)' = IF IsData(head + 1) THEN HeldAt(Unsealed)
                                              ELSE HeldAt(Unsealed) \cup {head + 1}
  BY <1>1, <1>5 DEF HeldAt, Unsealed
<1>8. Completed' = Completed
  BY <1>1, <1>2, <1>4 DEF Completed, Incomplete
<1>9. Begun' = Begun
  BY <1>1, <1>2, <1>6 DEF Begun, IsData, Entering
<1>10. Sealed' = Sealed
  BY <1>1, <1>2, <1>7 DEF Sealed, IsData, Unsealed
<1> QED
  BY <1>1, <1>8, <1>9, <1>10

\* Each step of the pool begins, completes, seals or closes an item, receives one, or
\* changes nothing of the order.
LEMMA StepImplementsOrder ==
  ASSUME PInv, [PoolNext]_vars
  PROVE  [Order!Next]_<<log, Begun, Sealed, Completed, current_epoch>>
<1>1. /\ \A w \in Worker : pc[w] \in Incomplete => item[w] \in 1 .. Len(log)
      /\ pc \in [Worker -> Step] /\ item \in [Worker -> 0 .. head]
      /\ log \in Seq(Item) /\ head \in 0 .. Len(log) /\ Len(log) \in Nat
  BY HeldItem DEF PInv, IInv, TypeOK, PoolState
<1>2. ASSUME NEW kind \in Kind, NEW seq \in SeqNum, Produce(kind, seq) PROVE Order!Next
  <2>1. /\ UNCHANGED <<pc, item, head, current_epoch>>
        /\ log' = Append(log, [kind |-> kind, seq |-> seq])
    BY <1>2 DEF Produce, Enqueue, barrierVars
  <2>2. [kind |-> kind, seq |-> seq] \in Item
    BY DEF Item
  <2>3. \A i \in 1 .. head : log'[i] = log[i]
    BY <1>1, <2>1, <2>2, AppendProperties
  <2>4. Begun' = Begun /\ Sealed' = Sealed /\ Completed' = Completed
    BY <2>1, <2>3 DEF Begun, Sealed, Completed, HeldAt, IsData
  <2>5. Order!Arrive([kind |-> kind, seq |-> seq])
    BY <2>1, <2>4 DEF Order!Arrive
  <2> QED
    BY <2>2, <2>5 DEF Order!Next
<1>3. CASE RequestStop \/ UNCHANGED vars
  <2>1. UNCHANGED <<log, head, pc, item, current_epoch>>
    BY <1>3 DEF RequestStop, vars, poolVars, barrierVars
  <2> QED
    BY <2>1, StutterStays
<1>4. ASSUME NEW w \in Worker, CheckStop(w) \/ FreeItem(w)
      PROVE  UNCHANGED <<log, Begun, Sealed, Completed, current_epoch>>
  <2>1. /\ UNCHANGED <<log, head, pc, current_epoch>> /\ loop[w] \in {"top", "free"}
        /\ \A v \in Worker \ {w} : item'[v] = item[v]
    BY <1>1, <1>4 DEF CheckStop, FreeItem, LoopTo, barrierVars
  <2>2. pc[w] \notin Incomplete
    BY <2>1 DEF PInv, Control, Incomplete
  <2> QED
    BY <2>1, <2>2, StutterStays
<1>5. ASSUME NEW w \in Worker, PassBarrier(w) \/ DequeueNothing(w) \/ FinishDrain(w)
      PROVE  UNCHANGED <<log, Begun, Sealed, Completed, current_epoch>>
  <2>1. /\ UNCHANGED <<log, head, item, current_epoch>>
        /\ pc[w] \notin Incomplete /\ pc'[w] \notin Incomplete
        /\ \A v \in Worker \ {w} : pc'[v] = pc[v]
    BY <1>1, <1>5 DEF PassBarrier, WaitIfPending, DequeueNothing, TakeNothing, FinishDrain,
                      DrainRelease, Goto, Incomplete
  <2> QED
    BY <2>1, StutterStays
<1>6. ASSUME NEW w \in Worker, EnterLoad(w) \/ DrainAnnounce(w), UNCHANGED poolVars
      PROVE  UNCHANGED <<log, Begun, Sealed, Completed, current_epoch>>
  <2>1. /\ UNCHANGED <<log, head, item, current_epoch>>
        /\ \A v \in Worker : \/ pc'[v] = pc[v]
                             \/ pc[v] = "stamp" /\ pc'[v] = "run"
                             \/ pc[v] = "drain" /\ pc'[v] = "await"
    BY <1>1, <1>6 DEF EnterLoad, DrainAnnounce, Goto, poolVars
  <2>2. /\ HeldAt(Entering)' = HeldAt(Entering) /\ HeldAt(Unsealed)' = HeldAt(Unsealed)
        /\ HeldAt(Incomplete)' = HeldAt(Incomplete)
    BY <2>1, HeldAtStays DEF Entering, Unsealed, Incomplete
  <2> QED
    BY <2>1, <2>2, OrderStays
<1>7. ASSUME NEW w \in Worker, NEW i \in 1 .. Len(log),
             Order!Begin(i) \/ Order!Complete(i) \/ Order!Seal(i) \/ Order!Close(i)
      PROVE  Order!Next
  BY <1>7 DEF Order!Next
<1>8. ASSUME NEW w \in Worker, EnterAdd(w), UNCHANGED poolVars PROVE Order!Next
  BY <1>1, <1>7, <1>8, EnterBegins DEF EnterAdd, Goto, Incomplete
<1>9. ASSUME NEW w \in Worker, FinishRecord(w) PROVE Order!Next
  BY <1>1, <1>7, <1>9, ExitCompletes DEF FinishRecord, Exit, Goto, Incomplete
<1>10. ASSUME NEW w \in Worker, DrainSeesZero(w), UNCHANGED poolVars PROVE Order!Next
  BY <1>1, <1>7, <1>10, DrainSeals DEF DrainSeesZero, Goto, Incomplete
<1>11. ASSUME NEW w \in Worker, DrainAdvance(w), UNCHANGED poolVars PROVE Order!Next
  BY <1>1, <1>7, <1>11, AdvanceCloses DEF DrainAdvance, Goto, Incomplete
<1>12. ASSUME NEW w \in Worker, WorkerThread(w)
       PROVE  [Order!Next]_<<log, Begun, Sealed, Completed, current_epoch>>
  BY <1>4, <1>5, <1>6, <1>8, <1>9, <1>10, <1>11, <1>12, DequeueStays DEF WorkerThread, InBarrier
<1> QED
  BY <1>2, <1>3, <1>12 DEF PoolNext, PoolEnded

\* The pool keeps the order of EpochOrder.tla, whatever the number of workers: every
\* barrier closes one epoch after a moment at which no record that had begun was
\* incomplete, and fewer items than there are workers are ever out of turn.  A pool
\* of one is the cliff of epoch_barrier.h:14-20.
THEOREM PoolKeepsOrder == PoolSpec => OrderSpec
<1>1. PoolInit => Order!Init
  <2> SUFFICES ASSUME PoolInit PROVE Order!Init
    OBVIOUS
  <2>1. log = <<>> /\ 1 .. head = {} /\ current_epoch = 0
    BY DEF PoolInit, Init
  <2> QED
    BY <2>1 DEF Begun, Sealed, Completed, Order!Init
<1>2. PInv /\ [PoolNext]_vars => [Order!Next]_<<log, Begun, Sealed, Completed, current_epoch>>
  BY StepImplementsOrder
<1> QED
  BY <1>1, <1>2, PoolInvariance, PTL DEF PoolSpec, OrderSpec, Order!Spec, Order!orderVars
===============================================================================
