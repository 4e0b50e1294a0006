------------------------------- MODULE EpochOrder -------------------------------
(*****************************************************************************)
(* What a pool of workers makes of the promise of epoch_barrier.h:14-20,     *)
(* whatever the atomics it does it with.  Items arrive in an order; records  *)
(* begin and complete; a barrier is sealed, at a moment when no record that  *)
(* has begun is incomplete, and then closes an epoch, once.                  *)
(*                                                                           *)
(* The header's barrier is a cliff: every item ahead of it is complete when  *)
(* it closes, and none behind it begins before.  That is Window = 1.  A pool *)
(* of Window workers lets fewer than Window items ahead be incomplete.       *)
(*****************************************************************************)
EXTENDS Naturals, Sequences, FiniteSets

CONSTANTS
  Item,
  Window   \* how many items are dequeued and incomplete at most

VARIABLES
  log,      \* the items in the order they arrived
  begun,    \* the positions of the records that have begun
  sealed,   \* the positions of the barriers that are sealed
  done,     \* the positions whose processing is complete
  epoch     \* the epoch that is open

orderVars == <<log, begun, sealed, done, epoch>>

Init ==
  /\ log = <<>>
  /\ begun = {} /\ sealed = {} /\ done = {}
  /\ epoch = 0

\* What is ahead of an item has completed, but for fewer than Window.
InTurn(i) == Cardinality((1 .. i - 1) \ done) < Window

Arrive(item) ==
  /\ log' = Append(log, item)
  /\ UNCHANGED <<begun, sealed, done, epoch>>

Begin(i) ==
  /\ log[i].kind = "data"
  /\ i \notin begun
  /\ InTurn(i)
  /\ begun' = begun \cup {i}
  /\ UNCHANGED <<log, sealed, done, epoch>>

Complete(i) ==
  /\ i \in begun \ done
  /\ done' = done \cup {i}
  /\ UNCHANGED <<log, begun, sealed, epoch>>

\* Every record that has begun is complete.
Seal(i) ==
  /\ log[i].kind = "barrier"
  /\ i \notin sealed
  /\ begun \subseteq done
  /\ InTurn(i)
  /\ sealed' = sealed \cup {i}
  /\ UNCHANGED <<log, begun, done, epoch>>

\* A sealed barrier closes the open epoch, whatever the others do meanwhile.
Close(i) ==
  /\ i \in sealed \ done
  /\ done' = done \cup {i}
  /\ epoch' = epoch + 1
  /\ UNCHANGED <<log, begun, sealed>>

Next ==
  \/ \E item \in Item : Arrive(item)
  \/ \E i \in 1 .. Len(log) : Begin(i) \/ Complete(i) \/ Seal(i) \/ Close(i)

Spec == Init /\ [][Next]_orderVars
===============================================================================
