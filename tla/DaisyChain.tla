------------------------------- MODULE DaisyChain -------------------------------
(*****************************************************************************)
(* One hop of a daisy chain: the ring that an upstream process's ring_output *)
(* stage (src/src/stages/ring_output_stage.c) and the downstream process's   *)
(* ring_input_create() (src/src/ring_input.c) find or create under one name, *)
(* and who drains and frees it.  Three ends can hold it: the live chain's    *)
(* stage instance, the throwaway instance of a validation or a probe in the  *)
(* upstream's web thread, and the downstream's input.                        *)
(*                                                                           *)
(* Each end runs its code as it stands; the two processes are started and    *)
(* stopped by a supervisor that keeps to docs/MANAGEMENT.md:194-228: the     *)
(* upstream is stopped only while the downstream is, and the downstream,     *)
(* a DPDK secondary, is started only while the upstream is up.  Either may   *)
(* also end at any moment without its teardown, by one of main()'s           *)
(* rte_exit() or killed; a process that did so stays down here (what the     *)
(* EAL leaves of its memory is not modelled).                                *)
(*****************************************************************************)
EXTENDS Naturals, Sequences, FiniteSets

CONSTANTS
  Worker,     \* the upstream's worker lcores
  Capacity,   \* how many records the ring holds
  MaxRings    \* bound: how many rings are ever created

ASSUME DaisyAssumption ==
  IsFiniteSet(Worker) /\ Capacity \in Nat \ {0} /\ MaxRings \in Nat

VARIABLES
  rings,    \* every ring ever created: by which end, how many records, frees
  named,    \* the ring that has the name, 0 when none has
  place,    \* where each end stands in its code, "failed" when it died
  handle,   \* the ring each end holds, 0 when none
  owns,     \* owns_ring
  up,       \* the upstream process
  busy      \* per worker, the ring it is enqueueing on, 0 when none

vars == <<rings, named, place, handle, owns, up, busy>>

Output == {"live", "probe"}
End    == Output \cup {"input"}

Live(r) == rings[r].frees = 0

\* A ring that an end about to start could still create.
RingLeft == Len(rings) + Cardinality({e \in End : place[e] \in {"create", "lookup"}}) < MaxRings

-------------------------------------------------------------------------------

DaisyInit ==
  /\ rings = <<>>
  /\ named = 0
  /\ place = [e \in End |-> "off"]
  /\ handle = [e \in End |-> 0]
  /\ owns = [e \in End |-> FALSE]
  /\ up = "off"
  /\ busy = [w \in Worker |-> 0]

PlaceTo(e, from, to) == place[e] = from /\ place' = [place EXCEPT ![e] = to]

\* rte_ring_create() and rte_ring_lookup() when they succeed.
Create(e) ==
  /\ named = 0
  /\ rings' = Append(rings, [by |-> e, records |-> 0, frees |-> 0])
  /\ named' = Len(rings')
  /\ handle' = [handle EXCEPT ![e] = named']
  /\ owns' = [owns EXCEPT ![e] = TRUE]

Lookup(e) ==
  /\ named # 0
  /\ handle' = [handle EXCEPT ![e] = named]
  /\ owns' = [owns EXCEPT ![e] = FALSE]
  /\ UNCHANGED <<rings, named>>

Nothing == UNCHANGED <<rings, named, handle, owns>>

\* The end is gone: free(cfg), or the process's exit.
Close(e) ==
  /\ handle' = [handle EXCEPT ![e] = 0]
  /\ owns' = [owns EXCEPT ![e] = FALSE]

\* ring_output_stage_init(): create first...
OutputCreate(e) ==
  /\ PlaceTo(e, "create", IF named = 0 THEN "open" ELSE "lookup")
  /\ IF named = 0 THEN Create(e) ELSE Nothing
  /\ UNCHANGED <<up, busy>>

\* ...and look up what made that fail with EEXIST.
OutputLookup(e) ==
  /\ PlaceTo(e, "lookup", "open")
  /\ Lookup(e)
  /\ UNCHANGED <<up, busy>>

\* init() returns NULL: rte_ring_create() fails for another reason (no memory, a
\* ring_size it does not take), or the ring is gone again.  The live chain's graph
\* is refused and its process exits.
OutputFails(e) ==
  /\ \/ PlaceTo(e, "create", "off")
     \/ named = 0 /\ PlaceTo(e, "lookup", "off")
  /\ up' = IF e = "live" THEN "failed" ELSE up
  /\ Nothing /\ UNCHANGED busy

\* Mutant: whatever ring is found is taken for the process's own.
InputLookupOwns ==
  /\ PlaceTo("input", "lookup", IF named = 0 THEN "create" ELSE "open")
  /\ IF named = 0
       THEN Nothing
       ELSE /\ handle' = [handle EXCEPT !["input"] = named]
            /\ owns' = [owns EXCEPT !["input"] = TRUE]
            /\ UNCHANGED <<rings, named>>
  /\ UNCHANGED <<up, busy>>

\* ring_input_create(): look up first...
InputLookup ==
  /\ PlaceTo("input", "lookup", IF named = 0 THEN "create" ELSE "open")
  /\ IF named = 0 THEN Nothing ELSE Lookup("input")
  /\ UNCHANGED <<up, busy>>

\* ...and create what was not there; if it is by now, or cannot be made, the
\* process exits.
InputCreate ==
  /\ \/ PlaceTo("input", "create", "open") /\ Create("input")
     \/ PlaceTo("input", "create", "off") /\ Nothing
  /\ UNCHANGED <<up, busy>>

\* Mutant: whoever holds the ring drains and frees it.
LetGoFrees(e) ==
  /\ PlaceTo(e, "open", "drain")
  /\ Nothing

\* Teardown: only the ring's creator has more to do than forget it.
LetGo(e) ==
  \/ /\ owns[e]
     /\ PlaceTo(e, "open", "drain")
     /\ Nothing
  \/ /\ ~owns[e]
     /\ PlaceTo(e, "open", "off")
     /\ Close(e)
     /\ UNCHANGED <<rings, named>>

Take(e) == rings' = [rings EXCEPT ![handle[e]].records = @ - 1]

\* Mutant: the ring is freed as it is.
DrainNothing(e) ==
  /\ PlaceTo(e, "drain", "free")
  /\ UNCHANGED <<rings, named, handle, owns, up, busy>>

\* while (rte_ring_dequeue() == 0) rte_free()
Drain(e) ==
  /\ place[e] = "drain"
  /\ \/ /\ rings[handle[e]].records > 0
        /\ Take(e)
        /\ UNCHANGED place
     \/ /\ rings[handle[e]].records = 0
        /\ PlaceTo(e, "drain", "free")
        /\ UNCHANGED rings
  /\ UNCHANGED <<named, handle, owns, up, busy>>

\* rte_ring_free()
Free(e) ==
  /\ PlaceTo(e, "free", "off")
  /\ rings' = [rings EXCEPT ![handle[e]].frees = @ + 1]
  /\ named' = IF named = handle[e] THEN 0 ELSE named
  /\ Close(e)
  /\ UNCHANGED <<up, busy>>

-------------------------------------------------------------------------------
\* The upstream process.

\* It starts with a graph that has the ring_output stage, or with one that has not.
UpStart ==
  /\ up = "off" /\ place["input"] = "off" /\ RingLeft
  /\ up' = "starting"
  /\ \/ PlaceTo("live", "off", "create")
     \/ UNCHANGED place
  /\ Nothing /\ UNCHANGED busy

UpRun ==
  /\ up = "starting"
  /\ place["live"] \in {"off", "open"}
  /\ up' = "running"
  /\ UNCHANGED <<rings, named, place, handle, owns, busy>>

\* POST /api/graph, /api/graphs/load or /api/probe-port-count: init()...
ProbeStart ==
  /\ up = "running" /\ RingLeft
  /\ PlaceTo("probe", "off", "create")
  /\ Nothing /\ UNCHANGED <<up, busy>>

\* ...and teardown().
ProbeStop ==
  /\ LetGo("probe")
  /\ UNCHANGED <<up, busy>>

\* rte_ring_enqueue() has found room (records being enqueued take theirs)...
Enqueue(w) ==
  LET r == handle["live"] IN
  /\ up = "running" /\ place["live"] = "open"
  /\ busy[w] = 0
  /\ rings[r].records + Cardinality({v \in Worker : busy[v] = r}) < Capacity
  /\ busy' = [busy EXCEPT ![w] = r]
  /\ UNCHANGED <<rings, named, place, handle, owns, up>>

\* ...and the record is there, or, on a ring that ring_input_create() flagged
\* RING_F_SP_ENQ while another worker enqueues too, overwritten.
Enqueued(w) ==
  /\ busy[w] # 0
  /\ \/ rings' = [rings EXCEPT ![busy[w]].records = @ + 1]
     \/ /\ rings[busy[w]].by = "input"
        /\ \E v \in Worker \ {w} : busy[v] = busy[w]
        /\ UNCHANGED rings
  /\ busy' = [busy EXCEPT ![w] = 0]
  /\ UNCHANGED <<named, place, handle, owns, up>>

DownStopped == place["input"] \in {"off", "failed"}

\* main() has joined its workers and its web thread; the supervisor has stopped
\* the downstream.
UpTeardown ==
  /\ up = "running" /\ DownStopped
  /\ \A w \in Worker : busy[w] = 0
  /\ place["probe"] = "off"
  /\ up' = "stopping"
  /\ \/ LetGo("live")
     \/ place["live"] = "off" /\ UNCHANGED <<rings, named, place, handle, owns>>
  /\ UNCHANGED busy

UpExit ==
  /\ up = "stopping" /\ place["live"] = "off"
  /\ up' = "off"
  /\ UNCHANGED <<rings, named, place, handle, owns, busy>>

\* The process ends as it is, its ring left with its name.
UpDies ==
  /\ up \notin {"off", "failed"}
  /\ up' = "failed"
  /\ place' = [place EXCEPT !["live"] = "off", !["probe"] = "off"]
  /\ handle' = [handle EXCEPT !["live"] = 0, !["probe"] = 0]
  /\ owns' = [owns EXCEPT !["live"] = FALSE, !["probe"] = FALSE]
  /\ busy' = [w \in Worker |-> 0]
  /\ UNCHANGED <<rings, named>>

-------------------------------------------------------------------------------
\* The downstream process.

DownStart ==
  /\ up \in {"starting", "running"} /\ RingLeft
  /\ PlaceTo("input", "off", "lookup")
  /\ Nothing /\ UNCHANGED <<up, busy>>

Dequeue ==
  /\ place["input"] = "open"
  /\ rings[handle["input"]].records > 0
  /\ Take("input")
  /\ UNCHANGED <<named, place, handle, owns, up, busy>>

DownStop ==
  /\ LetGo("input")
  /\ UNCHANGED <<up, busy>>

\* So does the downstream end.
DownDies ==
  /\ ~DownStopped
  /\ place' = [place EXCEPT !["input"] = "failed"]
  /\ Close("input")
  /\ UNCHANGED <<rings, named, up, busy>>

\* Both are down for good.
ChainEnded ==
  /\ up \in {"off", "failed"} /\ DownStopped
  /\ UNCHANGED vars

DaisyNext ==
  \/ \E e \in Output : OutputCreate(e) \/ OutputLookup(e) \/ OutputFails(e)
  \/ InputLookup \/ InputCreate
  \/ \E e \in End : Drain(e) \/ Free(e)
  \/ UpStart \/ UpRun \/ ProbeStart \/ ProbeStop \/ UpTeardown \/ UpExit \/ UpDies
  \/ \E w \in Worker : Enqueue(w) \/ Enqueued(w)
  \/ DownStart \/ Dequeue \/ DownStop \/ DownDies
  \/ ChainEnded

DaisySpec == DaisyInit /\ [][DaisyNext]_vars

-------------------------------------------------------------------------------

\* The ends and the workers that have a ring in their hands.
Users(r) == {e \in End : handle[e] = r} \cup {w \in Worker : busy[w] = r}

\* The ring of the upstream's live stage is never freed under its workers, nor under
\* a downstream that attached to it, whatever throwaway instances come and go
\* meanwhile (ring_output_stage.c:89-101 and 175-181).
LiveRingSafe ==
  \A r \in 1 .. Len(rings) :
    rings[r].by = "live" /\ Users(r) # {} => Live(r)

\* No ring is freed twice, and when both processes have stopped by their teardowns,
\* in any number of restarts, none is left behind that nobody will free.
RingsFreedOnce ==
  \A r \in 1 .. Len(rings) :
    /\ rings[r].frees <= 1
    /\ up = "off" /\ place["input"] = "off" => ~Live(r)

\* Nothing is on the live stage's ring when it is freed, nor put there afterwards.
NothingStranded ==
  \A r \in 1 .. Len(rings) :
    rings[r].by = "live" /\ ~Live(r) => rings[r].records = 0

\* RING_F_SP_ENQ "assumes whichever of those it is, it's only ever exactly one
\* producer for THIS ring" (ring_input.c:30-32).
SingleProducer ==
  \A r \in 1 .. Len(rings) :
    rings[r].by = "input" => Cardinality({w \in Worker : busy[w] = r}) <= 1
===============================================================================
