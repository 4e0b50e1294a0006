----------------------------- MODULE DaisyChainProofs -----------------------------
(*****************************************************************************)
(* Theorems about DaisyChain.tla: who holds the ring between two processes,  *)
(* and when it is freed, for any number of workers, restarts, validations    *)
(* and probes.                                                               *)
(*                                                                           *)
(* What carries the argument is that rte_ring_create() fails while the name  *)
(* is taken and that only the creator frees: the only ring not yet freed is  *)
(* the one that has the name, and its creator is the one end that owns.      *)
(*****************************************************************************)
EXTENDS DaisyChain, SequenceTheorems, TLAPS

Place == {"off", "failed", "create", "lookup", "open", "drain", "free"}
Up    == {"off", "starting", "running", "stopping", "failed"}
Ring  == [by : End, records : Nat, frees : Nat]
Made  == 1 .. Len(rings)

\* The places at which an end has a ring.
Holds == {"open", "drain", "free"}

DaisyType ==
  /\ rings \in Seq(Ring)
  /\ named \in 0 .. Len(rings)
  /\ place \in [End -> Place]
  /\ handle \in [End -> 0 .. Len(rings)]
  /\ owns \in [End -> BOOLEAN]
  /\ up \in Up
  /\ busy \in [Worker -> 0 .. Len(rings)]

\* Which ends can be anywhere while the upstream is where it is.
Supervised ==
  /\ place["live"] \in {"create", "lookup"} => up = "starting"
  /\ place["live"] = "open" => up \in {"starting", "running"}
  /\ place["live"] \in {"drain", "free"} => up = "stopping"
  /\ place["live"] # "failed" /\ (place["probe"] # "off" => up = "running")
  /\ place["input"] \notin {"off", "failed"} => up \in {"starting", "running", "failed"}
  /\ \A w \in Worker : busy[w] # 0 =>
       up = "running" /\ place["live"] = "open" /\ busy[w] = handle["live"]

Died == up = "failed" \/ place["input"] = "failed"

\* The one ring that is not freed has the name, and one end owns it, its creator,
\* unless that died with its process.
OneOwner ==
  /\ \A e \in End :
       /\ handle[e] # 0 <=> place[e] \in Holds
       /\ place[e] \in {"drain", "free"} => owns[e]
       /\ owns[e] => named # 0 /\ handle[e] = named /\ rings[named].by = e
  /\ \A r \in Made : rings[r].frees \in {0, 1} /\ (rings[r].frees = 0 <=> named = r)
  /\ named # 0 => Died \/ \E e \in End : owns[e]

\* The live stage frees its ring empty.
FreesEmpty == place["live"] = "free" => rings[handle["live"]].records = 0

DaisyInv ==
  /\ DaisyType /\ Supervised /\ OneOwner
  /\ FreesEmpty /\ LiveRingSafe /\ NothingStranded

-------------------------------------------------------------------------------
\* The four ways in which the rings change.

\* No ring is made, freed or forgotten.
RingsStay ==
  /\ rings' \in Seq(Ring) /\ Len(rings') = Len(rings)
  /\ \A r \in Made : rings'[r].by = rings[r].by /\ rings'[r].frees = rings[r].frees

LEMMA Rings ==
  ASSUME DaisyType
  PROVE  /\ Len(rings) \in Nat
         /\ \A r \in Made : /\ rings[r] \in Ring /\ rings[r].by \in End
                            /\ rings[r].records \in Nat /\ rings[r].frees \in Nat
<1>1. \A r \in Made : rings[r] \in Ring
  BY DEF DaisyType, Made
<1> QED
  BY <1>1 DEF DaisyType, Ring

LEMMA RecordsCounted ==
  ASSUME DaisyType, NEW r \in Made, NEW n \in Nat, rings' = [rings EXCEPT ![r].records = n]
  PROVE  /\ RingsStay /\ rings'[r].records = n
         /\ \A s \in Made : s # r => rings'[s] = rings[s]
<1>1. [rings[r] EXCEPT !.records = n] \in Ring
  BY Rings DEF Ring
<1>2. /\ [rings[r] EXCEPT !.records = n].by = rings[r].by
      /\ [rings[r] EXCEPT !.records = n].frees = rings[r].frees
      /\ [rings[r] EXCEPT !.records = n].records = n
  BY Rings DEF Ring
<1>3. PICK q : q = [rings[r] EXCEPT !.records = n]
  OBVIOUS
<1>4. rings' = [rings EXCEPT ![r] = q]
  BY <1>3
<1> QED
  BY <1>1, <1>2, <1>3, <1>4 DEF DaisyType, RingsStay, Made

LEMMA RingFreed ==
  ASSUME DaisyType, NEW r \in Made, NEW n \in Nat, rings' = [rings EXCEPT ![r].frees = n]
  PROVE  /\ rings' \in Seq(Ring) /\ Len(rings') = Len(rings)
         /\ rings'[r].by = rings[r].by /\ rings'[r].records = rings[r].records
         /\ rings'[r].frees = n
         /\ \A s \in Made : s # r => rings'[s] = rings[s]
<1>1. [rings[r] EXCEPT !.frees = n] \in Ring
  BY Rings DEF Ring
<1>2. /\ [rings[r] EXCEPT !.frees = n].by = rings[r].by
      /\ [rings[r] EXCEPT !.frees = n].records = rings[r].records
      /\ [rings[r] EXCEPT !.frees = n].frees = n
  BY Rings DEF Ring
<1>3. PICK q : q = [rings[r] EXCEPT !.frees = n]
  OBVIOUS
<1>4. rings' = [rings EXCEPT ![r] = q]
  BY <1>3
<1> QED
  BY <1>1, <1>2, <1>3, <1>4 DEF DaisyType, Made

LEMMA RingMade ==
  ASSUME DaisyType, NEW e \in End, Create(e)
  PROVE  /\ rings' \in Seq(Ring) /\ Len(rings') = Len(rings) + 1 /\ named' = Len(rings')
         /\ \A r \in Made : rings'[r] = rings[r]
         /\ rings'[named'].by = e /\ rings'[named'].frees = 0 /\ rings'[named'].records = 0
<1>1. [by |-> e, records |-> 0, frees |-> 0] \in Ring
  BY DEF Ring
<1> QED
  BY <1>1, AppendProperties DEF Create, DaisyType, Made

-------------------------------------------------------------------------------
\* The processes' order.

LEMMA StepKeepsSupervised ==
  ASSUME DaisyInv, DaisyNext
  PROVE  Supervised' /\ (Died => Died')
<1>1. /\ place \in [End -> Place] /\ handle \in [End -> 0 .. Len(rings)]
      /\ busy \in [Worker -> 0 .. Len(rings)] /\ up \in Up
  BY DEF DaisyInv, DaisyType
<1>2. Supervised
  BY DEF DaisyInv
<1>3. \A e \in End : place[e] \in {"drain", "free"} => owns[e]
  BY DEF DaisyInv, OneOwner
<1> USE <1>1, <1>2, <1>3 DEF Supervised, Died, DownStopped, PlaceTo, End, Output, Place, Up
<1>4. ASSUME NEW e \in Output, OutputCreate(e) \/ OutputLookup(e) \/ OutputFails(e)
      PROVE  Supervised' /\ (Died => Died')
  <2>1. CASE OutputCreate(e)
    BY <2>1 DEF OutputCreate, Create, Nothing
  <2>2. CASE OutputLookup(e)
    BY <2>2 DEF OutputLookup, Lookup
  <2>3. CASE OutputFails(e)
    BY <2>3 DEF OutputFails, Nothing
  <2> QED
    BY <1>4, <2>1, <2>2, <2>3
<1>5. CASE InputLookup
  BY <1>5 DEF InputLookup, Lookup, Nothing
<1>6. CASE InputCreate
  BY <1>6 DEF InputCreate, Create, Nothing
<1>7. ASSUME NEW e \in End, Drain(e) PROVE Supervised' /\ (Died => Died')
  BY <1>7 DEF Drain
<1>8. ASSUME NEW e \in End, Free(e) PROVE Supervised' /\ (Died => Died')
  BY <1>8 DEF Free, Close
<1>9. CASE UpStart
  BY <1>9 DEF UpStart, Nothing
<1>10. CASE UpRun
  BY <1>10 DEF UpRun
<1>11. CASE ProbeStart
  BY <1>11 DEF ProbeStart, Nothing
<1>12. CASE ProbeStop
  BY <1>12 DEF ProbeStop, LetGo, Close, Nothing
<1>13. CASE UpTeardown
  BY <1>13 DEF UpTeardown, LetGo, Close, Nothing
<1>14. CASE UpExit
  BY <1>14 DEF UpExit
<1>15. ASSUME NEW w \in Worker, Enqueue(w) PROVE Supervised' /\ (Died => Died')
  BY <1>15 DEF Enqueue
<1>16. ASSUME NEW w \in Worker, Enqueued(w) PROVE Supervised' /\ (Died => Died')
  BY <1>16 DEF Enqueued
<1>17. CASE DownStart
  BY <1>17 DEF DownStart, Nothing
<1>18. CASE Dequeue
  BY <1>18 DEF Dequeue
<1>19. CASE DownStop
  BY <1>19 DEF DownStop, LetGo, Close, Nothing
<1>20. CASE UpDies
  BY <1>20 DEF UpDies
<1>21. CASE DownDies
  BY <1>21 DEF DownDies, Close
<1>22. CASE ChainEnded
  BY <1>22 DEF ChainEnded, vars
<1> HIDE <1>1, <1>2, <1>3
<1> QED
  BY <1>4, <1>5, <1>6, <1>7, <1>8, <1>9, <1>10, <1>11, <1>12, <1>13, <1>14, <1>15, <1>16,
     <1>17, <1>18, <1>19, <1>20, <1>21, <1>22, Zenon DEF DaisyNext

-------------------------------------------------------------------------------
\* What each kind of step does to the rings and to those who hold them.

LEMMA Holders ==
  ASSUME DaisyInv
  PROVE  /\ \A e \in End : /\ handle[e] \in 0 .. Len(rings)
                           /\ handle[e] # 0 <=> place[e] \in Holds
                           /\ place[e] \in Holds => handle[e] \in Made
                           /\ owns[e] => named \in Made /\ rings[named].by = e
         /\ \A w \in Worker : busy[w] # 0 => busy[w] \in Made
         /\ \A e, f \in End : owns[e] /\ owns[f] => e = f
BY Rings DEF DaisyInv, DaisyType, OneOwner, Made

LEMMA SafeRings ==
  ASSUME DaisyInv, NEW r \in Made, rings[r].by = "live",
         (\E e \in End : handle[e] = r) \/ (\E w \in Worker : busy[w] = r)
  PROVE  rings[r].frees = 0
BY DEF DaisyInv, LiveRingSafe, Users, Live, Made

\* The end moves on with what it has.
LEMMA NothingKeeps ==
  ASSUME DaisyInv, DaisyNext, Nothing, busy' = busy, up' \in Up, place' \in [End -> Place],
         \A e \in End : /\ place'[e] \in Holds <=> place[e] \in Holds
                        /\ place'[e] \in {"drain", "free"} => owns[e],
         FreesEmpty'
  PROVE  DaisyInv'
<1>1. DaisyType' /\ Supervised'
  BY StepKeepsSupervised DEF DaisyInv, DaisyType, Nothing
<1>2. OneOwner'
  BY StepKeepsSupervised DEF DaisyInv, OneOwner, Nothing, Made
<1>3. LiveRingSafe' /\ NothingStranded'
  BY DEF DaisyInv, LiveRingSafe, NothingStranded, Users, Live, Nothing
<1> QED
  BY <1>1, <1>2, <1>3 DEF DaisyInv

LEMMA CreateKeeps ==
  ASSUME DaisyInv, DaisyNext, NEW e \in End, Create(e), place[e] = "create",
         place' = [place EXCEPT ![e] = "open"], UNCHANGED <<up, busy>>
  PROVE  DaisyInv'
<1>1. /\ DaisyType /\ OneOwner /\ Len(rings) \in Nat /\ named = 0
      /\ \A f \in End : ~owns[f] /\ place[f] # "free"
  BY Rings DEF DaisyInv, OneOwner, Create
<1>2. /\ rings' \in Seq(Ring) /\ Len(rings') = Len(rings) + 1 /\ named' = Len(rings) + 1
      /\ \A r \in Made : rings'[r] = rings[r]
      /\ rings'[named'].by = e /\ rings'[named'].frees = 0 /\ rings'[named'].records = 0
  BY <1>1, RingMade
<1>3. /\ handle' \in [End -> 0 .. Len(rings')] /\ handle'[e] = named' /\ owns'[e]
      /\ owns' \in [End -> BOOLEAN]
      /\ \A f \in End : f # e => handle'[f] = handle[f] /\ ~owns'[f]
  BY <1>1, <1>2 DEF Create, DaisyType
<1>4. /\ place' \in [End -> Place] /\ place'[e] = "open"
      /\ \A f \in End : f # e => place'[f] = place[f]
  BY DEF DaisyInv, DaisyType, Place
<1>5. DaisyType' /\ Supervised'
  BY <1>1, <1>2, <1>3, <1>4, StepKeepsSupervised DEF DaisyType
<1>6. /\ Made' = Made \cup {named'} /\ named' \notin Made
      /\ \A f \in End : handle[f] # named' /\ \A w \in Worker : busy[w] # named'
  BY <1>1, <1>2 DEF Made, DaisyType
<1>7. OneOwner'
  <2>1. \A f \in End : /\ handle'[f] # 0 <=> place'[f] \in Holds
                       /\ place'[f] \in {"drain", "free"} => owns'[f]
                       /\ owns'[f] => named' # 0 /\ handle'[f] = named' /\ rings'[named'].by = f
    BY <1>1, <1>2, <1>3, <1>4 DEF OneOwner, Holds
  <2>2. \A r \in Made' : rings'[r].frees \in {0, 1} /\ (rings'[r].frees = 0 <=> named' = r)
    BY <1>1, <1>2, <1>6 DEF OneOwner, Made
  <2> QED
    BY <1>3, <2>1, <2>2 DEF OneOwner
<1>8. FreesEmpty'
  BY <1>1, <1>4 DEF FreesEmpty, End, Output
<1>9. LiveRingSafe'
  <2> SUFFICES ASSUME NEW r \in Made', rings'[r].by = "live", Users(r)' # {}
               PROVE  rings'[r].frees = 0
    BY DEF LiveRingSafe, Made, Live
  <2>1. CASE r = named'
    BY <1>2, <2>1
  <2>2. CASE r \in Made
    BY <1>2, <1>3, <1>6, <2>2, SafeRings DEF Users
  <2> QED
    BY <1>6, <2>1, <2>2
<1>10. NothingStranded'
  <2> SUFFICES ASSUME NEW r \in Made', rings'[r].by = "live", rings'[r].frees # 0
               PROVE  rings'[r].records = 0
    BY DEF NothingStranded, Made, Live
  <2>1. r \in Made /\ rings'[r] = rings[r]
    BY <1>2, <1>6
  <2> QED
    BY <2>1 DEF DaisyInv, NothingStranded, Live, Made
<1> QED
  BY <1>5, <1>7, <1>8, <1>9, <1>10 DEF DaisyInv

LEMMA LookupKeeps ==
  ASSUME DaisyInv, DaisyNext, NEW e \in End, Lookup(e), place[e] = "lookup",
         place' = [place EXCEPT ![e] = "open"], UNCHANGED <<up, busy>>
  PROVE  DaisyInv'
<1>1. /\ named # 0 /\ named \in Made /\ rings' = rings /\ named' = named
      /\ Len(rings) \in Nat /\ DaisyType /\ OneOwner
  BY Rings DEF DaisyInv, DaisyType, Lookup, Made
<1>2. /\ handle' \in [End -> 0 .. Len(rings')] /\ handle'[e] = named /\ ~owns'[e]
      /\ owns' \in [End -> BOOLEAN]
      /\ \A f \in End : f # e => handle'[f] = handle[f] /\ owns'[f] = owns[f]
  BY <1>1 DEF Lookup, DaisyType
<1>3. /\ place' \in [End -> Place] /\ place'[e] = "open"
      /\ \A f \in End : f # e => place'[f] = place[f]
  BY DEF DaisyInv, DaisyType, Place
<1>4. ~owns[e] /\ handle[e] = 0
  BY Holders DEF DaisyInv, OneOwner, Holds
<1>5. DaisyType' /\ Supervised'
  BY <1>1, <1>2, <1>3, StepKeepsSupervised DEF DaisyType
<1>6. OneOwner'
  <2>1. ASSUME NEW f \in End
        PROVE  /\ handle'[f] # 0 <=> place'[f] \in Holds
               /\ place'[f] \in {"drain", "free"} => owns'[f]
               /\ owns'[f] => handle'[f] = named /\ rings[named].by = f
    <3>1. CASE f = e
      BY <1>1, <1>2, <1>3, <3>1 DEF Holds
    <3>2. CASE f # e
      BY <1>1, <1>2, <1>3, <3>2 DEF OneOwner
    <3> QED
      BY <3>1, <3>2
  <2>2. Died' \/ \E f \in End : owns'[f]
    BY <1>1, <1>2, <1>4, StepKeepsSupervised DEF OneOwner
  <2>3. \A r \in Made : rings[r].frees \in {0, 1} /\ (rings[r].frees = 0 <=> named = r)
    BY <1>1 DEF OneOwner
  <2> QED
    BY <1>1, <2>1, <2>2, <2>3 DEF OneOwner, Made
<1>7. FreesEmpty'
  BY <1>1, <1>2, <1>3 DEF DaisyInv, FreesEmpty, End, Output
<1>8. LiveRingSafe' /\ NothingStranded'
  <2>1. rings[named].frees = 0
    BY <1>1 DEF OneOwner
  <2>2. LiveRingSafe'
    BY <1>1, <1>2, <2>1 DEF DaisyInv, LiveRingSafe, Users, Live
  <2> QED
    BY <1>1, <2>2 DEF DaisyInv, NothingStranded, Live
<1> QED
  BY <1>5, <1>6, <1>7, <1>8 DEF DaisyInv

\* An end that is not the creator just forgets the ring.
LEMMA ForgetKeeps ==
  ASSUME DaisyInv, DaisyNext, NEW e \in End, ~owns[e], place[e] = "open", Close(e),
         place' = [place EXCEPT ![e] = "off"], UNCHANGED <<rings, named, busy>>, up' \in Up
  PROVE  DaisyInv'
<1>1. DaisyType /\ OneOwner /\ Len(rings) \in Nat
  BY Rings DEF DaisyInv
<1>2. /\ handle' \in [End -> 0 .. Len(rings')] /\ handle'[e] = 0 /\ ~owns'[e]
      /\ owns' \in [End -> BOOLEAN]
      /\ \A f \in End : f # e => handle'[f] = handle[f] /\ owns'[f] = owns[f]
  BY <1>1 DEF Close, DaisyType
<1>3. /\ place' \in [End -> Place] /\ place'[e] = "off"
      /\ \A f \in End : f # e => place'[f] = place[f]
  BY DEF DaisyInv, DaisyType, Place
<1>4. DaisyType' /\ Supervised'
  BY <1>1, <1>2, <1>3, StepKeepsSupervised DEF DaisyType
<1>5. OneOwner'
  BY <1>1, <1>2, <1>3, StepKeepsSupervised DEF OneOwner, Holds, Made
<1>6. FreesEmpty'
  BY <1>1, <1>2, <1>3 DEF DaisyInv, FreesEmpty, End, Output
<1>7. LiveRingSafe' /\ NothingStranded'
  BY <1>1, <1>2 DEF DaisyInv, LiveRingSafe, NothingStranded, Users, Live
<1> QED
  BY <1>4, <1>5, <1>6, <1>7 DEF DaisyInv

\* Records come and go on a ring somebody holds.
LEMMA CountKeeps ==
  ASSUME DaisyInv, RingsStay, UNCHANGED <<named, place, handle, owns, up>>,
         busy' \in [Worker -> 0 .. Len(rings)], Supervised', FreesEmpty',
         \A w \in Worker : busy'[w] # 0 => busy'[w] = handle["live"],
         \A r \in Made : rings[r].by = "live" /\ rings[r].frees # 0 => rings'[r] = rings[r]
  PROVE  DaisyInv'
<1>1. Made' = Made /\ Len(rings) \in Nat
  BY Rings DEF DaisyInv, RingsStay, Made
<1>2. DaisyType'
  BY DEF DaisyInv, DaisyType, RingsStay
<1>3. OneOwner'
  BY <1>1, Holders DEF DaisyInv, OneOwner, Died, RingsStay
<1>4. LiveRingSafe'
  <2> SUFFICES ASSUME NEW r \in Made, rings'[r].by = "live", Users(r)' # {}
               PROVE  rings'[r].frees = 0
    BY <1>1 DEF LiveRingSafe, Made, Live
  <2>1. \E e \in End : handle[e] = r
    BY <1>1 DEF Users, End, Output, Made
  <2> QED
    BY <2>1, SafeRings DEF RingsStay
<1>5. NothingStranded'
  BY <1>1 DEF DaisyInv, NothingStranded, Live, RingsStay, Made
<1> QED
  BY <1>2, <1>3, <1>4, <1>5 DEF DaisyInv

LEMMA TakeKeeps ==
  ASSUME DaisyInv, DaisyNext, NEW e \in End, place[e] \in {"open", "drain"}, Take(e),
         rings[handle[e]].records > 0, UNCHANGED <<named, place, handle, owns, up, busy>>
  PROVE  DaisyInv'
<1> DEFINE r == handle[e]
           n == rings[r].records - 1
<1>1. r \in Made /\ DaisyType
  BY Holders DEF DaisyInv, Holds
<1>2. n \in Nat /\ rings' = [rings EXCEPT ![r].records = n]
  BY <1>1, Rings DEF Take
<1>3. RingsStay /\ \A s \in Made : s # r => rings'[s] = rings[s]
  <2> HIDE DEF n, r
  <2> QED
    BY <1>1, <1>2, RecordsCounted
<1>4. FreesEmpty'
  <2>1. place["live"] = "free" => handle["live"] # r /\ handle["live"] \in Made
    BY Holders DEF DaisyInv, FreesEmpty, Holds, End, Output
  <2> QED
    BY <1>3, <2>1 DEF DaisyInv, FreesEmpty
<1>5. \A s \in Made : rings[s].by = "live" /\ rings[s].frees # 0 => rings'[s] = rings[s]
  BY <1>3, SafeRings
<1>6. \A w \in Worker : busy'[w] # 0 => busy'[w] = handle["live"]
  BY DEF DaisyInv, Supervised
<1> QED
  BY <1>1, <1>3, <1>4, <1>5, <1>6, StepKeepsSupervised, CountKeeps DEF DaisyType

LEMMA EnqueueKeeps ==
  ASSUME DaisyInv, DaisyNext, NEW w \in Worker, Enqueue(w)
  PROVE  DaisyInv'
<1>1. /\ place["live"] = "open" /\ busy' = [busy EXCEPT ![w] = handle["live"]]
      /\ UNCHANGED <<rings, named, place, handle, owns, up>>
  BY DEF Enqueue
<1>2. handle["live"] \in 0 .. Len(rings) /\ busy \in [Worker -> 0 .. Len(rings)]
  BY DEF DaisyInv, DaisyType, End, Output
<1>3. busy' \in [Worker -> 0 .. Len(rings)]
  BY <1>1, <1>2
<1>4. \A v \in Worker : busy'[v] # 0 => busy'[v] = handle["live"]
  BY <1>1, <1>2 DEF DaisyInv, Supervised
<1>5. RingsStay /\ FreesEmpty'
  BY <1>1 DEF RingsStay, DaisyInv, DaisyType, FreesEmpty, Made
<1> QED
  BY <1>1, <1>3, <1>4, <1>5, StepKeepsSupervised, CountKeeps

LEMMA EnqueuedKeeps ==
  ASSUME DaisyInv, DaisyNext, NEW w \in Worker, Enqueued(w)
  PROVE  DaisyInv'
<1> DEFINE r == busy[w]
           n == rings[r].records + 1
<1>1. /\ busy[w] # 0 /\ busy' = [busy EXCEPT ![w] = 0]
      /\ UNCHANGED <<named, place, handle, owns, up>>
  BY DEF Enqueued
<1>2. r \in Made /\ DaisyType /\ place["live"] = "open"
  BY <1>1, Holders DEF DaisyInv, Supervised
<1>3. n \in Nat
  BY <1>2, Rings
<1>4. RingsStay /\ \A s \in Made : s # r => rings'[s] = rings[s]
  <2>1. CASE rings' = [rings EXCEPT ![r].records = n]
    <3> HIDE DEF n, r
    <3> QED
      BY <1>2, <1>3, <2>1, RecordsCounted
  <2>2. CASE rings' = rings
    BY <1>2, <2>2 DEF RingsStay, DaisyType
  <2> QED
    BY <2>1, <2>2 DEF Enqueued
<1>5. busy' \in [Worker -> 0 .. Len(rings)] /\ FreesEmpty'
  BY <1>1, <1>2, Rings DEF DaisyType, FreesEmpty
<1>6. \A v \in Worker : busy'[v] # 0 => busy'[v] = handle["live"]
  <2>1. \A v \in Worker : busy'[v] # 0 => busy'[v] = busy[v]
    BY <1>1, <1>2 DEF DaisyType
  <2> QED
    BY <2>1 DEF DaisyInv, Supervised
<1>7. \A s \in Made : rings[s].by = "live" /\ rings[s].frees # 0 => rings'[s] = rings[s]
  BY <1>4, SafeRings
<1> QED
  BY <1>1, <1>4, <1>5, <1>6, <1>7, StepKeepsSupervised, CountKeeps

\* The live stage frees its ring when nobody else can have it.
LEMMA FreeKeeps ==
  ASSUME DaisyInv, DaisyNext, NEW e \in End, Free(e)
  PROVE  DaisyInv'
<1>1. /\ place[e] = "free" /\ place' = [place EXCEPT ![e] = "off"]
      /\ rings' = [rings EXCEPT ![handle[e]].frees = @ + 1]
      /\ named' = (IF named = handle[e] THEN 0 ELSE named)
      /\ handle' = [handle EXCEPT ![e] = 0] /\ owns' = [owns EXCEPT ![e] = FALSE]
      /\ UNCHANGED <<up, busy>>
  BY DEF Free, PlaceTo, Close
<1>2. DaisyType /\ OneOwner /\ Len(rings) \in Nat
  BY Rings DEF DaisyInv
<1>3. /\ owns[e] /\ handle[e] = named /\ named \in Made /\ rings[named].by = e
      /\ rings[named].frees = 0
  BY <1>1, <1>2, Holders DEF OneOwner
<1>4. rings' = [rings EXCEPT ![named].frees = 1]
  BY <1>1, <1>3
<1>5. /\ rings' \in Seq(Ring) /\ Len(rings') = Len(rings)
      /\ rings'[named].by = e /\ rings'[named].records = rings[named].records
      /\ rings'[named].frees = 1
      /\ \A s \in Made : s # named => rings'[s] = rings[s]
  <2>1. PICK n \in Nat : n = 1
    OBVIOUS
  <2>2. rings' = [rings EXCEPT ![named].frees = n]
    BY <1>4, <2>1
  <2>3. /\ rings' \in Seq(Ring) /\ Len(rings') = Len(rings)
        /\ rings'[named].by = rings[named].by /\ rings'[named].records = rings[named].records
        /\ rings'[named].frees = n
        /\ \A s \in Made : s # named => rings'[s] = rings[s]
    BY <1>2, <1>3, <2>2, RingFreed, Zenon
  <2> QED
    BY <1>3, <2>1, <2>3
<1>6. /\ handle' \in [End -> 0 .. Len(rings)] /\ handle'[e] = 0 /\ ~owns'[e]
      /\ owns' \in [End -> BOOLEAN]
      /\ \A f \in End : f # e => handle'[f] = handle[f] /\ owns'[f] = owns[f] /\ ~owns'[f]
  BY <1>1, <1>2, <1>3, Holders DEF DaisyType
<1>7. /\ place' \in [End -> Place] /\ place'[e] = "off"
      /\ \A f \in End : f # e => place'[f] = place[f]
  BY <1>1, <1>2 DEF DaisyType, Place
<1>8. Made' = Made /\ named' = 0
  BY <1>1, <1>3, <1>5 DEF Made
<1>9. DaisyType' /\ Supervised'
  BY <1>1, <1>2, <1>5, <1>6, <1>7, <1>8, StepKeepsSupervised DEF DaisyType
<1>10. OneOwner'
  <2>1. \A f \in End : /\ handle'[f] # 0 <=> place'[f] \in Holds
                       /\ place'[f] \in {"drain", "free"} => owns'[f]
                       /\ ~owns'[f]
    <3> SUFFICES ASSUME NEW f \in End
                 PROVE  /\ handle'[f] # 0 <=> place'[f] \in Holds
                        /\ place'[f] \in {"drain", "free"} => owns'[f]
                        /\ ~owns'[f]
      OBVIOUS
    <3>1. CASE f = e
      BY <1>6, <1>7, <3>1 DEF Holds
    <3>2. CASE f # e
      BY <1>2, <1>6, <1>7, <3>2 DEF OneOwner
    <3> QED
      BY <3>1, <3>2
  <2>2. \A r \in Made' : rings'[r].frees \in {0, 1} /\ (rings'[r].frees = 0 <=> named' = r)
    BY <1>2, <1>3, <1>5, <1>8 DEF OneOwner, Made
  <2> QED
    BY <1>8, <2>1, <2>2 DEF OneOwner
<1>11. FreesEmpty'
  BY <1>6, <1>7, <1>2 DEF FreesEmpty, OneOwner, End, Output
<1>12. LiveRingSafe'
  <2> SUFFICES ASSUME NEW r \in Made, rings'[r].by = "live", Users(r)' # {}
               PROVE  rings'[r].frees = 0
    BY <1>8 DEF LiveRingSafe, Made, Live
  <2>1. CASE r = named
    <3>1. e = "live"
      BY <1>5, <2>1
    <3>2. \A f \in End : handle'[f] = 0
      BY <1>1, <1>6, <3>1, Holders DEF DaisyInv, Supervised, Holds, End, Output
    <3>3. \A w \in Worker : busy'[w] = 0
      BY <1>1, <3>1 DEF DaisyInv, Supervised
    <3>4. r # 0
      BY DEF Made
    <3> QED
      BY <3>2, <3>3, <3>4 DEF Users
  <2>2. CASE r # named
    <3>1. (\E f \in End : handle[f] = r) \/ (\E w \in Worker : busy[w] = r)
      BY <1>1, <1>2 DEF Users, DaisyType, Made
    <3> QED
      BY <1>5, <2>2, <3>1, SafeRings
  <2> QED
    BY <2>1, <2>2
<1>13. NothingStranded'
  <2> SUFFICES ASSUME NEW r \in Made, rings'[r].by = "live", rings'[r].frees # 0
               PROVE  rings'[r].records = 0
    BY <1>8 DEF NothingStranded, Made, Live
  <2>1. CASE r = named
    BY <1>1, <1>3, <1>5, <2>1 DEF DaisyInv, FreesEmpty
  <2>2. CASE r # named
    BY <1>5, <2>2 DEF DaisyInv, NothingStranded, Live, Made
  <2> QED
    BY <2>1, <2>2
<1> QED
  BY <1>9, <1>10, <1>11, <1>12, <1>13 DEF DaisyInv

-------------------------------------------------------------------------------
\* The invariant.

LEMMA DaisyStarts == DaisyInit => DaisyInv
<1> SUFFICES ASSUME DaisyInit PROVE DaisyInv
  OBVIOUS
<1>1. /\ rings = <<>> /\ named = 0 /\ Len(rings) = 0 /\ Made = {}
      /\ place = [e \in End |-> "off"] /\ handle = [e \in End |-> 0]
      /\ owns = [e \in End |-> FALSE] /\ up = "off" /\ busy = [w \in Worker |-> 0]
  BY EmptySeq DEF DaisyInit, Made
<1>2. DaisyType
  BY <1>1, EmptySeq DEF DaisyType, Place, Up
<1>3. Supervised /\ OneOwner /\ FreesEmpty
  BY <1>1 DEF Supervised, OneOwner, FreesEmpty, Holds, End, Output
<1>4. LiveRingSafe /\ NothingStranded
  BY <1>1 DEF LiveRingSafe, NothingStranded, Made
<1> QED
  BY <1>2, <1>3, <1>4 DEF DaisyInv

\* An end's teardown: drain, or forget.
LEMMA LetGoKeeps ==
  ASSUME DaisyInv, DaisyNext, NEW e \in End, LetGo(e), busy' = busy, up' \in Up
  PROVE  DaisyInv'
<1>1. CASE owns[e] /\ PlaceTo(e, "open", "drain") /\ Nothing
  <2>1. /\ place' \in [End -> Place] /\ place[e] = "open" /\ place'[e] = "drain"
        /\ \A f \in End : f # e => place'[f] = place[f]
    BY <1>1 DEF PlaceTo, DaisyInv, DaisyType, Place
  <2>2. \A f \in End : /\ place'[f] \in Holds <=> place[f] \in Holds
                       /\ place'[f] \in {"drain", "free"} => owns[f]
    BY <1>1, <2>1 DEF DaisyInv, OneOwner, Holds
  <2>3. FreesEmpty'
    BY <1>1, <2>1 DEF DaisyInv, FreesEmpty, Nothing, End, Output
  <2> QED
    BY <1>1, <2>1, <2>2, <2>3, NothingKeeps
<1>2. CASE ~owns[e] /\ PlaceTo(e, "open", "off") /\ Close(e) /\ UNCHANGED <<rings, named>>
  BY <1>2, ForgetKeeps DEF PlaceTo
<1> QED
  BY <1>1, <1>2 DEF LetGo

\* An end that goes to a place where it has no ring yet, or leaves one.
LEMMA MoveKeeps ==
  ASSUME DaisyInv, DaisyNext, NEW e \in End, NEW to \in Place \ Holds,
         place[e] \notin Holds, place' = [place EXCEPT ![e] = to],
         Nothing, busy' = busy, up' \in Up
  PROVE  DaisyInv'
<1>1. /\ place' \in [End -> Place] /\ place'[e] = to
      /\ \A f \in End : f # e => place'[f] = place[f]
  BY DEF DaisyInv, DaisyType
<1>2. \A f \in End : /\ place'[f] \in Holds <=> place[f] \in Holds
                     /\ place'[f] \in {"drain", "free"} => owns[f]
  BY <1>1 DEF DaisyInv, OneOwner, Holds
<1>3. FreesEmpty'
  BY <1>1 DEF DaisyInv, FreesEmpty, Nothing, End, Output, Holds
<1> QED
  BY <1>1, <1>2, <1>3, NothingKeeps

\* The process moves on, its ends stay.
LEMMA StayKeeps ==
  ASSUME DaisyInv, DaisyNext, Nothing, UNCHANGED <<place, busy>>, up' \in Up
  PROVE  DaisyInv'
<1>1. place' \in [End -> Place] /\ FreesEmpty'
  BY DEF DaisyInv, DaisyType, FreesEmpty, Nothing
<1>2. \A f \in End : /\ place'[f] \in Holds <=> place[f] \in Holds
                     /\ place'[f] \in {"drain", "free"} => owns[f]
  BY DEF DaisyInv, OneOwner
<1> QED
  BY <1>1, <1>2, NothingKeeps

LEMMA DrainKeeps ==
  ASSUME DaisyInv, DaisyNext, NEW e \in End, Drain(e)
  PROVE  DaisyInv'
<1>1. /\ place[e] = "drain" /\ UNCHANGED <<named, handle, owns, up, busy>>
  BY DEF Drain
<1>2. CASE rings[handle[e]].records > 0 /\ Take(e) /\ UNCHANGED place
  BY <1>1, <1>2, TakeKeeps
<1>3. CASE rings[handle[e]].records = 0 /\ PlaceTo(e, "drain", "free") /\ UNCHANGED rings
  <2>1. /\ place' \in [End -> Place] /\ place'[e] = "free"
        /\ \A f \in End : f # e => place'[f] = place[f]
    BY <1>3 DEF PlaceTo, DaisyInv, DaisyType, Place
  <2>2. \A f \in End : /\ place'[f] \in Holds <=> place[f] \in Holds
                       /\ place'[f] \in {"drain", "free"} => owns[f]
    BY <1>1, <2>1 DEF DaisyInv, OneOwner, Holds
  <2>3. FreesEmpty'
    BY <1>1, <1>3, <2>1 DEF DaisyInv, FreesEmpty, End, Output
  <2>4. up' \in Up
    BY <1>1 DEF DaisyInv, DaisyType
  <2> QED
    BY <1>1, <1>3, <2>1, <2>2, <2>3, <2>4, NothingKeeps DEF Nothing
<1> QED
  BY <1>2, <1>3 DEF Drain

\* The steps of the two init functions.
LEMMA OpenKeeps ==
  ASSUME DaisyInv, DaisyNext,
         \/ \E e \in Output : OutputCreate(e) \/ OutputLookup(e) \/ OutputFails(e)
         \/ InputLookup \/ InputCreate
  PROVE  DaisyInv'
<1>1. up \in Up /\ "failed" \in Up
  BY DEF DaisyInv, DaisyType, Up
<1>2. /\ {"lookup", "off", "create"} \subseteq Place \ Holds /\ "input" \in End
      /\ Output \subseteq End
  BY DEF Place, Holds, End
<1>3. ASSUME NEW e \in Output, OutputCreate(e) PROVE DaisyInv'
  BY <1>1, <1>2, <1>3, CreateKeeps, MoveKeeps DEF OutputCreate, PlaceTo, Holds
<1>4. ASSUME NEW e \in Output, OutputLookup(e) PROVE DaisyInv'
  BY <1>2, <1>4, LookupKeeps DEF OutputLookup, PlaceTo
<1>5. ASSUME NEW e \in Output, OutputFails(e) PROVE DaisyInv'
  BY <1>1, <1>2, <1>5, MoveKeeps DEF OutputFails, PlaceTo, Holds
<1>6. CASE InputLookup
  BY <1>1, <1>2, <1>6, LookupKeeps, MoveKeeps DEF InputLookup, PlaceTo, Holds
<1>7. CASE InputCreate
  BY <1>1, <1>2, <1>7, CreateKeeps, MoveKeeps DEF InputCreate, PlaceTo, Holds
<1> QED
  BY <1>3, <1>4, <1>5, <1>6, <1>7

\* A process that dies lets go of what it has, and leaves its ring where it is.
LEMMA EndsDie ==
  ASSUME DaisyInv, DaisyNext, UNCHANGED <<rings, named>>, up' \in Up, Died',
         place' \in [End -> Place], handle' \in [End -> 0 .. Len(rings)],
         owns' \in [End -> BOOLEAN], busy' \in [Worker -> 0 .. Len(rings)],
         \A e \in End : \/ /\ place'[e] = place[e] /\ handle'[e] = handle[e]
                            /\ owns'[e] = owns[e]
                         \/ /\ place'[e] \in {"off", "failed"} /\ handle'[e] = 0
                            /\ ~owns'[e],
         \A w \in Worker : busy'[w] \in {busy[w], 0}
  PROVE  DaisyInv'
<1>1. DaisyType' /\ Supervised'
  BY StepKeepsSupervised DEF DaisyInv, DaisyType
<1>2. OneOwner'
  <2>1. ASSUME NEW e \in End
        PROVE  /\ handle'[e] # 0 <=> place'[e] \in Holds
               /\ place'[e] \in {"drain", "free"} => owns'[e]
               /\ owns'[e] => named # 0 /\ handle'[e] = named /\ rings[named].by = e
    <3>1. CASE place'[e] = place[e] /\ handle'[e] = handle[e] /\ owns'[e] = owns[e]
      BY <3>1 DEF DaisyInv, OneOwner
    <3>2. CASE place'[e] \in {"off", "failed"} /\ handle'[e] = 0 /\ ~owns'[e]
      BY <3>2 DEF Holds
    <3> QED
      BY <3>1, <3>2
  <2> QED
    BY <2>1 DEF DaisyInv, OneOwner, Made
<1>3. FreesEmpty'
  BY DEF DaisyInv, FreesEmpty, End, Output
<1>4. LiveRingSafe'
  <2> SUFFICES ASSUME NEW r \in Made, rings[r].by = "live", Users(r)' # {}
               PROVE  rings[r].frees = 0
    BY DEF LiveRingSafe, Made, Live
  <2>1. (\E e \in End : handle[e] = r) \/ (\E w \in Worker : busy[w] = r)
    BY DEF Users, Made
  <2> QED
    BY <2>1, SafeRings
<1>5. NothingStranded'
  BY DEF DaisyInv, NothingStranded, Live
<1> QED
  BY <1>1, <1>2, <1>3, <1>4, <1>5 DEF DaisyInv

LEMMA UpDiesKeeps ==
  ASSUME DaisyInv, DaisyNext, UpDies
  PROVE  DaisyInv'
<1>1. /\ place \in [End -> Place] /\ handle \in [End -> 0 .. Len(rings)]
      /\ owns \in [End -> BOOLEAN] /\ Len(rings) \in Nat
  BY Rings DEF DaisyInv, DaisyType
<1>2. /\ UNCHANGED <<rings, named>> /\ up' \in Up /\ Died'
      /\ busy' \in [Worker -> 0 .. Len(rings)] /\ \A w \in Worker : busy'[w] = 0
  BY <1>1 DEF UpDies, Up, Died
<1>3. place' \in [End -> Place] /\ owns' \in [End -> BOOLEAN]
  BY <1>1 DEF UpDies, End, Output, Place
<1>4. handle' \in [End -> 0 .. Len(rings)]
  BY <1>1 DEF UpDies, End, Output
<1>5. \A e \in {"live", "probe"} : place'[e] = "off" /\ handle'[e] = 0 /\ ~owns'[e]
  BY <1>1 DEF UpDies, End, Output
<1>6. /\ place'["input"] = place["input"] /\ handle'["input"] = handle["input"]
      /\ owns'["input"] = owns["input"]
  BY <1>1 DEF UpDies, End, Output
<1> QED
  BY <1>2, <1>3, <1>4, <1>5, <1>6, EndsDie DEF End, Output

LEMMA DownDiesKeeps ==
  ASSUME DaisyInv, DaisyNext, DownDies
  PROVE  DaisyInv'
<1>1. /\ place \in [End -> Place] /\ handle \in [End -> 0 .. Len(rings)]
      /\ owns \in [End -> BOOLEAN] /\ Len(rings) \in Nat
      /\ busy \in [Worker -> 0 .. Len(rings)] /\ up \in Up
  BY Rings DEF DaisyInv, DaisyType
<1>2. UNCHANGED <<rings, named, up, busy>>
  BY DEF DownDies
<1>3. /\ place' \in [End -> Place] /\ handle' \in [End -> 0 .. Len(rings)]
      /\ owns' \in [End -> BOOLEAN]
      /\ place'["input"] = "failed" /\ handle'["input"] = 0 /\ ~owns'["input"]
      /\ \A e \in End \ {"input"} :
           place'[e] = place[e] /\ handle'[e] = handle[e] /\ owns'[e] = owns[e]
  BY <1>1 DEF DownDies, Close, End, Place
<1>4. Died'
  BY <1>3 DEF Died
<1> QED
  BY <1>1, <1>2, <1>3, <1>4, EndsDie

LEMMA DaisyStepKeepsInv == DaisyInv /\ [DaisyNext]_vars => DaisyInv'
<1> SUFFICES ASSUME DaisyInv, [DaisyNext]_vars PROVE DaisyInv'
  OBVIOUS
<1>1. /\ up \in Up /\ {"off", "starting", "running", "stopping"} \subseteq Up
      /\ {"lookup", "off", "create"} \subseteq Place \ Holds
      /\ "input" \in End /\ "probe" \in End /\ "live" \in End
  BY DEF DaisyInv, DaisyType, Up, Place, Holds, End, Output
<1>2. CASE UNCHANGED vars
  <2>1. DaisyType' /\ Supervised' /\ OneOwner' /\ FreesEmpty'
    BY <1>2 DEF vars, DaisyInv, DaisyType, Supervised, OneOwner, Died, FreesEmpty, Made
  <2>2. LiveRingSafe' /\ NothingStranded'
    BY <1>2 DEF vars, DaisyInv, LiveRingSafe, NothingStranded, Users, Live
  <2> QED
    BY <2>1, <2>2 DEF DaisyInv
<1>3. CASE DaisyNext
  <2>1. CASE \/ \E e \in Output : OutputCreate(e) \/ OutputLookup(e) \/ OutputFails(e)
             \/ InputLookup \/ InputCreate
    BY <1>3, <2>1, OpenKeeps
  <2>2. ASSUME NEW e \in End, Drain(e) \/ Free(e) PROVE DaisyInv'
    BY <1>3, <2>2, DrainKeeps, FreeKeeps
  <2>3. CASE UpStart \/ UpRun \/ UpExit
    <3>1. Nothing /\ busy' = busy /\ up' \in Up
      BY <1>1, <2>3 DEF UpStart, UpRun, UpExit, Nothing
    <3>2. UNCHANGED place \/ (place["live"] = "off" /\ place' = [place EXCEPT !["live"] = "create"])
      BY <2>3 DEF UpStart, UpRun, UpExit, PlaceTo
    <3> QED
      BY <1>1, <1>3, <3>1, <3>2, StayKeeps, MoveKeeps DEF Holds
  <2>4. CASE ProbeStart
    BY <1>1, <1>3, <2>4, MoveKeeps DEF ProbeStart, PlaceTo, Holds
  <2>5. CASE DownStart
    BY <1>1, <1>3, <2>5, MoveKeeps DEF DownStart, PlaceTo, Holds
  <2>6. CASE ProbeStop \/ DownStop
    BY <1>1, <1>3, <2>6, LetGoKeeps DEF ProbeStop, DownStop
  <2>7. CASE UpTeardown
    BY <1>1, <1>3, <2>7, LetGoKeeps, StayKeeps DEF UpTeardown, Nothing
  <2>8. ASSUME NEW w \in Worker, Enqueue(w) \/ Enqueued(w) PROVE DaisyInv'
    BY <1>3, <2>8, EnqueueKeeps, EnqueuedKeeps
  <2>9. CASE Dequeue
    BY <1>1, <1>3, <2>9, TakeKeeps DEF Dequeue
  <2>10. CASE UpDies \/ DownDies
    BY <1>3, <2>10, UpDiesKeeps, DownDiesKeeps
  <2>11. CASE ChainEnded
    BY <1>2, <2>11 DEF ChainEnded
  <2> QED
    BY <1>3, <2>1, <2>2, <2>3, <2>4, <2>5, <2>6, <2>7, <2>8, <2>9, <2>10, <2>11, Zenon DEF DaisyNext
<1> QED
  BY <1>2, <1>3

LEMMA DaisySpecKeepsInv == DaisySpec => []DaisyInv
BY DaisyStarts, DaisyStepKeepsInv, PTL DEF DaisySpec

-------------------------------------------------------------------------------

\* While any worker, validation or downstream has the live stage's ring, it is not
\* freed: the supervisor's order is enough, without a count of references.
THEOREM LiveRingIsSafe == DaisySpec => []LiveRingSafe
<1>1. DaisyInv => LiveRingSafe
  BY DEF DaisyInv
<1> QED
  BY <1>1, DaisySpecKeepsInv, PTL

\* No ring is freed twice and none outlives two processes that were stopped, in any
\* number of restarts of either.
THEOREM RingsAreFreedOnce == DaisySpec => []RingsFreedOnce
<1>1. DaisyInv => RingsFreedOnce
  <2> SUFFICES ASSUME DaisyInv, NEW r \in Made
               PROVE  /\ rings[r].frees <= 1
                      /\ up = "off" /\ place["input"] = "off" => rings[r].frees # 0
    BY DEF RingsFreedOnce, Made, Live
  <2>1. rings[r].frees <= 1
    BY DEF DaisyInv, OneOwner
  <2>2. ASSUME up = "off", place["input"] = "off", rings[r].frees = 0 PROVE FALSE
    <3>1. \A e \in End : place[e] = "off"
      BY <2>2 DEF DaisyInv, DaisyType, Supervised, End, Output, Place
    <3>2. named = r /\ r # 0
      BY <2>2 DEF DaisyInv, OneOwner, Made
    <3>3. PICK e \in End : owns[e] /\ handle[e] # 0
      BY <2>2, <3>2 DEF DaisyInv, OneOwner, Died
    <3> QED
      BY <3>1, <3>3 DEF DaisyInv, OneOwner, Holds
  <2> QED
    BY <2>1, <2>2
<1> QED
  BY <1>1, DaisySpecKeepsInv, PTL

\* The live stage's ring is freed empty and stays empty: no record is put where
\* nobody will look, with any number of workers.
THEOREM NothingIsStranded == DaisySpec => []NothingStranded
<1>1. DaisyInv => NothingStranded
  BY DEF DaisyInv
<1> QED
  BY <1>1, DaisySpecKeepsInv, PTL
===============================================================================
